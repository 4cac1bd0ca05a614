---------------------------- MODULE Reachability ----------------------------
(***************************************************************************)
(* The reachability matrix in crossfault mode: netmatrix.View, the evidence   *)
(* that Deliver and detectSilence feed it, the probes that gossip it, and the  *)
(* relays that the fabric takes from it (node.go, handlers.go, matrix.go,      *)
(* findRelay).  Module Network carries the messages.                          *)
(*                                                                           *)
(* Of the rest of a node only this is kept: the nodes in Leaders broadcast      *)
(* heartbeats, and every node answers them.  Elections are left out, and so is  *)
(* View.age, which is written and never read.                                 *)
(***************************************************************************)
EXTENDS Network

CONSTANTS
  ElectionTimeout,    \* Config: the silence window
  ProbeInterval,      \* Config
  HeartbeatInterval,  \* Config
  Leaders,            \* the nodes that broadcast heartbeats
  MaxDelay            \* bound: older messages are not told apart

ASSUME ReachabilityAssumption ==
  /\ ElectionTimeout \in Nat \ {0} /\ ProbeInterval \in Nat \ {0}
  /\ HeartbeatInterval \in Nat \ {0} /\ Leaders \subseteq Node
  /\ N <= 3
  /\ MaxDelay \in Nat /\ MaxDelay >= 2 * (BaseDelay + CrossDelay)

VARIABLES
  view,          \* view[i]: the edges that i believes to be up
  inboundUp,     \* inboundUp[i]: the peers that i hears, by its own observation
  quiet,         \* quiet[i][j]: tick - lastHeard, where "never" is tick 0
  newest,        \* newest[i][j]: how long ago the last message from j that i
                 \* accepted was sent (what recvSeq stands for)
  probeElapsed, heartbeatElapsed,
  faulted        \* history: the edges that were ever cut or corrupted

timers == <<probeElapsed, heartbeatElapsed>>
nodeVars == <<view, inboundUp, quiet, newest, timers>>
vars == <<netVars, nodeVars, faulted>>

SilenceWindow == ElectionTimeout

Init ==
  /\ NetInit
  /\ view = [i \in Node |-> Edge]
  /\ inboundUp = [i \in Node |-> Peers(i)]
  /\ quiet = [i \in Node |-> [j \in Peers(i) |-> 0]]
  /\ newest = [i \in Node |-> [j \in Peers(i) |-> MaxDelay]]
  /\ probeElapsed = [i \in Node |-> 0]
  /\ heartbeatElapsed = [i \in Leaders |-> 0]
  /\ faulted = {}

-----------------------------------------------------------------------------
\* netmatrix.View, for a view v.
CanSend(v, i, j) == i = j \/ <<i, j>> \in v

Bidirectional(v, i, j) == CanSend(v, i, j) /\ CanSend(v, j, i)

BidirectionalPeers(v, i) == {j \in Node : Bidirectional(v, i, j)}

HasBidirectionalQuorum(v, i) == Cardinality(BidirectionalPeers(v, i)) >= (N \div 2) + 1

\* Mutant of RelayFor: a link that works backwards is taken to work.
RelayForSymmetric(v, i, j) ==
  LET vias == {via \in Node \ {i, j} : CanSend(v, i, via) /\ CanSend(v, via, j)}
  IN  IF CanSend(v, i, j) \/ CanSend(v, j, i) \/ vias = {}
      THEN NoRelay
      ELSE CHOOSE via \in vias : \A other \in vias : via <= other

\* The first relay in the order of the members, NoRelay if the direct path is
\* believed to work or there is none.
RelayFor(v, i, j) ==
  LET vias == {via \in Node \ {i, j} : CanSend(v, i, via) /\ CanSend(v, via, j)}
  IN  IF CanSend(v, i, j) \/ vias = {}
      THEN NoRelay
      ELSE CHOOSE via \in vias : \A other \in vias : via <= other

\* Mutant of MergeInbound: the report is taken the wrong way round.
MergeInboundReversed(v, peer, up) ==
  {e \in v : e[1] # peer} \cup {<<peer, j>> : j \in up \ {peer}}

\* Mutant of MergeInbound: what is reported to be up again stays down.
MergeInboundOnlyDown(v, peer, up) == {e \in v : e[2] # peer \/ e[1] \in up}

\* mergeInbound: what peer hears replaces what v believes of the edges to peer.
MergeInbound(v, peer, up) ==
  {e \in v : e[2] # peer} \cup {<<j, peer>> : j \in up \ {peer}}

\* View.Merge: the same from a whole view of peer's.
Merge(v, peer, theirs) ==
  {e \in v : e[2] # peer} \cup {e \in theirs : e[2] = peer}

-----------------------------------------------------------------------------
\* Envelopes.  up is the list of a probe or its answer.
Envelope(i, j, kind, up) ==
  [from |-> i, to |-> j, kind |-> kind, up |-> up, intact |-> TRUE]

\* One envelope to each peer, in the order of the members.
Broadcast(i, kind, up) ==
  [k \in 1..(N - 1) |-> Envelope(i, IF k < i THEN k ELSE k + 1, kind, up)]

\* The transcript accepts what was not rewritten and not overtaken.  Ages stand for
\* sequence numbers: with three nodes all that is sent on an edge in one tick goes
\* the same way and takes equally long.
Age(m) == m.delay - m.due
Accepted(m) == m.env.intact /\ Age(m) <= newest[m.env.to][m.env.from]

\* What Deliver records of every accepted message, relayed or not.
Observe(i, j, age) ==
  /\ inboundUp' = [inboundUp EXCEPT ![i] = @ \cup {j}]
  /\ quiet' = [quiet EXCEPT ![i][j] = 0]
  /\ newest' = [newest EXCEPT ![i][j] = age]

Heard(i, j) == view[i] \cup {<<j, i>>}

\* handleProbeReq: merge, then answer with what this node hears itself.
HandleProbe(i, j, m) ==
  /\ view' = [view EXCEPT ![i] = MergeInbound(Heard(i, j), j, m.env.up)]
  /\ DeliverDue(<<Envelope(i, j, "probeResp", inboundUp[i] \cup {j})>>)

HandleProbeResp(i, j, m) ==
  /\ view' = [view EXCEPT ![i] = MergeInbound(Heard(i, j), j, m.env.up)]
  /\ DeliverDue(<<>>)

\* A heartbeat is answered, its answer is not.
HandleHeartbeat(i, j) ==
  /\ view' = [view EXCEPT ![i] = Heard(i, j)]
  /\ DeliverDue(<<Envelope(i, j, "answer", {})>>)

HandleAnswer(i, j) ==
  /\ view' = [view EXCEPT ![i] = Heard(i, j)]
  /\ DeliverDue(<<>>)

Deliver ==
  /\ pending # <<>>
  /\ LET m == Head(pending)
         i == m.env.to
         j == m.env.from
     IN  IF Accepted(m)
         THEN /\ Observe(i, j, Age(m))
              /\ \/ m.env.kind = "probe" /\ HandleProbe(i, j, m)
                 \/ m.env.kind = "probeResp" /\ HandleProbeResp(i, j, m)
                 \/ m.env.kind = "heartbeat" /\ HandleHeartbeat(i, j)
                 \/ m.env.kind = "answer" /\ HandleAnswer(i, j)
         ELSE /\ DeliverDue(<<>>)
              /\ UNCHANGED <<view, inboundUp, quiet, newest>>
  /\ UNCHANGED timers

-----------------------------------------------------------------------------
\* detectSilence: the peers that were quiet for longer than the window.
Longer(q) == IF q <= SilenceWindow THEN q + 1 ELSE q

\* Mutant of Silent: the window ends one tick early.
SilentOnTheWindow(i) == {j \in Peers(i) : quiet'[i][j] >= SilenceWindow}

Silent(i) == {j \in Peers(i) : quiet'[i][j] > SilenceWindow}

\* Mutant of DetectSilence: the view is not told, and stays optimistic forever.
DetectSilenceUnseen(i) ==
  /\ inboundUp' = [inboundUp EXCEPT ![i] = @ \ Silent(i)]
  /\ UNCHANGED view

DetectSilence(i) ==
  /\ inboundUp' = [inboundUp EXCEPT ![i] = @ \ Silent(i)]
  /\ view' = [view EXCEPT ![i] = @ \ {<<j, i>> : j \in Silent(i)}]

\* What of Node.Tick sends: a heartbeat if it is due, then a probe if it is due,
\* which tells the peers whom this node hears.
Heartbeats(i) ==
  IF i \in Leaders /\ heartbeatElapsed[i] + 1 >= HeartbeatInterval
  THEN Broadcast(i, "heartbeat", {}) ELSE <<>>

Probes(i) ==
  IF probeElapsed[i] + 1 >= ProbeInterval
  THEN Broadcast(i, "probe", inboundUp'[i]) ELSE <<>>

\* Mutant of CountUp: the interval is compared before the tick is counted.
CountUpAfter(elapsed, interval) == IF elapsed >= interval THEN 0 ELSE elapsed + 1

CountUp(elapsed, interval) == IF elapsed + 1 >= interval THEN 0 ELSE elapsed + 1

\* Node.Tick: silence is detected before the probe is written.
Tick ==
  /\ turn \in Node
  /\ quiet' = [quiet EXCEPT ![turn] = [j \in Peers(turn) |-> Longer(@[j])]]
  /\ DetectSilence(turn)
  /\ TickNode(Heartbeats(turn) \o Probes(turn))
  /\ probeElapsed' = [probeElapsed EXCEPT ![turn] = CountUp(@, ProbeInterval)]
  /\ heartbeatElapsed' =
       [i \in Leaders |-> IF i = turn THEN CountUp(heartbeatElapsed[i], HeartbeatInterval)
                          ELSE heartbeatElapsed[i]]
  /\ UNCHANGED newest

\* findRelay asks the sender's view and gives up if the relay it names does not work.
Enqueue ==
  /\ outbox # <<>>
  /\ LET env == Head(outbox)
         via == RelayFor(view[env.from], env.from, env.to)
     IN  \/ EnqueueDirect
         \/ RelayWorks(env, via) /\ EnqueueRelayed(via)
         \/ ~RelayWorks(env, via) /\ EnqueueDropped
  /\ UNCHANGED nodeVars

Older(n) == IF n < MaxDelay THEN n + 1 ELSE n

\* One call of Network.Step, iteration by iteration.
Step ==
  /\ \/ /\ BeginStep
        /\ newest' = [i \in Node |-> [j \in Peers(i) |-> Older(newest[i][j])]]
        /\ UNCHANGED <<view, inboundUp, quiet, timers>>
     \/ (KeepWaiting \/ EndStep) /\ UNCHANGED nodeVars
     \/ Deliver
     \/ Tick
     \/ Enqueue
  /\ UNCHANGED faulted

Inject ==
  /\ \E e \in Edge : /\ CutLink(e) \/ HealLink(e) \/ CorruptLink(e) \/ CleanLink(e)
                     /\ faulted' = faulted \cup {e}
  /\ UNCHANGED nodeVars

Next == Step \/ Inject

Fairness == WF_vars(Step)

Spec == Init /\ [][Next]_vars

FairSpec == Spec /\ Fairness

-----------------------------------------------------------------------------
Kinds == {"probe", "probeResp", "heartbeat", "answer"}

Envelopes ==
  [from : Node, to : Node, kind : Kinds, up : SUBSET Node, intact : BOOLEAN]

Messages == [env : Envelopes, due : Int, via : {NoRelay} \cup Node, delay : Nat]

\* Beside the types: the timers stay below their intervals, no report names its own
\* reporter, and nothing is older than MaxDelay, so that no age is cut off.
TypeOK ==
  /\ inflight \in Seq(Messages) /\ pending \in Seq(Messages) /\ outbox \in Seq(Envelopes)
  /\ \A k \in DOMAIN inflight : LET m == inflight[k]
                              IN  m.env.from \notin m.env.up /\ m.delay <= MaxDelay
  /\ stepping \in BOOLEAN /\ turn \in 1..(N + 1)
  /\ down \subseteq Edge /\ corrupt \subseteq Edge /\ latency \in [Edge -> Nat]
  /\ \A i \in Node :
       /\ view[i] \subseteq Edge /\ inboundUp[i] \subseteq Peers(i)
       /\ quiet[i] \in [Peers(i) -> 0..(SilenceWindow + 1)]
       /\ newest[i] \in [Peers(i) -> 0..MaxDelay]
       /\ probeElapsed[i] \in 0..(ProbeInterval - 1)
  /\ heartbeatElapsed \in [Leaders -> 0..(HeartbeatInterval - 1)]

\* A node's view of the edges to itself and the list it reports to its peers agree,
\* although four handlers, the silence detector and the peers' reports write them:
\* what others hear never overwrites what it hears itself.
FirstHand ==
  \A i \in Node : \A j \in Peers(i) : <<j, i>> \in view[i] <=> j \in inboundUp[i]

\* The list of names on the wire carries what View.Merge would take from the
\* reporter's whole view: the edges to the reporter, and nothing else.
MergesAgree ==
  \A i \in Node : \A p \in Peers(i) :
    MergeInbound(view[i], p, inboundUp[p]) = Merge(view[i], p, view[p])

Faulty == down \cup corrupt

\* An edge that never failed is not believed to be down by any node, whatever fails
\* around it: probes come often enough for the window, at the start too, nobody's
\* transcript refuses them, and no report of others says otherwise.
NoFalseAlarm == \A e \in Edge \ faulted : \A i \in Node : e \in view[i]

\* When the faults are gone for good every view becomes whole again and stays so:
\* no belief is cut off from the evidence that would correct it.
ViewsRecover == <>[](Faulty = {}) => <>[](\A i \in Node : view[i] = Edge)

\* A node that nobody can reach ends by declining every election, for good, while
\* its own messages still arrive: the guard of beginElection fires.
DeafNodeDeclines ==
  \A i \in Node :
    <>[](\A j \in Peers(i) : <<j, i>> \in down) => <>[](~HasBidirectionalQuorum(view[i], i))

\* A link that stays cut in one direction, while the way back and a detour work,
\* does not silence its sender: relayed messages keep arriving again and again,
\* although each makes the receiver believe that the link is up and report so.
RelaysKeepReaching ==
  \A e \in Edge : \A via \in Node \ {e[1], e[2]} :
    <>[](e \in down /\ Faulty \cap {<<e[2], e[1]>>, <<e[1], via>>, <<via, e[2]>>, <<via, e[1]>>} = {})
    => []<>(quiet[e[2]][e[1]] = 0)
-----------------------------------------------------------------------------
\* The window outlasts the longest time between two messages of a working edge: from
\* the start, or from a message, to the next probe, and the way of that probe.
WindowLongEnough == ProbeInterval + BaseDelay + CrossDelay <= SilenceWindow + 1

\* The tick that i still has to count in the running Step.
StillToCount(i) == IF stepping /\ turn <= i THEN 1 ELSE 0

\* How long i has been without a message from j when Step returns, if none arrives.
QuietThen(i, j) == quiet[i][j] + StillToCount(i)

\* How many Steps after the running one j sends its next probe.
NextProbe(j) == ProbeInterval - probeElapsed[j] - StillToCount(j)

Items(seq) == {seq[k] : k \in DOMAIN seq}

Under(e, queue) == {m \in Items(queue) : EdgeOf(m.env) = e}

\* Something that j sends to i arrives before the window is over: a message under
\* way, one about to be sent, or the next probe.
InTime(j, i) ==
  LET e == <<j, i>>
      left == SilenceWindow + 1 - QuietThen(i, j)
  IN  \/ \E m \in Under(e, inflight) \cup Under(e, pending) : m.due <= left
      \/ (\E env \in Items(outbox) : EdgeOf(env) = e) /\ DefaultDelay(e) <= left
      \/ NextProbe(j) + DefaultDelay(e) <= left

\* Between two calls of Step nothing is half done, and nodes run after the deliveries.
StepInv ==
  /\ ~stepping => pending = <<>> /\ outbox = <<>> /\ turn = 1
  /\ pending # <<>> => turn = 1

\* The messages of e are intact and take the direct way, and so the transcript at its
\* end accepts each of them.
Carries(e) ==
  /\ \A m \in Under(e, inflight) :
       m.env.intact /\ m.delay = DefaultDelay(e) /\ m.due \in 1..m.delay
  /\ \A m \in Under(e, pending) :
       m.env.intact /\ m.delay = DefaultDelay(e) /\ m.due \in 0..m.delay
  /\ \A env \in Items(outbox) : EdgeOf(env) = e => env.intact
  /\ newest[e[2]][e[1]] >= DefaultDelay(e)

\* Whatever the end of e reports, now or with a message under way, names its start.
Named(e, env) == env.from = e[2] /\ env.kind \in {"probe", "probeResp"} => e[1] \in env.up

Reported(e) ==
  /\ \A m \in Items(inflight) \cup Items(pending) : Named(e, m.env)
  /\ \A env \in Items(outbox) : Named(e, env)
  /\ e[1] \in inboundUp[e[2]]
  /\ \A i \in Node : e \in view[i]

EdgeInv(e) == Carries(e) /\ InTime(e[1], e[2]) /\ Reported(e)

\* What NoFalseAlarm rests on: an edge that never failed keeps its end supplied with
\* evidence, and its end keeps everyone else informed.
WorkingEdges ==
  /\ Faulty \subseteq faulted
  /\ StepInv
  /\ \A e \in Edge \ faulted : EdgeInv(e)
=============================================================================
