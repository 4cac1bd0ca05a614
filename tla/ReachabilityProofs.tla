------------------------- MODULE ReachabilityProofs -------------------------
(***************************************************************************)
(* The reachability matrix under every pattern of faults: types, FirstHand,    *)
(* that the two ways of merging agree, and that there is no false alarm.       *)
(***************************************************************************)
EXTENDS Reachability, SequenceTheorems, TLAPS

\* What may be sent: nobody sends to itself or reports that it hears itself.
Addressed == {env \in Envelopes : env.from # env.to /\ env.from \notin env.up}

Sent == {m \in Messages : m.env \in Addressed /\ m.delay <= MaxDelay}

\* The fabric's part of the invariant.  Nothing changes a latency.
FabricTyped ==
  /\ inflight \in Seq(Sent) /\ pending \in Seq(Sent) /\ outbox \in Seq(Addressed)
  /\ stepping \in BOOLEAN /\ turn \in 1..(N + 1)
  /\ down \subseteq Edge /\ corrupt \subseteq Edge
  /\ latency = [e \in Edge |-> DefaultDelay(e)]

\* The beliefs' part.
BeliefsInv ==
  /\ view \in [Node -> SUBSET Edge] /\ inboundUp \in [Node -> SUBSET Node]
  /\ \A i \in Node : i \notin inboundUp[i]
  /\ FirstHand

\* The counters' part.
CountersTyped ==
  /\ DOMAIN quiet = Node /\ DOMAIN newest = Node
  /\ \A i \in Node : quiet[i] \in [Peers(i) -> 0..(SilenceWindow + 1)]
  /\ \A i \in Node : newest[i] \in [Peers(i) -> 0..MaxDelay]
  /\ probeElapsed \in [Node -> 0..(ProbeInterval - 1)]
  /\ heartbeatElapsed \in [Leaders -> 0..(HeartbeatInterval - 1)]

ReachInv == FabricTyped /\ BeliefsInv /\ CountersTyped

-----------------------------------------------------------------------------
\* The fields of what is sent.
LEMMA SentFields ==
  ASSUME NEW m \in Sent
  PROVE  /\ m.env \in Addressed /\ m.env.from \in Node /\ m.env.to \in Node
         /\ m.env.from # m.env.to /\ m.env.up \subseteq Node
         /\ m.due \in Int /\ m.delay \in Nat /\ m.delay <= MaxDelay
BY DEF Sent, Addressed, Messages, Envelopes

\* What Head, Tail and Append do to a sequence's elements.
LEMMA QueueFacts ==
  ASSUME NEW S, NEW q \in Seq(S)
  PROVE  /\ q # <<>> => Head(q) \in S /\ Tail(q) \in Seq(S)
         /\ \A e \in S : Append(q, e) \in Seq(S)
OBVIOUS

\* A hop takes at most one delay within a cloud and one between the clouds.
LEMMA HopIsShort ==
  ASSUME NEW e \in Edge
  PROVE  /\ DefaultDelay(e) \in Nat
         /\ DefaultDelay(e) <= BaseDelay + CrossDelay
BY NetworkAssumption DEF DefaultDelay

\* One tick off every message.
LEMMA AgedSent ==
  ASSUME NEW q \in Seq(Sent)
  PROVE  Aged(q) \in Seq(Sent)
<1>1. ASSUME NEW m \in Sent PROVE [m EXCEPT !.due = @ - 1] \in Sent
  BY DEF Sent, Messages
<1>2. \A k \in DOMAIN q : q[k] \in Sent
  OBVIOUS
<1>3. DOMAIN q = 1..Len(q) /\ Len(q) \in Nat
  OBVIOUS
<1>4. Aged(q) = [k \in 1..Len(q) |-> [q[k] EXCEPT !.due = @ - 1]]
  BY <1>3 DEF Aged
<1>5. \A k \in 1..Len(q) : [q[k] EXCEPT !.due = @ - 1] \in Sent
  BY <1>1, <1>2, <1>3
<1> QED  BY <1>3, <1>4, <1>5

\* A broadcast is addressed to the others.
LEMMA BroadcastAddressed ==
  ASSUME NEW i \in Node, NEW kind \in Kinds, NEW up \in SUBSET Node, i \notin up
  PROVE  Broadcast(i, kind, up) \in Seq(Addressed)
<1>1. ASSUME NEW k \in 1..(N - 1)
      PROVE  Envelope(i, IF k < i THEN k ELSE k + 1, kind, up) \in Addressed
  <2> DEFINE j == IF k < i THEN k ELSE k + 1
  <2>1. j \in Node /\ j # i
    BY NetworkAssumption DEF Node
  <2> HIDE DEF j
  <2>2. Envelope(i, j, kind, up) \in Addressed
    BY <2>1 DEF Envelope, Addressed, Envelopes
  <2> QED  BY <2>2 DEF j
<1>2. N - 1 \in Nat
  BY NetworkAssumption
<1> QED  BY <1>1, <1>2 DEF Broadcast

\* One call of enqueue keeps the types of the fabric.
LEMMA EnqueueTyped ==
  ASSUME FabricTyped, Enqueue
  PROVE  FabricTyped'
<1> DEFINE env == Head(outbox)
           via == RelayFor(view[env.from], env.from, env.to)
<1>1. outbox # <<>> /\ env \in Addressed /\ Tail(outbox) \in Seq(Addressed)
  BY QueueFacts DEF Enqueue, FabricTyped
<1>2. env \in Envelopes /\ env.from \in Node /\ env.to \in Node /\ env.from # env.to
  BY <1>1 DEF Addressed, Envelopes
<1>3. EdgeOf(env) \in Edge
  BY <1>2 DEF EdgeOf, Edge
<1>4. ASSUME NEW e \in Addressed, NEW delay \in Nat, delay <= MaxDelay,
             NEW v \in {NoRelay} \cup Node, Schedule(e, delay, v)
      PROVE  FabricTyped'
  <2> DEFINE m == [env |-> e, due |-> delay, via |-> v, delay |-> delay]
  <2>1. m \in Sent
    BY <1>4 DEF Sent, Messages, Addressed
  <2>2. inflight' = Append(inflight, m) /\ outbox' = Tail(outbox)
        /\ UNCHANGED <<pending, stepping, turn, down, corrupt, latency>>
    BY <1>4 DEF Schedule, edges
  <2>3. inflight' \in Seq(Sent)
    BY <2>1, <2>2, QueueFacts DEF FabricTyped
  <2> QED  BY <1>1, <2>2, <2>3 DEF FabricTyped
<1>5. CASE EnqueueDirect
  <2> DEFINE e == [env EXCEPT !.intact = @ /\ EdgeOf(env) \notin corrupt]
  <2>1. Schedule(e, latency[EdgeOf(env)], NoRelay)
    BY <1>5 DEF EnqueueDirect
  <2>2. e \in Addressed
    BY <1>1 DEF Addressed, Envelopes
  <2>3. latency[EdgeOf(env)] \in Nat /\ latency[EdgeOf(env)] <= MaxDelay
    BY <1>3, HopIsShort, NetworkAssumption, ReachabilityAssumption DEF FabricTyped
  <2> QED  BY <1>4, <2>1, <2>2, <2>3
<1>6. CASE RelayWorks(env, via) /\ EnqueueRelayed(via)
  <2>1. Schedule(env, latency[<<env.from, via>>] + latency[<<via, env.to>>], via)
    BY <1>6 DEF EnqueueRelayed
  <2>2. via \in Node /\ via # env.from /\ via # env.to
    BY <1>6 DEF RelayWorks
  <2> HIDE DEF via
  <2>3. <<env.from, via>> \in Edge /\ <<via, env.to>> \in Edge
    BY <1>2, <2>2 DEF Edge
  <2>4. /\ latency[<<env.from, via>>] = DefaultDelay(<<env.from, via>>)
        /\ latency[<<via, env.to>>] = DefaultDelay(<<via, env.to>>)
    BY <2>3 DEF FabricTyped
  <2>5. /\ latency[<<env.from, via>>] + latency[<<via, env.to>>] \in Nat
        /\ latency[<<env.from, via>>] + latency[<<via, env.to>>] <= MaxDelay
    BY <2>3, <2>4, HopIsShort, NetworkAssumption, ReachabilityAssumption
  <2> QED  BY <1>1, <1>4, <2>1, <2>2, <2>5
<1>7. CASE EnqueueDropped
  BY <1>1, <1>7 DEF EnqueueDropped, FabricTyped, edges
<1> QED  BY <1>5, <1>6, <1>7 DEF Enqueue

-----------------------------------------------------------------------------
\* What a node hears itself is not overwritten by what another one reports.
LEMMA MergeKeepsFirstHand ==
  ASSUME NEW i \in Node, NEW j \in Node, i # j, NEW v \in SUBSET Edge,
         NEW up \in SUBSET Node
  PROVE  /\ MergeInbound(v, j, up) \in SUBSET Edge
         /\ \A k \in Node : <<k, i>> \in MergeInbound(v, j, up) <=> <<k, i>> \in v
BY DEF MergeInbound, Edge

\* Every accepted message, whatever its kind, is evidence of its sender only.
LEMMA DeliverBeliefs ==
  ASSUME FabricTyped, BeliefsInv, Deliver
  PROVE  BeliefsInv'
<1> DEFINE m == Head(pending)
           i == m.env.to
           j == m.env.from
<1>1. m \in Sent
  BY QueueFacts DEF Deliver, FabricTyped
<1>2. i \in Node /\ j \in Node /\ i # j /\ m.env.up \in SUBSET Node
  BY <1>1, SentFields
<1> HIDE DEF m
<1>3. CASE UNCHANGED <<view, inboundUp>>
  BY <1>3 DEF BeliefsInv, FirstHand
<1>4. Heard(i, j) \in SUBSET Edge
  BY <1>2 DEF Heard, BeliefsInv, Edge
<1>5. ASSUME NEW w \in SUBSET Edge, view' = [view EXCEPT ![i] = w],
             inboundUp' = [inboundUp EXCEPT ![i] = @ \cup {j}],
             \A k \in Node : <<k, i>> \in w <=> <<k, i>> \in Heard(i, j)
      PROVE  BeliefsInv'
  <2>1. view' \in [Node -> SUBSET Edge] /\ inboundUp' \in [Node -> SUBSET Node]
    BY <1>2, <1>5 DEF BeliefsInv
  <2>2. \A n \in Node : n \notin inboundUp'[n]
    BY <1>2, <1>5 DEF BeliefsInv
  <2>3. ASSUME NEW n \in Node, NEW k \in Peers(n)
        PROVE  <<k, n>> \in view'[n] <=> k \in inboundUp'[n]
    <3>1. CASE n = i
      <4>1. view'[i] = w /\ inboundUp'[i] = inboundUp[i] \cup {j}
        BY <1>2, <1>5 DEF BeliefsInv
      <4>2. k \in Node /\ (<<k, i>> \in w <=> <<k, i>> \in view[i] \/ k = j)
        BY <1>5 DEF Heard, Peers
      <4>3. <<k, i>> \in view[i] <=> k \in inboundUp[i]
        BY <1>2, <3>1 DEF BeliefsInv, FirstHand
      <4> QED  BY <3>1, <4>1, <4>2, <4>3
    <3>2. CASE n # i
      BY <1>5, <3>2 DEF BeliefsInv, FirstHand
    <3> QED  BY <3>1, <3>2
  <2> QED  BY <2>1, <2>2, <2>3 DEF BeliefsInv, FirstHand
<1>6. CASE Accepted(m)
  <2>1. inboundUp' = [inboundUp EXCEPT ![i] = @ \cup {j}]
    BY <1>6 DEF Deliver, Observe, m
  <2>2. \/ view' = [view EXCEPT ![i] = MergeInbound(Heard(i, j), j, m.env.up)]
        \/ view' = [view EXCEPT ![i] = Heard(i, j)]
    BY <1>6 DEF Deliver, HandleProbe, HandleProbeResp, HandleHeartbeat, HandleAnswer, m
  <2>3. /\ MergeInbound(Heard(i, j), j, m.env.up) \in SUBSET Edge
        /\ \A k \in Node : <<k, i>> \in MergeInbound(Heard(i, j), j, m.env.up)
                             <=> <<k, i>> \in Heard(i, j)
    BY <1>2, <1>4, MergeKeepsFirstHand
  <2> QED  BY <1>4, <1>5, <2>1, <2>2, <2>3
<1>7. CASE ~Accepted(m)
  BY <1>3, <1>7 DEF Deliver, m
<1> QED  BY <1>6, <1>7

\* Silence takes the same peers out of the view and out of the reports.
LEMMA TickBeliefs ==
  ASSUME BeliefsInv, Tick
  PROVE  BeliefsInv' /\ turn \in Node /\ inboundUp'[turn] \subseteq inboundUp[turn]
<1>1. /\ turn \in Node
      /\ inboundUp' = [inboundUp EXCEPT ![turn] = @ \ Silent(turn)]
      /\ view' = [view EXCEPT ![turn] = @ \ {<<j, turn>> : j \in Silent(turn)}]
  BY DEF Tick, DetectSilence
<1> DEFINE quietOnes == Silent(turn)
<1> HIDE DEF quietOnes
<1>2. /\ inboundUp' = [inboundUp EXCEPT ![turn] = @ \ quietOnes]
      /\ view' = [view EXCEPT ![turn] = @ \ {<<j, turn>> : j \in quietOnes}]
  BY <1>1 DEF quietOnes
<1>3. view' \in [Node -> SUBSET Edge] /\ inboundUp' \in [Node -> SUBSET Node]
  BY <1>1, <1>2 DEF BeliefsInv
<1>4. \A n \in Node : n \notin inboundUp'[n]
  BY <1>1, <1>2 DEF BeliefsInv
<1>5. ASSUME NEW n \in Node, NEW k \in Peers(n)
      PROVE  <<k, n>> \in view'[n] <=> k \in inboundUp'[n]
  <2>1. <<k, n>> \in view[n] <=> k \in inboundUp[n]
    BY DEF BeliefsInv, FirstHand
  <2>2. CASE n = turn
    <3>1. /\ view'[n] = view[n] \ {<<j, n>> : j \in quietOnes}
          /\ inboundUp'[n] = inboundUp[n] \ quietOnes
      BY <1>2, <2>2 DEF BeliefsInv
    <3>2. <<k, n>> \in {<<j, n>> : j \in quietOnes} <=> k \in quietOnes
      OBVIOUS
    <3> QED  BY <2>1, <3>1, <3>2
  <2>3. CASE n # turn
    BY <1>2, <2>1, <2>3 DEF BeliefsInv
  <2> QED  BY <2>2, <2>3
<1> QED  BY <1>1, <1>2, <1>3, <1>4, <1>5 DEF BeliefsInv, FirstHand

-----------------------------------------------------------------------------
\* A delivery leaves well-addressed messages and answers behind.
LEMMA DeliverTyped ==
  ASSUME FabricTyped, BeliefsInv, Deliver
  PROVE  FabricTyped'
<1> DEFINE m == Head(pending)
           i == m.env.to
           j == m.env.from
<1>1. m \in Sent /\ Tail(pending) \in Seq(Sent)
  BY QueueFacts DEF Deliver, FabricTyped
<1>2. i \in Node /\ j \in Node /\ i # j
  BY <1>1, SentFields
<1> HIDE DEF m
<1>3. ASSUME NEW out \in Seq(Addressed), DeliverDue(out) PROVE FabricTyped'
  BY <1>1, <1>3 DEF DeliverDue, FabricTyped, edges, m
<1>4. <<>> \in Seq(Addressed)
  OBVIOUS
<1>5. Envelope(i, j, "probeResp", inboundUp[i] \cup {j}) \in Addressed
  BY <1>2 DEF Envelope, Addressed, Envelopes, Kinds, BeliefsInv
<1>6. Envelope(i, j, "answer", {}) \in Addressed
  BY <1>2 DEF Envelope, Addressed, Envelopes, Kinds
<1>7. /\ <<Envelope(i, j, "probeResp", inboundUp[i] \cup {j})>> \in Seq(Addressed)
      /\ <<Envelope(i, j, "answer", {})>> \in Seq(Addressed)
  BY <1>5, <1>6
<1>8. \/ DeliverDue(<<>>)
      \/ DeliverDue(<<Envelope(i, j, "probeResp", inboundUp[i] \cup {j})>>)
      \/ DeliverDue(<<Envelope(i, j, "answer", {})>>)
  BY DEF Deliver, HandleProbe, HandleProbeResp, HandleHeartbeat, HandleAnswer, m
<1> QED  BY <1>3, <1>4, <1>7, <1>8

\* A tick emits well-addressed messages.
LEMMA TickTyped ==
  ASSUME FabricTyped, BeliefsInv, BeliefsInv', Tick
  PROVE  FabricTyped'
<1>1. turn \in Node /\ TickNode(Heartbeats(turn) \o Probes(turn))
  BY DEF Tick
<1>2. /\ {} \in SUBSET Node /\ inboundUp'[turn] \in SUBSET Node
      /\ turn \notin inboundUp'[turn]
  BY <1>1 DEF BeliefsInv
<1>3. <<>> \in Seq(Addressed)
  OBVIOUS
<1>4. Heartbeats(turn) \in Seq(Addressed)
  <2>1. Broadcast(turn, "heartbeat", {}) \in Seq(Addressed)
    BY <1>1, <1>2, BroadcastAddressed DEF Kinds
  <2> QED  BY <1>3, <2>1 DEF Heartbeats
<1>5. Probes(turn) \in Seq(Addressed)
  <2>1. Broadcast(turn, "probe", inboundUp'[turn]) \in Seq(Addressed)
    BY <1>1, <1>2, BroadcastAddressed DEF Kinds
  <2> QED  BY <1>3, <2>1 DEF Probes
<1> DEFINE out == Heartbeats(turn) \o Probes(turn)
<1>6. out \in Seq(Addressed)
  BY <1>4, <1>5, ConcatProperties
<1> HIDE DEF out
<1>7. /\ turn' = turn + 1 /\ outbox' = out
      /\ UNCHANGED <<inflight, pending, stepping, down, corrupt, latency>>
  BY <1>1 DEF TickNode, edges, out
<1>8. turn' \in 1..(N + 1)
  BY <1>1, <1>7, NetworkAssumption DEF Node
<1> QED  BY <1>6, <1>7, <1>8 DEF FabricTyped

\* The steps of the fabric itself, and the faults.
LEMMA OthersTyped ==
  ASSUME FabricTyped, BeginStep \/ KeepWaiting \/ EndStep \/ Inject \/ UNCHANGED vars
  PROVE  FabricTyped'
<1> USE DEF edges, queues, netVars
<1>1. CASE BeginStep
  <2>1. pending' \in Seq(Sent) /\ inflight' \in Seq(Sent)
    BY <1>1, AgedSent DEF BeginStep, FabricTyped
  <2> QED  BY <1>1, <2>1 DEF BeginStep, FabricTyped
<1>2. CASE KeepWaiting
  <2>1. pending' \in Seq(Sent) /\ inflight' \in Seq(Sent)
    BY <1>2, QueueFacts DEF KeepWaiting, FabricTyped
  <2> QED  BY <1>2, <2>1 DEF KeepWaiting, FabricTyped
<1>3. CASE EndStep
  <2>1. 1 \in 1..(N + 1)
    BY NetworkAssumption
  <2> QED  BY <1>3, <2>1 DEF EndStep, FabricTyped
<1>4. CASE Inject
  <2>1. PICK e \in Edge : CutLink(e) \/ HealLink(e) \/ CorruptLink(e) \/ CleanLink(e)
    BY <1>4 DEF Inject
  <2>2. down' \subseteq Edge /\ corrupt' \subseteq Edge
    BY <2>1 DEF FabricTyped, CutLink, HealLink, CorruptLink, CleanLink
  <2>3. UNCHANGED <<queues, stepping, turn, latency>>
    BY <2>1 DEF Fault, CutLink, HealLink, CorruptLink, CleanLink
  <2> QED  BY <2>2, <2>3 DEF FabricTyped
<1>5. CASE UNCHANGED vars
  BY <1>5 DEF vars, FabricTyped
<1> QED  BY <1>1, <1>2, <1>3, <1>4, <1>5

-----------------------------------------------------------------------------
\* The counters stay in range; the age of an accepted message is one of a message
\* that could have been accepted before.
LEMMA CountersStep ==
  ASSUME FabricTyped, BeliefsInv, CountersTyped, [Next]_vars
  PROVE  CountersTyped'
<1>1. CASE UNCHANGED <<quiet, newest, timers>>
  BY <1>1 DEF CountersTyped, timers
<1>2. CASE BeginStep /\ newest' = [i \in Node |-> [j \in Peers(i) |-> Older(newest[i][j])]]
           /\ UNCHANGED <<view, inboundUp, quiet, timers>>
  <2>1. \A n \in 0..MaxDelay : Older(n) \in 0..MaxDelay
    BY ReachabilityAssumption DEF Older
  <2>2. \A i \in Node : newest'[i] = [j \in Peers(i) |-> Older(newest[i][j])]
    BY <1>2
  <2>3. \A i \in Node : \A j \in Peers(i) : newest[i][j] \in 0..MaxDelay
    BY DEF CountersTyped
  <2>4. \A i \in Node : newest'[i] \in [Peers(i) -> 0..MaxDelay]
    BY <2>1, <2>2, <2>3
  <2> QED  BY <1>2, <2>4 DEF CountersTyped, timers
<1>3. CASE Deliver
  <2> DEFINE m == Head(pending)
             i == m.env.to
             j == m.env.from
  <2>1. m \in Sent
    BY <1>3, QueueFacts DEF Deliver, FabricTyped
  <2>2. i \in Node /\ j \in Peers(i)
    BY <2>1, SentFields DEF Peers
  <2>3. m.due <= 0 /\ UNCHANGED timers
    BY <1>3 DEF Deliver, DeliverDue, HandleProbe, HandleProbeResp, HandleHeartbeat, HandleAnswer
  <2> HIDE DEF m
  <2>4. CASE ~Accepted(m)
    BY <1>1, <1>3, <2>3, <2>4 DEF Deliver, m
  <2>5. CASE Accepted(m)
    <3>1. Observe(i, j, Age(m))
      BY <1>3, <2>5 DEF Deliver, m
    <3>2. newest[i][j] \in 0..MaxDelay
      BY <2>2 DEF CountersTyped
    <3>3. Age(m) \in 0..MaxDelay
      BY <2>1, <2>3, <2>5, <3>2, SentFields, ReachabilityAssumption DEF Accepted, Age
    <3>4. /\ quiet' = [quiet EXCEPT ![i][j] = 0]
          /\ newest' = [newest EXCEPT ![i][j] = Age(m)]
      BY <3>1 DEF Observe
    <3>5. 0 \in 0..(SilenceWindow + 1)
      BY ReachabilityAssumption DEF SilenceWindow
    <3>6. \A n \in Node : quiet'[n] \in [Peers(n) -> 0..(SilenceWindow + 1)]
      BY <2>2, <3>4, <3>5 DEF CountersTyped
    <3>7. \A n \in Node : newest'[n] \in [Peers(n) -> 0..MaxDelay]
      BY <2>2, <3>3, <3>4 DEF CountersTyped
    <3>8. DOMAIN quiet' = Node /\ DOMAIN newest' = Node
      BY <3>4 DEF CountersTyped
    <3> QED  BY <2>3, <3>6, <3>7, <3>8 DEF CountersTyped, timers
  <2> QED  BY <2>4, <2>5
<1>4. CASE Tick
  <2>1. /\ turn \in Node /\ UNCHANGED newest
        /\ quiet' = [quiet EXCEPT ![turn] = [j \in Peers(turn) |-> Longer(quiet[turn][j])]]
        /\ probeElapsed' = [probeElapsed EXCEPT ![turn] = CountUp(@, ProbeInterval)]
        /\ heartbeatElapsed' =
             [i \in Leaders |-> IF i = turn THEN CountUp(heartbeatElapsed[i], HeartbeatInterval)
                                ELSE heartbeatElapsed[i]]
    BY <1>4 DEF Tick, CountersTyped
  <2>2. \A q \in 0..(SilenceWindow + 1) : Longer(q) \in 0..(SilenceWindow + 1)
    BY ReachabilityAssumption DEF Longer, SilenceWindow
  <2>3. \A j \in Peers(turn) : quiet[turn][j] \in 0..(SilenceWindow + 1)
    BY <2>1 DEF CountersTyped
  <2> DEFINE row == [j \in Peers(turn) |-> Longer(quiet[turn][j])]
  <2>4. row \in [Peers(turn) -> 0..(SilenceWindow + 1)]
    BY <2>2, <2>3
  <2> HIDE DEF row
  <2>5. quiet' = [quiet EXCEPT ![turn] = row]
    BY <2>1 DEF row
  <2>6. \A n \in Node : quiet'[n] \in [Peers(n) -> 0..(SilenceWindow + 1)]
    BY <2>1, <2>4, <2>5 DEF CountersTyped
  <2>7. ASSUME NEW limit \in Nat \ {0}, NEW n \in 0..(limit - 1)
        PROVE  CountUp(n, limit) \in 0..(limit - 1)
    BY DEF CountUp
  <2>8. probeElapsed' \in [Node -> 0..(ProbeInterval - 1)]
    BY <2>1, <2>7, ReachabilityAssumption DEF CountersTyped
  <2>9. heartbeatElapsed' \in [Leaders -> 0..(HeartbeatInterval - 1)]
    BY <2>1, <2>7, ReachabilityAssumption DEF CountersTyped
  <2>10. DOMAIN quiet' = Node
    BY <2>5 DEF CountersTyped
  <2> QED  BY <2>1, <2>6, <2>8, <2>9, <2>10 DEF CountersTyped
<1>5. CASE Enqueue \/ Inject \/ ((KeepWaiting \/ EndStep) /\ UNCHANGED nodeVars) \/ UNCHANGED vars
  BY <1>1, <1>5 DEF Enqueue, Inject, vars, nodeVars
<1> QED  BY <1>2, <1>3, <1>4, <1>5 DEF Next, Step

\* Every step preserves the whole invariant.
LEMMA ReachStep == ReachInv /\ [Next]_vars => ReachInv'
<1> SUFFICES ASSUME ReachInv, [Next]_vars PROVE ReachInv'
  OBVIOUS
<1>1. CountersTyped'
  BY CountersStep DEF ReachInv
<1>2. CASE Deliver
  BY <1>1, <1>2, DeliverTyped, DeliverBeliefs DEF ReachInv
<1>3. CASE Tick
  BY <1>1, <1>3, TickTyped, TickBeliefs DEF ReachInv
<1>4. CASE UNCHANGED <<view, inboundUp>>
          /\ (BeginStep \/ KeepWaiting \/ EndStep \/ Inject \/ Enqueue \/ UNCHANGED vars)
  <2>1. BeliefsInv'
    BY <1>4 DEF ReachInv, BeliefsInv, FirstHand
  <2>2. FabricTyped'
    BY <1>4, OthersTyped, EnqueueTyped DEF ReachInv
  <2> QED  BY <1>1, <2>1, <2>2 DEF ReachInv
<1> QED  BY <1>2, <1>3, <1>4 DEF Next, Step, Enqueue, Inject, vars, nodeVars

\* At the start every view is whole and nothing is under way.
LEMMA ReachInit == Init => ReachInv
<1> SUFFICES ASSUME Init PROVE ReachInv
  OBVIOUS
<1>1. FabricTyped
  <2>1. 1 \in 1..(N + 1)
    BY NetworkAssumption
  <2>2. <<>> \in Seq(Sent) /\ <<>> \in Seq(Addressed)
    OBVIOUS
  <2> QED  BY <2>1, <2>2 DEF Init, NetInit, FabricTyped
<1>2. BeliefsInv
  <2>1. \A i \in Node : \A j \in Peers(i) : <<j, i>> \in Edge
    BY DEF Edge, Peers
  <2> QED  BY <2>1 DEF Init, BeliefsInv, FirstHand, Peers
<1>3. CountersTyped
  <2>1. /\ 0 \in 0..(SilenceWindow + 1) /\ MaxDelay \in 0..MaxDelay
        /\ 0 \in 0..(ProbeInterval - 1) /\ 0 \in 0..(HeartbeatInterval - 1)
    BY ReachabilityAssumption DEF SilenceWindow
  <2> QED  BY <2>1 DEF Init, CountersTyped
<1> QED  BY <1>1, <1>2, <1>3 DEF ReachInv

\* The invariant holds in every run.
THEOREM ReachInvariant == Spec => []ReachInv
BY ReachInit, ReachStep, PTL DEF Spec

\* All state of the matrix, the probes and the fabric below them is well typed, and
\* no message is older than the bound MaxDelay, so that no age is cut off.
THEOREM ReachTypes == Spec => []TypeOK
<1>1. ReachInv => TypeOK
  <2> SUFFICES ASSUME ReachInv PROVE TypeOK
    OBVIOUS
  <2>1. \A m \in Sent : m \in Messages /\ m.env.from \notin m.env.up /\ m.delay <= MaxDelay
    BY DEF Sent, Addressed
  <2>2. Sent \subseteq Messages /\ Addressed \subseteq Envelopes
    BY DEF Sent, Addressed
  <2>3. /\ inflight \in Seq(Messages) /\ pending \in Seq(Messages) /\ outbox \in Seq(Envelopes)
    BY <2>2 DEF ReachInv, FabricTyped
  <2>4. \A k \in DOMAIN inflight : inflight[k] \in Sent
    BY DEF ReachInv, FabricTyped
  <2>5. latency \in [Edge -> Nat]
    BY HopIsShort DEF ReachInv, FabricTyped
  <2>6. \A i \in Node : inboundUp[i] \subseteq Peers(i)
    BY DEF ReachInv, BeliefsInv, Peers
  <2> QED  BY <2>1, <2>3, <2>4, <2>5, <2>6
           DEF ReachInv, FabricTyped, BeliefsInv, CountersTyped, TypeOK
<1> QED  BY <1>1, ReachInvariant, PTL

\* What a node believes of the edges to itself is what it hears itself: no report of
\* another node ever overwrites it.
THEOREM ReachFirstHand == Spec => []FirstHand
<1>1. ReachInv => FirstHand
  BY DEF ReachInv, BeliefsInv
<1> QED  BY <1>1, ReachInvariant, PTL

\* The names on the wire say as much as the reporter's whole view would.
THEOREM ReachMergesAgree == Spec => []MergesAgree
<1>1. ReachInv => MergesAgree
  <2> SUFFICES ASSUME ReachInv, NEW i \in Node, NEW p \in Peers(i)
               PROVE  MergeInbound(view[i], p, inboundUp[p]) = Merge(view[i], p, view[p])
    BY DEF MergesAgree
  <2>1. p \in Node /\ view[p] \subseteq Edge /\ inboundUp[p] \subseteq Node /\ p \notin inboundUp[p]
    BY DEF Peers, ReachInv, BeliefsInv
  <2>2. \A j \in Peers(p) : <<j, p>> \in view[p] <=> j \in inboundUp[p]
    BY <2>1 DEF ReachInv, BeliefsInv, FirstHand
  <2>3. {<<j, p>> : j \in inboundUp[p] \ {p}} = {e \in view[p] : e[2] = p}
    BY <2>1, <2>2 DEF Edge, Peers
  <2> QED  BY <2>3 DEF MergeInbound, Merge
<1> QED  BY <1>1, ReachInvariant, PTL

-----------------------------------------------------------------------------
\* No false alarm.

\* What Head, Tail, Append, concatenation and a tick do to the items of a queue.
LEMMA ItemsOf ==
  ASSUME NEW S, NEW q \in Seq(S)
  PROVE  /\ q # <<>> => Items(q) = {Head(q)} \cup Items(Tail(q))
         /\ \A m \in S : Items(Append(q, m)) = Items(q) \cup {m}
         /\ Items(q) \subseteq S
<1>1. DOMAIN q = 1..Len(q) /\ Len(q) \in Nat
  OBVIOUS
<1>2. ASSUME q # <<>> PROVE Items(q) = {Head(q)} \cup Items(Tail(q))
  <2>1. /\ Len(q) >= 1 /\ DOMAIN Tail(q) = 1..(Len(q) - 1)
        /\ \A k \in 1..(Len(q) - 1) : Tail(q)[k] = q[k + 1]
        /\ Head(q) = q[1]
    BY <1>2
  <2>2. \A k \in 1..Len(q) : k = 1 \/ (k - 1 \in 1..(Len(q) - 1) /\ q[k] = Tail(q)[k - 1])
    BY <2>1
  <2>3. \A k \in 1..(Len(q) - 1) : k + 1 \in 1..Len(q)
    OBVIOUS
  <2>4. Items(q) \subseteq {Head(q)} \cup Items(Tail(q))
    <3>1. ASSUME NEW k \in 1..Len(q), k # 1
          PROVE  \E l \in DOMAIN Tail(q) : q[k] = Tail(q)[l]
      BY <2>1, <2>2, <3>1
    <3>2. \A k \in 1..Len(q) : q[k] = Head(q) \/ \E l \in DOMAIN Tail(q) : q[k] = Tail(q)[l]
      BY <2>1, <3>1
    <3> QED  BY <1>1, <3>2 DEF Items
  <2>5. Head(q) \in Items(q)
    BY <1>1, <2>1 DEF Items
  <2>6. Items(Tail(q)) \subseteq Items(q)
    BY <1>1, <2>1, <2>3 DEF Items
  <2> QED  BY <2>4, <2>5, <2>6
<1>3. ASSUME NEW m \in S PROVE Items(Append(q, m)) = Items(q) \cup {m}
  <2>1. /\ DOMAIN Append(q, m) = 1..(Len(q) + 1)
        /\ \A k \in 1..Len(q) : Append(q, m)[k] = q[k]
        /\ Append(q, m)[Len(q) + 1] = m
    OBVIOUS
  <2>2. 1..(Len(q) + 1) = (1..Len(q)) \cup {Len(q) + 1}
    BY <1>1
  <2> QED  BY <1>1, <2>1, <2>2 DEF Items
<1>4. Items(q) \subseteq S
  BY <1>1 DEF Items
<1> QED  BY <1>2, <1>3, <1>4

LEMMA ItemsOfFew ==
  /\ Items(<<>>) = {}
  /\ \A m : Items(<<m>>) = {m}
BY DEF Items

LEMMA ItemsOfBoth ==
  ASSUME NEW S, NEW p \in Seq(S), NEW q \in Seq(S)
  PROVE  Items(p \o q) = Items(p) \cup Items(q)
<1>1. /\ p \o q \in Seq(S) /\ Len(p \o q) = Len(p) + Len(q)
      /\ Len(p) \in Nat /\ Len(q) \in Nat
      /\ DOMAIN p = 1..Len(p) /\ DOMAIN q = 1..Len(q) /\ DOMAIN (p \o q) = 1..(Len(p) + Len(q))
  OBVIOUS
<1>2. /\ \A k \in 1..Len(p) : k \in 1..(Len(p) + Len(q)) /\ (p \o q)[k] = p[k]
      /\ \A k \in 1..Len(q) : /\ Len(p) + k \in 1..(Len(p) + Len(q))
                              /\ (p \o q)[Len(p) + k] = q[k]
  BY <1>1
<1>3. \A k \in 1..(Len(p) + Len(q)) :
        k \in 1..Len(p) \/ (k - Len(p) \in 1..Len(q) /\ (p \o q)[k] = q[k - Len(p)])
  BY <1>1
<1> QED  BY <1>1, <1>2, <1>3 DEF Items

LEMMA ItemsAged ==
  ASSUME NEW q \in Seq(Sent)
  PROVE  Items(Aged(q)) = {[m EXCEPT !.due = @ - 1] : m \in Items(q)}
<1>1. DOMAIN Aged(q) = DOMAIN q /\ \A k \in DOMAIN q : Aged(q)[k] = [q[k] EXCEPT !.due = @ - 1]
  BY DEF Aged
<1> QED  BY <1>1 DEF Items

\* The ends of an edge, and how long it takes.
LEMMA EdgeEnds ==
  ASSUME NEW e \in Edge
  PROVE  /\ e[1] \in Node /\ e[2] \in Node /\ e[1] # e[2] /\ e = <<e[1], e[2]>>
         /\ e[1] \in Peers(e[2])
         /\ DefaultDelay(e) \in Nat \ {0} /\ DefaultDelay(e) <= BaseDelay + CrossDelay
BY NetworkAssumption DEF Edge, DefaultDelay, Peers

\* The counters that InTime adds up.
LEMMA CounterTypes ==
  ASSUME ReachInv, NEW e \in Edge
  PROVE  /\ quiet[e[2]][e[1]] \in 0..(SilenceWindow + 1)
         /\ newest[e[2]][e[1]] \in 0..MaxDelay
         /\ probeElapsed[e[1]] \in 0..(ProbeInterval - 1)
         /\ SilenceWindow \in Nat /\ ProbeInterval \in Nat \ {0}
         /\ \A i \in Node : StillToCount(i) \in {0, 1}
BY EdgeEnds, ReachabilityAssumption DEF ReachInv, CountersTyped, SilenceWindow, StillToCount

\* A tick: every message is one tick nearer, every silence will be one tick longer.
LEMMA BeginStepEdge ==
  ASSUME NEW e \in Edge, ReachInv, StepInv, EdgeInv(e), BeginStep,
         newest' = [i \in Node |-> [j \in Peers(i) |-> Older(newest[i][j])]],
         UNCHANGED <<view, inboundUp, quiet, timers>>
  PROVE  EdgeInv(e)'
<1> DEFINE j == e[1]
           i == e[2]
           d == DefaultDelay(e)
<1>1. /\ ~stepping /\ stepping' = TRUE /\ turn' = turn /\ outbox' = outbox
      /\ pending' = Aged(inflight) /\ inflight' = <<>>
  BY DEF BeginStep
<1>2. pending = <<>> /\ outbox = <<>> /\ turn = 1
  BY <1>1 DEF StepInv
<1>3. /\ Items(inflight') = {} /\ Items(pending) = {}
      /\ Items(pending') = {[m EXCEPT !.due = @ - 1] : m \in Items(inflight)}
      /\ Items(inflight) \subseteq Sent
  BY <1>1, <1>2, ItemsOf, ItemsOfFew, ItemsAged DEF ReachInv, FabricTyped
<1>4. \A m \in Sent : LET n == [m EXCEPT !.due = @ - 1]
                      IN  n.env = m.env /\ n.delay = m.delay /\ n.due = m.due - 1
  BY DEF Sent, Messages
<1>5. Under(e, inflight') = {} /\ Under(e, pending) = {}
  BY <1>3 DEF Under
<1>6. \A n \in Under(e, pending') : \E m \in Under(e, inflight) :
        n.env = m.env /\ n.delay = m.delay /\ n.due = m.due - 1
  BY <1>3, <1>4 DEF Under
<1>7. \A m \in Under(e, inflight) : \E n \in Under(e, pending') : n.due = m.due - 1
  <2> SUFFICES ASSUME NEW m \in Under(e, inflight)
               PROVE  \E n \in Under(e, pending') : n.due = m.due - 1
    OBVIOUS
  <2>1. m \in Items(inflight) /\ EdgeOf(m.env) = e
    BY DEF Under
  <2>2. /\ [m EXCEPT !.due = @ - 1] \in Items(pending')
        /\ [m EXCEPT !.due = @ - 1].env = m.env /\ [m EXCEPT !.due = @ - 1].due = m.due - 1
    BY <1>3, <1>4, <2>1
  <2> QED  BY <2>1, <2>2 DEF Under
<1>8. i \in Node /\ j \in Peers(i) /\ d \in Nat \ {0} /\ d <= BaseDelay + CrossDelay
  BY EdgeEnds
<1>9. Carries(e)'
  <2>1. ASSUME NEW n \in Under(e, pending')
        PROVE  n.env.intact /\ n.delay = d /\ n.due \in 0..n.delay
    <3>1. PICK m \in Under(e, inflight) : n.env = m.env /\ n.delay = m.delay /\ n.due = m.due - 1
      BY <1>6
    <3>2. m.env.intact /\ m.delay = d /\ m.due \in 1..m.delay
      BY DEF EdgeInv, Carries
    <3> QED  BY <1>8, <3>1, <3>2
  <2>2. newest'[i][j] >= d
    <3>1. newest'[i][j] = Older(newest[i][j]) /\ newest[i][j] >= d
      BY <1>8 DEF EdgeInv, Carries
    <3>2. newest[i][j] \in 0..MaxDelay
      BY CounterTypes
    <3> QED  BY <1>8, <3>1, <3>2, ReachabilityAssumption DEF Older
  <2>3. \A env \in Items(outbox') : EdgeOf(env) = e => env.intact
    BY <1>1 DEF EdgeInv, Carries
  <2> QED  BY <1>5, <2>1, <2>2, <2>3 DEF Carries
<1>10. InTime(j, i)'
  <2>1. /\ QuietThen(i, j) = quiet[i][j] /\ QuietThen(i, j)' = quiet[i][j] + 1
        /\ NextProbe(j) = ProbeInterval - probeElapsed[j]
        /\ NextProbe(j)' = ProbeInterval - probeElapsed[j] - 1
    BY <1>1, <1>2, <1>8, CounterTypes
       DEF QuietThen, NextProbe, StillToCount, timers, Node, Peers
  <2>2. /\ quiet[i][j] \in Nat /\ SilenceWindow \in Nat
        /\ probeElapsed[j] \in Nat /\ ProbeInterval \in Nat
    BY CounterTypes
  <2>3. \/ \E m \in Under(e, inflight) : m.due <= SilenceWindow + 1 - quiet[i][j]
        \/ ProbeInterval - probeElapsed[j] + d <= SilenceWindow + 1 - quiet[i][j]
    BY <1>2, <1>5, <2>1, EdgeEnds, ItemsOfFew DEF EdgeInv, InTime
  <2>4. CASE \E m \in Under(e, inflight) : m.due <= SilenceWindow + 1 - quiet[i][j]
    <3>1. PICK m \in Under(e, inflight) : m.due <= SilenceWindow + 1 - quiet[i][j]
      BY <2>4
    <3>2. m.due \in Int
      BY <1>3 DEF Under, Sent, Messages
    <3>3. PICK n \in Under(e, pending') : n.due = m.due - 1
      BY <1>7
    <3>4. n.due <= SilenceWindow + 1 - QuietThen(i, j)'
      BY <2>1, <2>2, <3>1, <3>2, <3>3
    <3> QED  BY <3>4, EdgeEnds DEF InTime, SilenceWindow
  <2>5. CASE ProbeInterval - probeElapsed[j] + d <= SilenceWindow + 1 - quiet[i][j]
    <3>1. NextProbe(j)' + d <= SilenceWindow + 1 - QuietThen(i, j)'
      BY <1>8, <2>1, <2>2, <2>5
    <3> QED  BY <3>1, EdgeEnds DEF InTime, SilenceWindow
  <2> QED  BY <2>3, <2>4, <2>5
<1>11. Reported(e)'
  <2>1. \A n \in Items(pending') : \E m \in Items(inflight) : n.env = m.env
    BY <1>3, <1>4
  <2> QED  BY <1>1, <1>3, <2>1 DEF EdgeInv, Reported
<1> QED  BY <1>9, <1>10, <1>11 DEF EdgeInv

\* A message is put back: nothing changes for any edge.
LEMMA KeepWaitingEdge ==
  ASSUME NEW e \in Edge, ReachInv, StepInv, EdgeInv(e), KeepWaiting, UNCHANGED nodeVars
  PROVE  EdgeInv(e)'
<1> DEFINE m == Head(pending)
<1>1. /\ pending # <<>> /\ m.due > 0 /\ pending' = Tail(pending)
      /\ inflight' = Append(inflight, m) /\ UNCHANGED <<outbox, stepping, turn>>
  BY DEF KeepWaiting
<1>2. inflight \in Seq(Sent) /\ pending \in Seq(Sent) /\ m \in Sent
  BY <1>1, QueueFacts DEF ReachInv, FabricTyped
<1>3. /\ Items(pending) = {m} \cup Items(pending')
      /\ Items(inflight') = Items(inflight) \cup {m}
  BY <1>1, <1>2, ItemsOf
<1> HIDE DEF m
<1>4. /\ Under(e, pending') \subseteq Under(e, pending)
      /\ \A n \in Under(e, inflight') : n \in Under(e, inflight) \/ (n = m /\ m \in Under(e, pending))
      /\ Under(e, inflight) \cup Under(e, pending) = Under(e, inflight') \cup Under(e, pending')
  BY <1>3 DEF Under
<1>5. UNCHANGED <<QuietThen(e[2], e[1]), NextProbe(e[1]), newest, inboundUp, view>>
  BY <1>1 DEF QuietThen, NextProbe, StillToCount, nodeVars, timers
<1>6. Carries(e)'
  <2>1. m \in Under(e, pending) => m.due \in 1..m.delay
    BY <1>1, <1>2 DEF EdgeInv, Carries, m
  <2> QED  BY <1>1, <1>4, <1>5, <2>1 DEF EdgeInv, Carries
<1>7. InTime(e[1], e[2])'
  BY <1>1, <1>4, <1>5, EdgeEnds DEF EdgeInv, InTime, SilenceWindow
<1>8. Reported(e)'
  BY <1>1, <1>3, <1>5 DEF EdgeInv, Reported
<1> QED  BY <1>6, <1>7, <1>8 DEF EdgeInv

\* A delivery: on e itself the silence ends, so that the next probe is in time; on
\* any other edge nothing that e carries is touched, and no report hides e.
LEMMA DeliverEdge ==
  ASSUME NEW e \in Edge, ReachInv, WindowLongEnough, StepInv, EdgeInv(e), Deliver
  PROVE  EdgeInv(e)'
<1> DEFINE m == Head(pending)
           to == m.env.to
           from == m.env.from
           j == e[1]
           i == e[2]
           d == DefaultDelay(e)
<1>1. /\ pending # <<>> /\ m.due <= 0 /\ outbox = <<>> /\ stepping /\ pending' = Tail(pending)
      /\ UNCHANGED <<inflight, stepping, turn, timers>>
  BY DEF Deliver, DeliverDue, HandleProbe, HandleProbeResp, HandleHeartbeat, HandleAnswer
<1>2. pending \in Seq(Sent) /\ m \in Sent
  BY <1>1, QueueFacts DEF ReachInv, FabricTyped
<1>3. Items(pending) = {m} \cup Items(pending')
  BY <1>1, <1>2, ItemsOf
<1>4. to \in Node /\ from \in Node /\ from # to /\ m.env \in Addressed
  BY <1>2, SentFields
<1>5. /\ i \in Node /\ j \in Node /\ i # j /\ j \in Peers(i) /\ e = <<j, i>>
      /\ d \in Nat \ {0} /\ d <= BaseDelay + CrossDelay
  BY EdgeEnds
<1>6. turn = 1 /\ turn' = 1
  BY <1>1 DEF StepInv
<1>7. \/ DeliverDue(<<>>)
      \/ /\ Accepted(m)
         /\ \/ DeliverDue(<<Envelope(to, from, "probeResp", inboundUp[to] \cup {from})>>)
            \/ DeliverDue(<<Envelope(to, from, "answer", {})>>)
  BY DEF Deliver, HandleProbe, HandleProbeResp, HandleHeartbeat, HandleAnswer
<1>8. /\ ~Accepted(m) => UNCHANGED <<view, inboundUp, quiet, newest>>
      /\ Accepted(m) => Observe(to, from, Age(m))
  BY DEF Deliver
<1>9. Accepted(m) =>
        \/ view' = [view EXCEPT ![to] = Heard(to, from)]
        \/ /\ m.env.kind \in {"probe", "probeResp"}
           /\ view' = [view EXCEPT ![to] = MergeInbound(Heard(to, from), from, m.env.up)]
  BY DEF Deliver, HandleProbe, HandleProbeResp, HandleHeartbeat, HandleAnswer
<1>10. m \in Items(pending)
  BY <1>3
<1> HIDE DEF m
<1>11. EdgeOf(m.env) = e => from = j /\ to = i
  BY <1>5 DEF EdgeOf
<1>12. EdgeOf(m.env) # e => from # j \/ to # i
  BY <1>5 DEF EdgeOf
<1>13. ASSUME EdgeOf(m.env) = e
       PROVE  m.env.intact /\ m.delay = d /\ m.due = 0 /\ Age(m) = d /\ Accepted(m)
  <2>1. m.env.intact /\ m.delay = d /\ m.due \in 0..m.delay
    BY <1>10, <1>13 DEF EdgeInv, Carries, Under
  <2>2. m.due = 0
    BY <1>1, <1>5, <2>1
  <2>3. Age(m) = d
    BY <1>5, <2>1, <2>2 DEF Age
  <2>4. newest[i][j] >= d
    BY DEF EdgeInv, Carries
  <2> QED  BY <1>11, <1>13, <2>1, <2>2, <2>3, <2>4 DEF Accepted
<1>14. /\ \A n \in Node : \A k \in Peers(n) :
            n # to \/ k # from => newest'[n][k] = newest[n][k] /\ quiet'[n][k] = quiet[n][k]
       /\ Accepted(m) => quiet'[to][from] = 0 /\ newest'[to][from] = Age(m)
       /\ \A n \in Node : inboundUp[n] \subseteq inboundUp'[n]
  <2>1. from \in Peers(to)
    BY <1>4 DEF Peers
  <2>2. CASE Accepted(m)
    <3>1. /\ inboundUp' = [inboundUp EXCEPT ![to] = @ \cup {from}]
          /\ quiet' = [quiet EXCEPT ![to][from] = 0]
          /\ newest' = [newest EXCEPT ![to][from] = Age(m)]
      BY <1>8, <2>2 DEF Observe
    <3>2. /\ DOMAIN quiet = Node /\ DOMAIN newest = Node
          /\ \A n \in Node : DOMAIN quiet[n] = Peers(n) /\ DOMAIN newest[n] = Peers(n)
          /\ inboundUp \in [Node -> SUBSET Node]
      BY DEF ReachInv, BeliefsInv, CountersTyped
    <3> QED  BY <1>4, <2>1, <3>1, <3>2
  <2>3. CASE ~Accepted(m)
    BY <1>8, <2>3
  <2> QED  BY <2>2, <2>3
<1>15. Under(e, inflight') = Under(e, inflight) /\ Under(e, pending') \subseteq Under(e, pending)
  BY <1>1, <1>3 DEF Under
<1>16. \A env \in Items(outbox') :
         /\ env.intact /\ env.from = to
         /\ env.kind \in {"probe", "probeResp"} => env.up = inboundUp[to] \cup {from}
  BY <1>7, ItemsOfFew DEF DeliverDue, Envelope
<1>17. Carries(e)'
  <2>1. newest'[i][j] >= d
    <3>1. CASE EdgeOf(m.env) = e
      BY <1>5, <1>11, <1>13, <1>14, <3>1
    <3>2. CASE EdgeOf(m.env) # e
      <4>1. newest'[i][j] = newest[i][j]
        BY <1>5, <1>12, <1>14, <3>2
      <4> QED  BY <4>1 DEF EdgeInv, Carries
    <3> QED  BY <3>1, <3>2
  <2> QED  BY <1>15, <1>16, <2>1 DEF EdgeInv, Carries
<1>18. InTime(j, i)'
  <2>1. /\ NextProbe(j)' = NextProbe(j) /\ NextProbe(j) = ProbeInterval - probeElapsed[j] - 1
        /\ StillToCount(i) = 1 /\ StillToCount(i)' = 1
    BY <1>1, <1>5, <1>6 DEF NextProbe, StillToCount, timers, Node
  <2>2. CASE EdgeOf(m.env) = e
    <3>1. QuietThen(i, j)' = 1
      BY <1>11, <1>13, <1>14, <2>1, <2>2 DEF QuietThen
    <3>2. NextProbe(j)' + d <= SilenceWindow
      BY <1>5, <2>1, CounterTypes, NetworkAssumption DEF WindowLongEnough
    <3>3. NextProbe(j)' + d <= SilenceWindow + 1 - QuietThen(i, j)'
      BY <3>1, <3>2, CounterTypes
    <3> QED  BY <1>5, <3>3 DEF InTime, SilenceWindow
  <2>3. CASE EdgeOf(m.env) # e
    <3>1. QuietThen(i, j)' = QuietThen(i, j)
      BY <1>5, <1>12, <1>14, <2>1, <2>3 DEF QuietThen
    <3>2. Under(e, pending') = Under(e, pending)
      BY <1>3, <2>3 DEF Under
    <3>3. Items(outbox) = {}
      BY <1>1, ItemsOfFew
    <3> QED  BY <1>5, <1>15, <2>1, <3>1, <3>2, <3>3 DEF EdgeInv, InTime, SilenceWindow
  <2> QED  BY <2>2, <2>3
<1>19. Reported(e)'
  <2>1. \A n \in Items(inflight') \cup Items(pending') : Named(e, n.env)
    BY <1>1, <1>3 DEF EdgeInv, Reported
  <2>2. \A env \in Items(outbox') : Named(e, env)
    BY <1>5, <1>16 DEF EdgeInv, Reported, Named
  <2>3. j \in inboundUp'[i]
    BY <1>5, <1>14 DEF EdgeInv, Reported
  <2>4. ASSUME NEW n \in Node PROVE e \in view'[n]
    <3>1. e \in view[n] /\ view \in [Node -> SUBSET Edge]
      BY DEF EdgeInv, Reported, ReachInv, BeliefsInv
    <3>2. e \in Heard(to, from)
      BY <1>4 DEF EdgeInv, Reported, Heard
    <3>3. ASSUME m.env.kind \in {"probe", "probeResp"}
          PROVE  e \in MergeInbound(Heard(to, from), from, m.env.up)
      <4>1. CASE from = i
        <5>1. j \in m.env.up
          BY <1>10, <3>3, <4>1 DEF EdgeInv, Reported, Named
        <5> QED  BY <1>5, <4>1, <5>1 DEF MergeInbound
      <4>2. CASE from # i
        BY <1>5, <3>2, <4>2 DEF MergeInbound
      <4> QED  BY <4>1, <4>2
    <3>4. CASE Accepted(m)
      BY <1>4, <1>9, <3>1, <3>2, <3>3, <3>4
    <3>5. CASE ~Accepted(m)
      BY <1>8, <3>1, <3>5
    <3> QED  BY <3>4, <3>5
  <2> QED  BY <2>1, <2>2, <2>3, <2>4 DEF Reported
<1> QED  BY <1>17, <1>18, <1>19 DEF EdgeInv

\* A broadcast says the same to every peer, and reaches each.
LEMMA BroadcastItems ==
  ASSUME NEW i \in Node, NEW kind \in Kinds, NEW up \in SUBSET Node
  PROVE  \A env \in Items(Broadcast(i, kind, up)) :
           env.intact /\ env.from = i /\ env.kind = kind /\ env.up = up
BY DEF Broadcast, Items, Envelope

LEMMA BroadcastReaches ==
  ASSUME NEW i \in Node, NEW kind \in Kinds, NEW up \in SUBSET Node, NEW j \in Peers(i)
  PROVE  \E env \in Items(Broadcast(i, kind, up)) : EdgeOf(env) = <<i, j>>
<1> DEFINE q == Broadcast(i, kind, up)
           k == IF j < i THEN j ELSE j - 1
<1>1. k \in 1..(N - 1) /\ (IF k < i THEN k ELSE k + 1) = j
  BY NetworkAssumption DEF Node, Peers
<1> HIDE DEF k
<1>2. q[k] = Envelope(i, j, kind, up) /\ q[k] \in Items(q)
  BY <1>1 DEF Broadcast, Items
<1>3. EdgeOf(Envelope(i, j, kind, up)) = <<i, j>>
  BY DEF EdgeOf, Envelope
<1> QED  BY <1>2, <1>3

\* A node runs.  The end of e does not find its start silent; the start of e sends
\* its probe when its time has come; whatever is reported names the start of e.
LEMMA TickEdge ==
  ASSUME NEW e \in Edge, ReachInv, ReachInv', StepInv, EdgeInv(e), Tick
  PROVE  EdgeInv(e)'
<1> DEFINE j == e[1]
           i == e[2]
           d == DefaultDelay(e)
<1>1. /\ turn \in Node /\ stepping /\ outbox = <<>> /\ pending = <<>> /\ turn' = turn + 1
      /\ outbox' = Heartbeats(turn) \o Probes(turn)
      /\ UNCHANGED <<inflight, pending, stepping, newest>>
      /\ quiet' = [quiet EXCEPT ![turn] = [k \in Peers(turn) |-> Longer(quiet[turn][k])]]
      /\ DetectSilence(turn)
      /\ probeElapsed' = [probeElapsed EXCEPT ![turn] = CountUp(@, ProbeInterval)]
  BY DEF Tick, TickNode, ReachInv, CountersTyped
<1>2. /\ i \in Node /\ j \in Node /\ i # j /\ j \in Peers(i) /\ e = <<j, i>>
      /\ d \in Nat \ {0} /\ d <= BaseDelay + CrossDelay
  BY EdgeEnds
<1>3. /\ quiet[i][j] \in Nat /\ SilenceWindow \in Nat /\ ProbeInterval \in Nat \ {0}
      /\ probeElapsed[j] \in 0..(ProbeInterval - 1)
      /\ StillToCount(i) \in {0, 1} /\ StillToCount(j) \in {0, 1}
  BY <1>2, CounterTypes
<1>4. \A n \in Node : IF n = turn THEN StillToCount(n) = 1 /\ StillToCount(n)' = 0
                                 ELSE StillToCount(n)' = StillToCount(n)
  BY <1>1, NetworkAssumption DEF StillToCount, Node
<1>5. /\ Items(pending) = {} /\ Items(outbox) = {} /\ Under(e, pending) = {}
      /\ Under(e, inflight') = Under(e, inflight) /\ Under(e, pending') = {}
  BY <1>1, ItemsOfFew DEF Under
<1>6. \/ \E m \in Under(e, inflight) : m.due <= SilenceWindow + 1 - QuietThen(i, j)
      \/ NextProbe(j) + d <= SilenceWindow + 1 - QuietThen(i, j)
  BY <1>2, <1>5 DEF EdgeInv, InTime
<1>7. \A m \in Under(e, inflight) : m.due \in Nat \ {0}
  BY <1>2 DEF EdgeInv, Carries
<1>8. QuietThen(i, j) \in Nat /\ NextProbe(j) \in Nat
  BY <1>3 DEF QuietThen, NextProbe
<1>9. QuietThen(i, j) <= SilenceWindow
  BY <1>2, <1>3, <1>6, <1>7, <1>8
<1>10. /\ QuietThen(i, j)' = QuietThen(i, j)
       /\ turn = i => quiet'[i][j] \in Nat /\ quiet'[i][j] <= SilenceWindow
  <2>1. CASE turn = i
    <3>1. quiet'[i][j] = Longer(quiet[i][j])
      BY <1>1, <1>2, <2>1 DEF ReachInv, CountersTyped
    <3>2. QuietThen(i, j) = quiet[i][j] + 1
      BY <1>2, <1>4, <2>1 DEF QuietThen
    <3>3. Longer(quiet[i][j]) = quiet[i][j] + 1 /\ quiet[i][j] + 1 <= SilenceWindow
      BY <1>3, <1>9, <3>2 DEF Longer
    <3>4. QuietThen(i, j)' = quiet'[i][j]
      BY <1>2, <1>3, <1>4, <2>1, <3>1, <3>3 DEF QuietThen
    <3> QED  BY <1>3, <3>1, <3>2, <3>3, <3>4
  <2>2. CASE turn # i
    <3>1. quiet'[i] = quiet[i]
      BY <1>1, <1>2, <2>2 DEF ReachInv, CountersTyped
    <3> QED  BY <1>2, <1>4, <2>2, <3>1 DEF QuietThen
  <2> QED  BY <2>1, <2>2
<1>11. e \notin {<<k, turn>> : k \in Silent(turn)} /\ ~(turn = i /\ j \in Silent(turn))
  <2>1. ~(turn = i /\ j \in Silent(turn))
    BY <1>3, <1>10 DEF Silent
  <2> QED  BY <1>2, <2>1
<1> DEFINE quietOnes == Silent(turn)
<1>12. /\ inboundUp' = [inboundUp EXCEPT ![turn] = @ \ quietOnes]
       /\ view' = [view EXCEPT ![turn] = @ \ {<<k, turn>> : k \in quietOnes}]
  BY <1>1 DEF DetectSilence
<1>13. ~(turn = i /\ j \in quietOnes) /\ e \notin {<<k, turn>> : k \in quietOnes}
  BY <1>11
<1> HIDE DEF quietOnes
<1>14. j \in inboundUp'[i] /\ \A n \in Node : e \in view'[n]
  BY <1>1, <1>2, <1>12, <1>13 DEF EdgeInv, Reported, ReachInv, BeliefsInv
<1>15. inboundUp'[turn] \in SUBSET Node
  BY <1>1 DEF ReachInv, BeliefsInv
<1>16. /\ \A env \in Items(outbox') :
            /\ env.intact /\ env.from = turn
            /\ env.kind \in {"probe", "probeResp"} => env.up = inboundUp'[turn]
       /\ probeElapsed[turn] + 1 >= ProbeInterval =>
            \A k \in Peers(turn) : \E env \in Items(outbox') : EdgeOf(env) = <<turn, k>>
  <2> DEFINE h == Broadcast(turn, "heartbeat", {})
             up == inboundUp'[turn]
             p == Broadcast(turn, "probe", up)
  <2>1. turn \notin inboundUp'[turn]
    BY <1>1 DEF ReachInv, BeliefsInv
  <2>2. h \in Seq(Addressed) /\ p \in Seq(Addressed) /\ <<>> \in Seq(Addressed)
    BY <1>1, <1>15, <2>1, BroadcastAddressed DEF Kinds
  <2>3. \A env \in Items(h) : env.intact /\ env.from = turn /\ env.kind = "heartbeat"
    BY <1>1, BroadcastItems DEF Kinds
  <2>4. /\ \A env \in Items(p) : env.intact /\ env.from = turn /\ env.up = up
        /\ \A k \in Peers(turn) : \E env \in Items(p) : EdgeOf(env) = <<turn, k>>
    <3>1. "probe" \in Kinds /\ turn \in Node /\ up \in SUBSET Node
      BY <1>1, <1>15 DEF Kinds
    <3>2. \A env \in Items(p) : env.intact /\ env.from = turn /\ env.up = up
      <4> HIDE DEF up
      <4> QED  BY <3>1, BroadcastItems
    <3>3. \A k \in Peers(turn) : \E env \in Items(p) : EdgeOf(env) = <<turn, k>>
      <4> SUFFICES ASSUME NEW k \in Peers(turn)
                   PROVE  \E env \in Items(p) : EdgeOf(env) = <<turn, k>>
        OBVIOUS
      <4> HIDE DEF up
      <4> QED  BY <3>1, BroadcastReaches
    <3> QED  BY <3>2, <3>3
  <2>5. Heartbeats(turn) \in {<<>>, h} /\ Probes(turn) \in {<<>>, p}
    BY DEF Heartbeats, Probes
  <2>6. probeElapsed[turn] + 1 >= ProbeInterval => Probes(turn) = p
    BY DEF Probes
  <2> HIDE DEF h, p
  <2>7. Items(outbox') = Items(Heartbeats(turn)) \cup Items(Probes(turn))
    <3>1. Heartbeats(turn) \in Seq(Addressed) /\ Probes(turn) \in Seq(Addressed)
      BY <2>2, <2>5
    <3> QED  BY <1>1, <3>1, ItemsOfBoth
  <2> QED  BY <2>3, <2>4, <2>5, <2>6, <2>7, ItemsOfFew
<1>17. Carries(e)'
  BY <1>1, <1>5, <1>16 DEF EdgeInv, Carries
<1>18. InTime(j, i)'
  <2>1. CASE \E m \in Under(e, inflight) : m.due <= SilenceWindow + 1 - QuietThen(i, j)
    BY <1>2, <1>5, <1>10, <2>1 DEF InTime, SilenceWindow
  <2>2. CASE NextProbe(j) + d <= SilenceWindow + 1 - QuietThen(i, j)
    <3>1. CASE turn # j
      <4>1. probeElapsed'[j] = probeElapsed[j]
        BY <1>1, <1>2, <3>1 DEF ReachInv, CountersTyped
      <4>2. StillToCount(j)' = StillToCount(j)
        BY <1>2, <1>4, <3>1
      <4>3. NextProbe(j)' = NextProbe(j)
        BY <4>1, <4>2 DEF NextProbe
      <4> QED  BY <1>2, <1>10, <2>2, <4>3 DEF InTime, SilenceWindow
    <3>2. CASE turn = j /\ probeElapsed[j] + 1 >= ProbeInterval
      <4>1. d <= SilenceWindow + 1 - QuietThen(i, j)'
        BY <1>2, <1>3, <1>8, <1>10, <2>2
      <4>2. \E env \in Items(outbox') : EdgeOf(env) = e
        BY <1>2, <1>16, <3>2 DEF Peers
      <4> QED  BY <1>2, <4>1, <4>2 DEF InTime, SilenceWindow
    <3>3. CASE turn = j /\ ~(probeElapsed[j] + 1 >= ProbeInterval)
      <4>1. probeElapsed'[j] = probeElapsed[j] + 1
        BY <1>1, <1>2, <3>3 DEF CountUp, ReachInv, CountersTyped
      <4>2. NextProbe(j)' = NextProbe(j)
        BY <1>2, <1>3, <1>4, <3>3, <4>1 DEF NextProbe
      <4> QED  BY <1>2, <1>10, <2>2, <4>2 DEF InTime, SilenceWindow
    <3> QED  BY <3>1, <3>2, <3>3
  <2> QED  BY <1>6, <2>1, <2>2
<1>19. Reported(e)'
  <2>1. \A env \in Items(outbox') : Named(e, env)
    BY <1>14, <1>16 DEF Named
  <2>2. \A m \in Items(inflight') \cup Items(pending') : Named(e, m.env)
    BY <1>1 DEF EdgeInv, Reported
  <2> QED  BY <1>14, <2>1, <2>2 DEF Reported
<1> QED  BY <1>17, <1>18, <1>19 DEF EdgeInv

\* What is sent over a working edge takes the direct way, intact.
LEMMA EnqueueEdge ==
  ASSUME NEW e \in Edge, ReachInv, StepInv, EdgeInv(e), e \notin Faulty, Enqueue
  PROVE  EdgeInv(e)'
<1> DEFINE env == Head(outbox)
           j == e[1]
           i == e[2]
           d == DefaultDelay(e)
<1>1. outbox # <<>> /\ UNCHANGED nodeVars
  BY DEF Enqueue
<1>2. /\ i \in Node /\ j \in Node /\ i # j /\ e = <<j, i>> /\ d \in Nat \ {0}
      /\ latency[e] = d
  BY EdgeEnds DEF ReachInv, FabricTyped
<1>3. /\ outbox \in Seq(Addressed) /\ env \in Addressed /\ Tail(outbox) \in Seq(Addressed)
      /\ inflight \in Seq(Sent) /\ inflight' \in Seq(Sent)
  <2>1. FabricTyped'
    BY EnqueueTyped DEF ReachInv
  <2> QED  BY <1>1, <2>1, QueueFacts DEF ReachInv, FabricTyped
<1>4. Items(outbox) = {env} \cup Items(Tail(outbox))
  BY <1>1, <1>3, ItemsOf
<1>5. /\ UNCHANGED <<pending, stepping, turn>> /\ outbox' = Tail(outbox)
      /\ \/ inflight' = inflight /\ EdgeOf(env) \in down
         \/ \E m : /\ inflight' = Append(inflight, m)
                   /\ m.env.from = env.from /\ m.env.to = env.to
                   /\ m.env.kind = env.kind /\ m.env.up = env.up
                   /\ EdgeOf(env) = e => m.env.intact = env.intact /\ m.delay = d /\ m.due = d
  <2>1. CASE EnqueueDirect
    <3> DEFINE sent == [env EXCEPT !.intact = @ /\ EdgeOf(env) \notin corrupt]
               m == [env |-> sent, due |-> latency[EdgeOf(env)], via |-> NoRelay,
                     delay |-> latency[EdgeOf(env)]]
    <3>1. /\ inflight' = Append(inflight, m)
          /\ UNCHANGED <<pending, stepping, turn>> /\ outbox' = Tail(outbox)
      BY <2>1 DEF EnqueueDirect, Schedule
    <3>2. /\ sent.from = env.from /\ sent.to = env.to /\ sent.kind = env.kind
          /\ sent.up = env.up
          /\ sent.intact = (env.intact /\ EdgeOf(env) \notin corrupt)
      BY <1>3 DEF Addressed, Envelopes
    <3>3. EdgeOf(env) = e => sent.intact = env.intact
      <4>1. env.intact \in BOOLEAN /\ (EdgeOf(env) = e => EdgeOf(env) \notin corrupt)
        BY <1>3 DEF Addressed, Envelopes, Faulty
      <4> QED  BY <3>2, <4>1
    <3> HIDE DEF sent
    <3>4. EdgeOf(env) = e => m.delay = d /\ m.due = d
      BY <1>2
    <3>5. m.env = sent
      OBVIOUS
    <3> HIDE DEF m
    <3> QED  BY <3>1, <3>2, <3>3, <3>4, <3>5
  <2>2. CASE EnqueueDropped
    BY <2>2 DEF EnqueueDropped
  <2>3. ASSUME NEW via, EnqueueRelayed(via)
        PROVE  \E m : /\ inflight' = Append(inflight, m) /\ m.env = env
                      /\ EdgeOf(env) \in down
                      /\ UNCHANGED <<pending, stepping, turn>> /\ outbox' = Tail(outbox)
    BY <2>3 DEF EnqueueRelayed, Schedule
  <2>4. EdgeOf(env) \in down => EdgeOf(env) # e
    BY DEF Faulty
  <2>5. EnqueueDirect \/ EnqueueDropped \/ \E via : EnqueueRelayed(via)
    BY DEF Enqueue
  <2> QED  BY <2>1, <2>2, <2>3, <2>4, <2>5
<1> HIDE DEF env
<1>6. UNCHANGED <<QuietThen(i, j), NextProbe(j), newest, inboundUp, view>>
  BY <1>1, <1>5 DEF QuietThen, NextProbe, StillToCount, nodeVars, timers
<1>7. CASE inflight' = inflight /\ EdgeOf(env) \in down
  <2>1. EdgeOf(env) # e
    BY <1>7 DEF Faulty
  <2>2. Carries(e)'
    BY <1>4, <1>5, <1>6, <1>7 DEF EdgeInv, Carries
  <2>3. InTime(j, i)'
    BY <1>2, <1>4, <1>5, <1>6, <1>7, <2>1 DEF EdgeInv, InTime, SilenceWindow
  <2>4. Reported(e)'
    BY <1>4, <1>5, <1>6, <1>7 DEF EdgeInv, Reported
  <2> QED  BY <2>2, <2>3, <2>4 DEF EdgeInv
<1>8. ASSUME NEW m, inflight' = Append(inflight, m),
             m.env.from = env.from, m.env.to = env.to,
             m.env.kind = env.kind, m.env.up = env.up,
             EdgeOf(env) = e => m.env.intact = env.intact /\ m.delay = d /\ m.due = d
      PROVE  EdgeInv(e)'
  <2>1. Items(inflight') = Items(inflight) \cup {m}
    <3>1. m \in Sent
      <4>1. inflight'[Len(inflight) + 1] = m /\ Len(inflight') = Len(inflight) + 1
        BY <1>3, <1>8
      <4> QED  BY <1>3, <4>1
    <3> QED  BY <1>3, <1>8, <3>1, ItemsOf
  <2>2. EdgeOf(m.env) = EdgeOf(env)
    BY <1>8 DEF EdgeOf
  <2>3. /\ \A n \in Under(e, inflight') : n \in Under(e, inflight) \/ (n = m /\ EdgeOf(env) = e)
        /\ Under(e, inflight) \subseteq Under(e, inflight')
        /\ EdgeOf(env) = e => m \in Under(e, inflight')
    BY <2>1, <2>2 DEF Under
  <2>4. Carries(e)'
    BY <1>2, <1>4, <1>5, <1>6, <1>8, <2>3 DEF EdgeInv, Carries
  <2>5. InTime(j, i)'
    <3>1. CASE EdgeOf(env) = e
      BY <1>2, <1>4, <1>5, <1>6, <1>8, <2>3, <3>1 DEF EdgeInv, InTime, SilenceWindow
    <3>2. CASE EdgeOf(env) # e
      BY <1>2, <1>4, <1>5, <1>6, <2>3, <3>2 DEF EdgeInv, InTime, SilenceWindow
    <3> QED  BY <3>1, <3>2
  <2>6. Reported(e)'
    <3>1. Named(e, m.env)
      BY <1>4, <1>8 DEF EdgeInv, Reported, Named
    <3> QED  BY <1>4, <1>5, <1>6, <2>1, <3>1 DEF EdgeInv, Reported
  <2> QED  BY <2>4, <2>5, <2>6 DEF EdgeInv
<1> QED  BY <1>5, <1>7, <1>8

\* What Step leaves behind, and that only an edge that failed is faulty.
LEMMA FrameStep ==
  ASSUME ReachInv, StepInv, Faulty \subseteq faulted, [Next]_vars
  PROVE  StepInv' /\ Faulty' \subseteq faulted' /\ faulted \subseteq faulted'
<1> USE DEF edges, queues, netVars
<1>1. StepInv'
  <2>1. CASE BeginStep \/ KeepWaiting \/ EndStep
    BY <2>1 DEF BeginStep, KeepWaiting, EndStep, StepInv
  <2>2. CASE Deliver
    BY <2>2 DEF Deliver, HandleProbe, HandleProbeResp, HandleHeartbeat, HandleAnswer,
                DeliverDue, StepInv
  <2>3. CASE Tick
    BY <2>3 DEF Tick, TickNode, StepInv
  <2>4. CASE Enqueue
    BY <2>4 DEF Enqueue, EnqueueDirect, EnqueueRelayed, EnqueueDropped, Schedule, StepInv
  <2>5. CASE Inject
    BY <2>5 DEF Inject, Fault, CutLink, HealLink, CorruptLink, CleanLink, StepInv
  <2>6. CASE UNCHANGED vars
    BY <2>6 DEF vars, StepInv
  <2> QED  BY <2>1, <2>2, <2>3, <2>4, <2>5, <2>6 DEF Next, Step
<1>2. CASE Step
  <2>1. UNCHANGED <<down, corrupt, faulted>>
    BY <1>2 DEF Step, BeginStep, KeepWaiting, EndStep, Deliver, HandleProbe, HandleProbeResp,
                HandleHeartbeat, HandleAnswer, DeliverDue, Tick, TickNode, Enqueue,
                EnqueueDirect, EnqueueRelayed, EnqueueDropped, Schedule
  <2> QED  BY <1>1, <2>1 DEF Faulty
<1>3. CASE Inject
  BY <1>1, <1>3 DEF Inject, CutLink, HealLink, CorruptLink, CleanLink, Faulty
<1>4. CASE UNCHANGED vars
  BY <1>1, <1>4 DEF vars, Faulty
<1> QED  BY <1>2, <1>3, <1>4 DEF Next

\* An edge that works keeps working through every step that does not break it.
LEMMA EdgeStep ==
  ASSUME NEW e \in Edge, ReachInv, ReachInv', WindowLongEnough, StepInv, EdgeInv(e),
         e \notin Faulty, [Next]_vars
  PROVE  EdgeInv(e)'
<1>1. CASE BeginStep /\ newest' = [i \in Node |-> [j \in Peers(i) |-> Older(newest[i][j])]]
           /\ UNCHANGED <<view, inboundUp, quiet, timers>>
  BY <1>1, BeginStepEdge
<1>2. CASE KeepWaiting /\ UNCHANGED nodeVars
  BY <1>2, KeepWaitingEdge
<1>3. CASE Deliver
  BY <1>3, DeliverEdge
<1>4. CASE Tick
  BY <1>4, TickEdge
<1>5. CASE Enqueue
  BY <1>5, EnqueueEdge
<1>6. CASE EndStep /\ UNCHANGED nodeVars
  <2>1. /\ stepping /\ ~stepping' /\ turn = N + 1 /\ UNCHANGED queues /\ UNCHANGED nodeVars
    BY <1>6 DEF EndStep
  <2>2. \A i \in Node : StillToCount(i) = 0 /\ StillToCount(i)' = 0
    BY <2>1, NetworkAssumption DEF StillToCount, Node
  <2>3. UNCHANGED <<QuietThen(e[2], e[1]), NextProbe(e[1])>>
    BY <2>1, <2>2, EdgeEnds DEF QuietThen, NextProbe, nodeVars, timers
  <2> QED  BY <2>1, <2>3 DEF EdgeInv, Carries, InTime, Reported, queues, nodeVars
<1>7. CASE Inject \/ UNCHANGED vars
  <2>1. UNCHANGED <<queues, stepping, turn, nodeVars>>
    BY <1>7 DEF Inject, Fault, CutLink, HealLink, CorruptLink, CleanLink, vars, netVars
  <2>2. UNCHANGED <<QuietThen(e[2], e[1]), NextProbe(e[1])>>
    BY <2>1 DEF QuietThen, NextProbe, StillToCount, nodeVars, timers
  <2> QED  BY <2>1, <2>2 DEF EdgeInv, Carries, InTime, Reported, queues, nodeVars
<1> QED  BY <1>1, <1>2, <1>3, <1>4, <1>5, <1>6, <1>7 DEF Next, Step

\* At the start the first probe is in time.
LEMMA EdgeInit ==
  ASSUME NEW e \in Edge, Init, ReachInv, WindowLongEnough
  PROVE  EdgeInv(e)
<1> DEFINE j == e[1]
           i == e[2]
           d == DefaultDelay(e)
<1>1. /\ i \in Node /\ j \in Node /\ j \in Peers(i) /\ e = <<j, i>>
      /\ d \in Nat \ {0} /\ d <= BaseDelay + CrossDelay
  BY EdgeEnds
<1>2. /\ ~stepping /\ quiet[i][j] = 0 /\ newest[i][j] = MaxDelay /\ probeElapsed[j] = 0
      /\ inboundUp[i] = Peers(i) /\ \A n \in Node : view[n] = Edge
  BY <1>1 DEF Init, NetInit
<1>3. Items(inflight) = {} /\ Items(pending) = {} /\ Items(outbox) = {}
  BY ItemsOfFew DEF Init, NetInit
<1>4. Carries(e)
  BY <1>1, <1>2, <1>3, NetworkAssumption, ReachabilityAssumption DEF Carries, Under
<1>5. InTime(j, i)
  <2>1. QuietThen(i, j) = 0 /\ NextProbe(j) = ProbeInterval
    BY <1>2, ReachabilityAssumption DEF QuietThen, NextProbe, StillToCount
  <2>2. NextProbe(j) + d <= SilenceWindow + 1 - QuietThen(i, j)
    BY <1>1, <2>1, CounterTypes, NetworkAssumption DEF WindowLongEnough
  <2> QED  BY <1>1, <2>2 DEF InTime
<1>6. Reported(e)
  BY <1>1, <1>2, <1>3 DEF Reported
<1> QED  BY <1>4, <1>5, <1>6 DEF EdgeInv

\* Every edge that never failed works, in the sense of EdgeInv, in every run.
THEOREM WorkingEdgesHold == WindowLongEnough /\ Spec => []WorkingEdges
<1>1. WindowLongEnough /\ ReachInv /\ Init => WorkingEdges
  <2> SUFFICES ASSUME WindowLongEnough, ReachInv, Init PROVE WorkingEdges
    OBVIOUS
  <2>1. StepInv /\ Faulty \subseteq faulted
    BY DEF Init, NetInit, StepInv, Faulty
  <2> QED  BY <2>1, EdgeInit DEF WorkingEdges
<1>2. WindowLongEnough /\ ReachInv /\ ReachInv' /\ WorkingEdges /\ [Next]_vars => WorkingEdges'
  <2> SUFFICES ASSUME WindowLongEnough, ReachInv, ReachInv', WorkingEdges, [Next]_vars
               PROVE  WorkingEdges'
    OBVIOUS
  <2>1. StepInv' /\ Faulty' \subseteq faulted' /\ faulted \subseteq faulted'
    BY FrameStep DEF WorkingEdges
  <2>2. ASSUME NEW e \in Edge, e \notin faulted'
        PROVE  EdgeInv(e)'
    <3>1. e \notin faulted /\ e \notin Faulty /\ StepInv
      BY <2>1, <2>2 DEF WorkingEdges
    <3> QED  BY <3>1, EdgeStep DEF WorkingEdges
  <2> QED  BY <2>1, <2>2 DEF WorkingEdges
<1>3. CASE WindowLongEnough
  <2>1. ReachInv /\ Init => WorkingEdges
    BY <1>1, <1>3
  <2>2. ReachInv /\ ReachInv' /\ WorkingEdges /\ [Next]_vars => WorkingEdges'
    BY <1>2, <1>3
  <2> QED  BY <2>1, <2>2, ReachInvariant, PTL DEF Spec
<1> QED  BY <1>3

\* With a window that is long enough, no node ever believes an edge to be down that
\* never failed, whatever cuts, corruption and relayed evidence there is around it.
THEOREM ReachNoFalseAlarm == WindowLongEnough /\ Spec => []NoFalseAlarm
<1>1. WorkingEdges => NoFalseAlarm
  BY DEF WorkingEdges, EdgeInv, Reported, NoFalseAlarm
<1> QED  BY <1>1, WorkingEdgesHold, PTL
=============================================================================
