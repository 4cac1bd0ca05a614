------------------------------- MODULE Fabric -------------------------------
(***************************************************************************)
(* The fabric under nodes that may send anything: every call of a node        *)
(* returns any sequence of envelopes to its peers, and any working relay may   *)
(* be found or missed.  Envelopes are numbered as they are sealed, which lets   *)
(* the properties speak of each of them.                                      *)
(***************************************************************************)
EXTENDS Network

CONSTANTS
  MaxSent,  \* bound: envelopes sent in a run
  MaxOut,   \* bound: envelopes returned by one call
  Ticks     \* the latencies that SetLatency may pin

ASSUME FabricAssumption == MaxSent \in Nat /\ MaxOut \in Nat /\ Ticks \subseteq Nat

VARIABLES
  sent,      \* envelopes sealed so far
  delivered  \* history: the envelopes handed to their destinations

vars == <<netVars, sent, delivered>>

Init == NetInit /\ sent = 0 /\ delivered = {}

\* What one call of node i may return: envelopes for the peers in dests.
Outs(i) == UNION {[1..n -> Peers(i)] : n \in 0..MaxOut}

Sealed(i, dests) ==
  [k \in DOMAIN dests |-> [from |-> i, to |-> dests[k], seq |-> sent + k, intact |-> TRUE]]

Call(dests) == sent' = sent + Len(dests) /\ sent' <= MaxSent

Deliver ==
  /\ pending # <<>>
  /\ LET env == Head(pending).env
     IN  /\ \E dests \in Outs(env.to) :
              DeliverDue(Sealed(env.to, dests)) /\ Call(dests)
         /\ delivered' = delivered \cup {env.seq}

Tick ==
  /\ \E dests \in Outs(turn) : TickNode(Sealed(turn, dests)) /\ Call(dests)
  /\ UNCHANGED delivered

Enqueue ==
  /\ EnqueueDirect \/ EnqueueDropped \/ \E via \in Node : EnqueueRelayed(via)
  /\ UNCHANGED <<sent, delivered>>

\* One call of Step, iteration by iteration.
Step ==
  \/ (BeginStep \/ KeepWaiting \/ EndStep) /\ UNCHANGED <<sent, delivered>>
  \/ Deliver
  \/ Tick
  \/ Enqueue

Inject ==
  /\ \E e \in Edge : \/ CutLink(e) \/ HealLink(e) \/ CorruptLink(e) \/ CleanLink(e)
                     \/ \E ticks \in Ticks : SetLatency(e, ticks)
  /\ UNCHANGED <<sent, delivered>>

Next == Step \/ Inject

\* Whoever drives the simulation keeps calling Step, and a call of it returns.
Fairness == WF_vars(Step)

Spec == Init /\ [][Next]_vars

FairSpec == Spec /\ Fairness

-----------------------------------------------------------------------------
UnderWay == {inflight[k] : k \in DOMAIN inflight} \cup {pending[k] : k \in DOMAIN pending}

Carried == {m.env.seq : m \in UnderWay}

Given == sent - Len(outbox)

DueNow == pending # <<>> /\ Head(pending).due <= 0

Envelopes == {env \in [from : Node, to : Node, seq : 1..MaxSent, intact : BOOLEAN] :
                env.from # env.to}

Messages == {m \in [env : Envelopes, due : Int, via : {NoRelay} \cup Node, delay : Nat] :
               m.via \notin {m.env.from, m.env.to}}

\* Beside the types: nobody sends to itself, a relay is a third node, and Step
\* leaves nothing behind when it returns.
TypeOK ==
  /\ inflight \in Seq(Messages) /\ pending \in Seq(Messages) /\ outbox \in Seq(Envelopes)
  /\ stepping \in BOOLEAN /\ turn \in 1..(N + 1)
  /\ ~stepping => pending = <<>> /\ outbox = <<>> /\ turn = 1
  /\ down \subseteq Edge /\ corrupt \subseteq Edge /\ latency \in [Edge -> Nat]
  /\ faults \in 0..MaxFaults /\ sent \in 0..MaxSent /\ delivered \subseteq 1..sent

\* The fabric loses nothing once enqueue has taken it and hands nothing over twice,
\* although Step rebuilds the queue while deliveries add replies to it.
Abstract == INSTANCE Carrier WITH
  given <- Given,
  carried <- Carried

CarriesOrDrops == Abstract!Spec

\* Whatever enqueue has taken reaches its destination in the end, faults or not.
EventuallyDelivered == \A n \in 1..MaxSent : n \in Carried ~> n \in delivered

\* A message is delivered when its delay is over, neither earlier nor later; one
\* without delay, in the next Step.
DeliveredOnTime ==
  DueNow => LET m == Head(pending)
            IN  m.delay - m.due = IF m.delay = 0 THEN 1 ELSE m.delay

\* Two messages of one edge that take equally long arrive in the order in which
\* they were sent: only a relay or a changed latency lets one overtake another.
NoOvertaking ==
  DueNow => LET m == Head(pending)
            IN  \A n \in UnderWay :
                  EdgeOf(n.env) = EdgeOf(m.env) /\ n.delay = m.delay => m.env.seq <= n.env.seq

-----------------------------------------------------------------------------
\* How much of its delay a message has left: in the queue, and while Step, which
\* has counted its own tick, has not looked at it.
Waiting(m) == IF m.delay = 0 THEN m.due = 0 ELSE 0 < m.due /\ m.due <= m.delay

Swapped(m) == IF m.delay = 0 THEN m.due = -1 ELSE 0 <= m.due /\ m.due < m.delay

\* m stands before n.  If both go the same way, the one that was sent first is due
\* first; if it stands behind, strictly first.
InOrder(m, n) ==
  /\ m.env.seq # n.env.seq
  /\ EdgeOf(m.env) = EdgeOf(n.env) /\ m.delay = n.delay =>
       IF m.env.seq < n.env.seq THEN m.due <= n.due ELSE n.due < m.due

\* What Step has already looked at counts as standing before what it has not.
QueueInv(queue, rest, given) ==
  /\ \A k \in DOMAIN queue : Waiting(queue[k]) /\ queue[k].env.seq <= given
  /\ \A k \in DOMAIN rest : Swapped(rest[k]) /\ rest[k].env.seq <= given
  /\ \A k, l \in DOMAIN queue : k < l => InOrder(queue[k], queue[l])
  /\ \A k, l \in DOMAIN rest : k < l => InOrder(rest[k], rest[l])
  /\ \A k \in DOMAIN queue : \A l \in DOMAIN rest : InOrder(queue[k], rest[l])

\* Although replies enter the queue between messages that are put back, its order
\* and the order of sending stay in step, and the envelopes keep their numbers.
FabricInv ==
  /\ TypeOK
  /\ QueueInv(inflight, pending, Given)
  /\ \A k \in DOMAIN outbox : outbox[k].seq = Given + k
=============================================================================
