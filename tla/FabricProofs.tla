---------------------------- MODULE FabricProofs ----------------------------
(***************************************************************************)
(* The fabric for every cluster, every latency and every pattern of faults:    *)
(* types, delivery on time and in order, and the refinement of Carrier.         *)
(***************************************************************************)
EXTENDS Fabric, TLAPS

\* What Append does to the elements.
LEMMA AppendFacts ==
  ASSUME NEW S, NEW q \in Seq(S), NEW e \in S
  PROVE  /\ Append(q, e) \in Seq(S)
         /\ Len(Append(q, e)) = Len(q) + 1 /\ Len(q) \in Nat
         /\ DOMAIN q = 1..Len(q) /\ DOMAIN Append(q, e) = 1..(Len(q) + 1)
         /\ \A k \in DOMAIN q : Append(q, e)[k] = q[k]
         /\ Append(q, e)[Len(q) + 1] = e
OBVIOUS

\* What Head and Tail do to the elements.
LEMMA TailFacts ==
  ASSUME NEW S, NEW q \in Seq(S), q # <<>>
  PROVE  /\ Tail(q) \in Seq(S) /\ Head(q) \in S /\ Head(q) = q[1]
         /\ Len(q) \in Nat /\ Len(q) >= 1 /\ Len(Tail(q)) = Len(q) - 1
         /\ DOMAIN q = 1..Len(q) /\ DOMAIN Tail(q) = 1..(Len(q) - 1)
         /\ 1 \in DOMAIN q
         /\ \A k \in DOMAIN Tail(q) : k + 1 \in DOMAIN q /\ Tail(q)[k] = q[k + 1]
OBVIOUS

\* One tick off every message.
LEMMA AgedFacts ==
  ASSUME NEW q \in Seq(Messages)
  PROVE  /\ Aged(q) \in Seq(Messages)
         /\ DOMAIN Aged(q) = DOMAIN q
         /\ \A k \in DOMAIN q : /\ Aged(q)[k].env = q[k].env
                                /\ Aged(q)[k].delay = q[k].delay
                                /\ Aged(q)[k].due = q[k].due - 1
<1>1. ASSUME NEW m \in Messages
      PROVE  /\ [m EXCEPT !.due = @ - 1] \in Messages
             /\ [m EXCEPT !.due = @ - 1].env = m.env
             /\ [m EXCEPT !.due = @ - 1].delay = m.delay
             /\ [m EXCEPT !.due = @ - 1].due = m.due - 1
  BY DEF Messages
<1>2. \A k \in DOMAIN q : q[k] \in Messages
  OBVIOUS
<1>3. DOMAIN q = 1..Len(q) /\ Len(q) \in Nat
  OBVIOUS
<1>4. Aged(q) = [k \in 1..Len(q) |-> [q[k] EXCEPT !.due = @ - 1]]
  BY <1>3 DEF Aged
<1>5. \A k \in 1..Len(q) : [q[k] EXCEPT !.due = @ - 1] \in Messages
  BY <1>1, <1>2, <1>3
<1>6. Aged(q) \in Seq(Messages)
  BY <1>3, <1>4, <1>5
<1>7. \A k \in DOMAIN q : /\ Aged(q)[k].env = q[k].env
                          /\ Aged(q)[k].delay = q[k].delay
                          /\ Aged(q)[k].due = q[k].due - 1
  BY <1>1, <1>2, <1>3, <1>4
<1> QED  BY <1>3, <1>4, <1>6, <1>7

\* The fields of a message.
LEMMA MessageFields ==
  ASSUME NEW m \in Messages
  PROVE  /\ m.env \in Envelopes /\ m.due \in Int /\ m.delay \in Nat
         /\ m.env.seq \in Nat /\ m.env.to \in Node /\ m.env.from \in Node
BY FabricAssumption DEF Messages, Envelopes

-----------------------------------------------------------------------------
\* Step swaps the queue out: everything has one tick less to wait.
LEMMA SwapKeepsOrder ==
  ASSUME NEW queue \in Seq(Messages), NEW given \in Int, QueueInv(queue, <<>>, given)
  PROVE  QueueInv(<<>>, Aged(queue), given)
<1>1. \A k \in DOMAIN queue : queue[k] \in Messages
  OBVIOUS
<1>2. ASSUME NEW k \in DOMAIN queue
      PROVE  Swapped(Aged(queue)[k]) /\ Aged(queue)[k].env.seq <= given
  BY <1>1, AgedFacts, MessageFields DEF QueueInv, Waiting, Swapped
<1>3. ASSUME NEW k \in DOMAIN queue, NEW l \in DOMAIN queue, k < l
      PROVE  InOrder(Aged(queue)[k], Aged(queue)[l])
  <2>1. InOrder(queue[k], queue[l])
    BY <1>3 DEF QueueInv
  <2>2. queue[k].due \in Int /\ queue[l].due \in Int
    BY <1>1, MessageFields
  <2> QED  BY <2>1, <2>2, AgedFacts DEF InOrder, EdgeOf
<1> QED  BY <1>2, <1>3, AgedFacts DEF QueueInv

\* A message that is not due moves from one end to the other.
LEMMA KeepKeepsOrder ==
  ASSUME NEW queue \in Seq(Messages), NEW rest \in Seq(Messages), NEW given \in Int,
         QueueInv(queue, rest, given), rest # <<>>, Head(rest).due > 0
  PROVE  QueueInv(Append(queue, Head(rest)), Tail(rest), given)
<1> DEFINE m == Head(rest)
           q == Append(queue, m)
           r == Tail(rest)
           n == Len(queue) + 1
<1>1. /\ m \in Messages /\ m = rest[1] /\ 1 \in DOMAIN rest /\ DOMAIN rest = 1..Len(rest)
      /\ \A k \in DOMAIN r : k + 1 \in DOMAIN rest /\ r[k] = rest[k + 1] /\ k \in Nat /\ k >= 1
  BY TailFacts
<1>2. /\ DOMAIN queue = 1..Len(queue) /\ Len(queue) \in Nat /\ DOMAIN q = 1..n
      /\ q[n] = m /\ \A k \in DOMAIN queue : q[k] = queue[k]
  BY <1>1, AppendFacts
<1>3. \A k \in DOMAIN q : k \in DOMAIN queue \/ k = n
  BY <1>2
<1>4. Waiting(m) /\ m.env.seq <= given
  BY <1>1, MessageFields DEF QueueInv, Swapped, Waiting
<1>5. \A k \in DOMAIN q : Waiting(q[k]) /\ q[k].env.seq <= given
  BY <1>2, <1>3, <1>4 DEF QueueInv
<1>6. \A k \in DOMAIN r : Swapped(r[k]) /\ r[k].env.seq <= given
  BY <1>1 DEF QueueInv
<1>7. ASSUME NEW k \in DOMAIN q, NEW l \in DOMAIN q, k < l PROVE InOrder(q[k], q[l])
  <2>1. k \in DOMAIN queue
    BY <1>2, <1>7
  <2>2. CASE l \in DOMAIN queue
    BY <1>2, <1>7, <2>1, <2>2 DEF QueueInv
  <2>3. CASE l = n
    <3>1. InOrder(queue[k], rest[1])
      BY <1>1, <2>1 DEF QueueInv
    <3> QED  BY <1>1, <1>2, <2>1, <2>3, <3>1
  <2> QED  BY <1>3, <2>2, <2>3
<1>8. \A k, l \in DOMAIN r : k < l => InOrder(r[k], r[l])
  BY <1>1 DEF QueueInv
<1>9. ASSUME NEW k \in DOMAIN q, NEW l \in DOMAIN r PROVE InOrder(q[k], r[l])
  <2>1. CASE k \in DOMAIN queue
    BY <1>1, <1>2, <2>1 DEF QueueInv
  <2>2. CASE k = n
    <3>1. InOrder(rest[1], rest[l + 1])
      BY <1>1 DEF QueueInv
    <3> QED  BY <1>1, <1>2, <2>2, <3>1
  <2> QED  BY <1>3, <2>1, <2>2
<1> HIDE DEF q, r
<1>10. QueueInv(q, r, given)
  BY <1>5, <1>6, <1>7, <1>8, <1>9 DEF QueueInv
<1> QED  BY <1>10 DEF q, r

\* A message that is due leaves.
LEMMA DeliveryKeepsOrder ==
  ASSUME NEW queue \in Seq(Messages), NEW rest \in Seq(Messages), NEW given \in Int,
         QueueInv(queue, rest, given), rest # <<>>
  PROVE  QueueInv(queue, Tail(rest), given)
<1>1. \A k \in DOMAIN Tail(rest) :
        k + 1 \in DOMAIN rest /\ Tail(rest)[k] = rest[k + 1] /\ k \in Nat
  BY TailFacts
<1> QED  BY <1>1 DEF QueueInv

\* A message is scheduled: whatever is ahead of it in its path was sent before, and
\* whatever Step has not looked at yet is due before.
LEMMA ScheduleKeepsOrder ==
  ASSUME NEW queue \in Seq(Messages), NEW rest \in Seq(Messages), NEW given \in Int,
         QueueInv(queue, rest, given),
         NEW m \in Messages, m.due = m.delay, m.env.seq = given + 1
  PROVE  QueueInv(Append(queue, m), rest, given + 1)
<1> DEFINE q == Append(queue, m)
           n == Len(queue) + 1
<1>1. /\ DOMAIN queue = 1..Len(queue) /\ Len(queue) \in Nat /\ DOMAIN q = 1..n
      /\ q[n] = m /\ \A k \in DOMAIN queue : q[k] = queue[k]
  BY AppendFacts
<1>2. \A k \in DOMAIN q : k \in DOMAIN queue \/ k = n
  BY <1>1
<1>3. /\ \A k \in DOMAIN queue : queue[k] \in Messages
      /\ \A k \in DOMAIN rest : rest[k] \in Messages
  OBVIOUS
<1>4. \A k \in DOMAIN queue : InOrder(queue[k], m) /\ queue[k].env.seq <= given + 1
  BY <1>3, MessageFields DEF QueueInv, Waiting, InOrder
<1>5. \A k \in DOMAIN rest : InOrder(m, rest[k]) /\ rest[k].env.seq <= given + 1
  BY <1>3, MessageFields DEF QueueInv, Swapped, InOrder
<1>6. Waiting(m)
  BY MessageFields DEF Waiting
<1>7. \A k \in DOMAIN q : Waiting(q[k]) /\ q[k].env.seq <= given + 1
  BY <1>1, <1>2, <1>4, <1>6 DEF QueueInv
<1>8. \A k, l \in DOMAIN q : k < l => InOrder(q[k], q[l])
  BY <1>1, <1>2, <1>4 DEF QueueInv
<1>9. \A k \in DOMAIN q : \A l \in DOMAIN rest : InOrder(q[k], rest[l])
  BY <1>1, <1>2, <1>5 DEF QueueInv
<1> HIDE DEF q
<1>10. QueueInv(q, rest, given + 1)
  BY <1>5, <1>7, <1>8, <1>9 DEF QueueInv
<1> QED  BY <1>10 DEF q

\* An envelope is dropped: its number is used up.
LEMMA DropKeepsOrder ==
  ASSUME NEW queue \in Seq(Messages), NEW rest \in Seq(Messages), NEW given \in Int,
         QueueInv(queue, rest, given)
  PROVE  QueueInv(queue, rest, given + 1)
<1>1. /\ \A k \in DOMAIN queue : queue[k] \in Messages
      /\ \A k \in DOMAIN rest : rest[k] \in Messages
  OBVIOUS
<1> QED  BY <1>1, MessageFields DEF QueueInv

-----------------------------------------------------------------------------
\* The envelopes that a call seals are well formed and numbered on.
LEMMA SealedFacts ==
  ASSUME NEW i \in Node, NEW dests \in Outs(i), sent \in Nat, sent + Len(dests) <= MaxSent
  PROVE  /\ Sealed(i, dests) \in Seq(Envelopes)
         /\ Len(Sealed(i, dests)) = Len(dests) /\ Len(dests) \in Nat
         /\ DOMAIN Sealed(i, dests) = 1..Len(dests)
         /\ \A k \in 1..Len(dests) : Sealed(i, dests)[k].seq = sent + k
<1>1. PICK n \in 0..MaxOut : dests \in [1..n -> Peers(i)]
  BY DEF Outs
<1>2. n \in Nat /\ Len(dests) = n /\ DOMAIN dests = 1..n
  BY <1>1, FabricAssumption
<1>3. \A k \in 1..n : [from |-> i, to |-> dests[k], seq |-> sent + k, intact |-> TRUE] \in Envelopes
  <2> SUFFICES ASSUME NEW k \in 1..n
               PROVE  [from |-> i, to |-> dests[k], seq |-> sent + k, intact |-> TRUE] \in Envelopes
    OBVIOUS
  <2>1. dests[k] \in Node /\ dests[k] # i
    BY <1>1 DEF Peers
  <2>2. sent + k \in 1..MaxSent
    BY <1>2, FabricAssumption
  <2> QED  BY <2>1, <2>2 DEF Envelopes
<1>4. Sealed(i, dests) =
        [k \in 1..n |-> [from |-> i, to |-> dests[k], seq |-> sent + k, intact |-> TRUE]]
  BY <1>2 DEF Sealed
<1>5. Sealed(i, dests) \in Seq(Envelopes)
  BY <1>2, <1>3, <1>4
<1> QED  BY <1>2, <1>4, <1>5

\* Only to expand what one call of Schedule may enter the queue with.
Scheduled(env, m) == m.env.seq = env.seq /\ m.due = m.delay /\ m \in Messages

\* One call of enqueue, whatever it decides.
LEMMA EnqueueFacts ==
  ASSUME TypeOK, Enqueue
  PROVE  /\ outbox # <<>> /\ outbox' = Tail(outbox)
         /\ \/ inflight' = inflight
            \/ \E m \in Messages : inflight' = Append(inflight, m) /\ Scheduled(Head(outbox), m)
         /\ UNCHANGED <<pending, stepping, turn, edges, faults, sent, delivered>>
<1> DEFINE env == Head(outbox)
<1>1. CASE EnqueueDropped
  BY <1>1 DEF Enqueue, EnqueueDropped, EnqueueDirect, EnqueueRelayed, Schedule
<1>2. ASSUME NEW e \in Envelopes, NEW delay \in Nat, NEW via \in {NoRelay} \cup Node,
             via \notin {e.from, e.to}, e.seq = env.seq, Schedule(e, delay, via)
      PROVE  \E m \in Messages : inflight' = Append(inflight, m) /\ Scheduled(env, m)
  <2> DEFINE m == [env |-> e, due |-> delay, via |-> via, delay |-> delay]
  <2>1. m \in Messages
    BY <1>2 DEF Messages
  <2>2. inflight' = Append(inflight, m)
    BY <1>2 DEF Schedule
  <2> QED  BY <1>2, <2>1, <2>2 DEF Scheduled
<1>3. ASSUME outbox # <<>>
      PROVE  /\ env \in Envelopes /\ env.from \in Node /\ env.to \in Node
             /\ EdgeOf(env) \in Edge /\ latency[EdgeOf(env)] \in Nat
  <2>1. env \in Envelopes
    BY <1>3, TailFacts DEF TypeOK
  <2>2. EdgeOf(env) \in Edge
    BY <2>1 DEF Envelopes, EdgeOf, Edge
  <2> QED  BY <2>1, <2>2 DEF TypeOK, Envelopes
<1>4. CASE EnqueueDirect
  <2> DEFINE e == [env EXCEPT !.intact = @ /\ EdgeOf(env) \notin corrupt]
  <2>1. outbox # <<>> /\ Schedule(e, latency[EdgeOf(env)], NoRelay)
    BY <1>4 DEF EnqueueDirect
  <2>2. e \in Envelopes /\ e.seq = env.seq /\ e.from = env.from /\ e.to = env.to
    BY <1>3, <2>1 DEF Envelopes
  <2>3. NoRelay \notin {e.from, e.to}
    BY <1>3, <2>1, <2>2, NetworkAssumption DEF NoRelay, Node
  <2>4. \E m \in Messages : inflight' = Append(inflight, m) /\ Scheduled(env, m)
    BY <1>2, <1>3, <2>1, <2>2, <2>3
  <2> QED  BY <1>4, <2>1, <2>4 DEF Enqueue, Schedule, EnqueueDropped, EnqueueRelayed, EnqueueDirect
<1>5. ASSUME NEW via \in Node, EnqueueRelayed(via)
      PROVE  /\ outbox # <<>>
             /\ \E m \in Messages : inflight' = Append(inflight, m) /\ Scheduled(env, m)
             /\ outbox' = Tail(outbox) /\ UNCHANGED <<pending, stepping, turn, edges, faults>>
  <2>1. /\ outbox # <<>> /\ RelayWorks(env, via)
        /\ Schedule(env, latency[<<env.from, via>>] + latency[<<via, env.to>>], via)
    BY <1>5 DEF EnqueueRelayed
  <2>2. via # env.from /\ via # env.to
    BY <2>1 DEF RelayWorks
  <2>3. <<env.from, via>> \in Edge /\ <<via, env.to>> \in Edge
    BY <1>3, <2>1, <2>2 DEF Edge
  <2>4. latency[<<env.from, via>>] + latency[<<via, env.to>>] \in Nat
    BY <2>3 DEF TypeOK
  <2>5. \E m \in Messages : inflight' = Append(inflight, m) /\ Scheduled(env, m)
    BY <1>2, <1>3, <2>1, <2>2, <2>4
  <2> QED  BY <2>1, <2>5 DEF Schedule
<1> QED  BY <1>1, <1>4, <1>5 DEF Enqueue

-----------------------------------------------------------------------------
\* Every step preserves the types; the invariant bounds what is delivered.
LEMMA FabricTypes == TypeOK /\ FabricInv /\ [Next]_vars => TypeOK'
<1> SUFFICES ASSUME TypeOK, FabricInv, [Next]_vars PROVE TypeOK'
  OBVIOUS
<1> USE DEF edges, queues, netVars
<1>0. sent \in Nat /\ delivered \subseteq 1..sent /\ N \in Nat /\ MaxSent \in Nat
  BY NetworkAssumption, FabricAssumption DEF TypeOK
<1>1. CASE BeginStep /\ UNCHANGED <<sent, delivered>>
  <2>1. pending' \in Seq(Messages) /\ inflight' \in Seq(Messages)
    BY <1>1, AgedFacts DEF BeginStep, TypeOK
  <2> QED  BY <1>1, <2>1 DEF BeginStep, TypeOK
<1>2. CASE KeepWaiting /\ UNCHANGED <<sent, delivered>>
  <2>1. Head(pending) \in Messages /\ pending' \in Seq(Messages)
    BY <1>2, TailFacts DEF KeepWaiting, TypeOK
  <2>2. inflight' \in Seq(Messages)
    BY <1>2, <2>1, AppendFacts DEF KeepWaiting, TypeOK
  <2> QED  BY <1>2, <2>1, <2>2 DEF KeepWaiting, TypeOK
<1>3. CASE EndStep /\ UNCHANGED <<sent, delivered>>
  <2>1. /\ outbox = <<>> /\ pending = <<>> /\ turn' = 1
        /\ ~stepping' /\ stepping' \in BOOLEAN
        /\ UNCHANGED <<inflight, pending, outbox, down, corrupt, latency, faults, sent, delivered>>
    BY <1>3 DEF EndStep
  <2>2. turn' \in 1..(N + 1)
    BY <1>0, <2>1
  <2> QED  BY <2>1, <2>2 DEF TypeOK
<1>4. CASE Deliver
  <2> DEFINE env == Head(pending).env
  <2>1. pending # <<>> /\ Head(pending) \in Messages /\ Tail(pending) \in Seq(Messages)
    BY <1>4, TailFacts DEF Deliver, TypeOK
  <2>2. env.to \in Node /\ env.seq \in 1..MaxSent
    BY <2>1 DEF Messages, Envelopes
  <2>3. PICK dests \in Outs(env.to) : DeliverDue(Sealed(env.to, dests)) /\ Call(dests)
    BY <1>4 DEF Deliver
  <2>4. sent + Len(dests) <= MaxSent /\ sent' = sent + Len(dests)
    BY <2>3 DEF Call
  <2>5. Sealed(env.to, dests) \in Seq(Envelopes) /\ Len(dests) \in Nat
    BY <1>0, <2>2, <2>4, SealedFacts
  <2>6. /\ outbox' = Sealed(env.to, dests) /\ pending' = Tail(pending) /\ stepping
        /\ UNCHANGED <<inflight, stepping, turn, edges, faults>>
    BY <2>3 DEF DeliverDue
  <2>7. env.seq <= sent
    <3>1. 1 \in DOMAIN pending /\ Head(pending) = pending[1]
      BY <2>1, TailFacts DEF TypeOK
    <3>2. env.seq <= Given
      BY <3>1 DEF FabricInv, QueueInv
    <3>3. Len(outbox) \in Nat
      BY DEF TypeOK
    <3> QED  BY <1>0, <2>2, <3>2, <3>3 DEF Given
  <2>8. delivered' = delivered \cup {env.seq}
    BY <1>4 DEF Deliver
  <2>9. sent' \in 0..MaxSent /\ delivered' \subseteq 1..sent'
    <3>1. sent' \in 0..MaxSent /\ sent <= sent'
      BY <1>0, <2>4, <2>5
    <3>2. env.seq \in 1..sent'
      BY <1>0, <2>2, <2>7, <3>1
    <3>3. 1..sent \subseteq 1..sent'
      BY <1>0, <3>1
    <3> QED  BY <1>0, <2>8, <3>1, <3>2, <3>3
  <2> QED  BY <2>1, <2>5, <2>6, <2>9 DEF TypeOK
<1>5. CASE Tick
  <2>1. PICK dests \in Outs(turn) : TickNode(Sealed(turn, dests)) /\ Call(dests)
    BY <1>5 DEF Tick
  <2>2. /\ turn \in Node /\ turn' = turn + 1 /\ stepping
        /\ outbox' = Sealed(turn, dests)
        /\ UNCHANGED <<inflight, pending, stepping, edges, faults, delivered>>
    BY <1>5, <2>1 DEF TickNode, Tick
  <2>3. sent + Len(dests) <= MaxSent /\ sent' = sent + Len(dests)
    BY <2>1 DEF Call
  <2>4. outbox' \in Seq(Envelopes) /\ Len(dests) \in Nat
    BY <1>0, <2>2, <2>3, SealedFacts
  <2>5. sent' \in 0..MaxSent /\ delivered' \subseteq 1..sent' /\ turn' \in 1..(N + 1)
    BY <1>0, <2>2, <2>3, <2>4 DEF Node
  <2> QED  BY <2>2, <2>4, <2>5 DEF TypeOK
<1>6. CASE Enqueue
  <2>1. /\ outbox # <<>> /\ outbox' = Tail(outbox)
        /\ \/ inflight' = inflight
           \/ \E m \in Messages : inflight' = Append(inflight, m)
        /\ UNCHANGED <<pending, stepping, turn, edges, faults, sent, delivered>>
    BY <1>6, EnqueueFacts
  <2>2. outbox' \in Seq(Envelopes)
    BY <2>1, TailFacts DEF TypeOK
  <2>3. inflight' \in Seq(Messages)
    <3>1. inflight \in Seq(Messages)
      BY DEF TypeOK
    <3>2. ASSUME NEW m \in Messages PROVE Append(inflight, m) \in Seq(Messages)
      BY <3>1, AppendFacts
    <3> QED  BY <2>1, <3>1, <3>2
  <2>4. stepping
    BY <2>1 DEF TypeOK
  <2> QED  BY <2>1, <2>2, <2>3, <2>4 DEF TypeOK
<1>7. CASE Inject
  <2>1. PICK e \in Edge : \/ CutLink(e) \/ HealLink(e) \/ CorruptLink(e) \/ CleanLink(e)
                          \/ \E ticks \in Ticks : SetLatency(e, ticks)
    BY <1>7 DEF Inject
  <2>2. /\ UNCHANGED <<queues, stepping, turn, sent, delivered>>
        /\ faults < MaxFaults /\ faults' = faults + 1
    BY <1>7, <2>1 DEF Inject, Fault, CutLink, HealLink, CorruptLink, CleanLink, SetLatency
  <2>3. faults' \in 0..MaxFaults
    BY <2>2, NetworkAssumption DEF TypeOK
  <2>4. down' \subseteq Edge /\ corrupt' \subseteq Edge /\ latency' \in [Edge -> Nat]
    BY <2>1, FabricAssumption DEF TypeOK, CutLink, HealLink, CorruptLink, CleanLink, SetLatency
  <2> QED  BY <2>2, <2>3, <2>4 DEF TypeOK
<1>8. CASE UNCHANGED vars
  BY <1>8 DEF vars, TypeOK
<1> QED  BY <1>1, <1>2, <1>3, <1>4, <1>5, <1>6, <1>7, <1>8 DEF Next, Step

\* Every step preserves the order of the queue and the numbers of the outbox.
LEMMA FabricInvStep == TypeOK /\ FabricInv /\ [Next]_vars => FabricInv'
<1> SUFFICES ASSUME TypeOK, FabricInv, [Next]_vars, TypeOK' PROVE FabricInv'
  BY FabricTypes
<1> USE DEF edges, queues, netVars
<1>0. /\ sent \in Nat /\ Len(outbox) \in Nat /\ Given \in Int
      /\ inflight \in Seq(Messages) /\ pending \in Seq(Messages)
  BY DEF TypeOK, Given
<1>1. CASE BeginStep /\ UNCHANGED <<sent, delivered>>
  <2>1. pending = <<>> /\ pending' = Aged(inflight) /\ inflight' = <<>> /\ UNCHANGED <<outbox, sent>>
    BY <1>1 DEF BeginStep, TypeOK
  <2>2. QueueInv(<<>>, Aged(inflight), Given)
    BY <1>0, <2>1, SwapKeepsOrder DEF FabricInv
  <2> QED  BY <2>1, <2>2 DEF FabricInv, Given
<1>2. CASE KeepWaiting /\ UNCHANGED <<sent, delivered>>
  <2>1. /\ pending # <<>> /\ Head(pending).due > 0
        /\ inflight' = Append(inflight, Head(pending)) /\ pending' = Tail(pending)
        /\ UNCHANGED <<outbox, sent>>
    BY <1>2 DEF KeepWaiting
  <2>2. QueueInv(Append(inflight, Head(pending)), Tail(pending), Given)
    BY <1>0, <2>1, KeepKeepsOrder DEF FabricInv
  <2> QED  BY <2>1, <2>2 DEF FabricInv, Given
<1>3. CASE UNCHANGED <<inflight, pending, outbox, sent>>
  BY <1>3 DEF FabricInv, Given
<1>4. CASE Deliver
  <2> DEFINE env == Head(pending).env
  <2>1. PICK dests \in Outs(env.to) : DeliverDue(Sealed(env.to, dests)) /\ Call(dests)
    BY <1>4 DEF Deliver
  <2>2. /\ pending # <<>> /\ outbox = <<>> /\ outbox' = Sealed(env.to, dests)
        /\ pending' = Tail(pending) /\ inflight' = inflight
        /\ sent' = sent + Len(dests) /\ sent + Len(dests) <= MaxSent
    BY <2>1 DEF DeliverDue, Call
  <2>3. env.to \in Node
    BY <1>0, <2>2, TailFacts, MessageFields
  <2>4. /\ Len(outbox') = Len(dests) /\ Len(dests) \in Nat /\ DOMAIN outbox' = 1..Len(dests)
        /\ \A k \in DOMAIN outbox' : outbox'[k].seq = sent + k
    BY <1>0, <2>2, <2>3, SealedFacts
  <2>5. Given = sent /\ Given' = sent
    BY <1>0, <2>2, <2>4 DEF Given
  <2>6. QueueInv(inflight, Tail(pending), Given)
    BY <1>0, <2>2, DeliveryKeepsOrder DEF FabricInv
  <2> QED  BY <2>2, <2>4, <2>5, <2>6 DEF FabricInv
<1>5. CASE Tick
  <2>1. PICK dests \in Outs(turn) : TickNode(Sealed(turn, dests)) /\ Call(dests)
    BY <1>5 DEF Tick
  <2>2. /\ turn \in Node /\ outbox = <<>> /\ outbox' = Sealed(turn, dests)
        /\ UNCHANGED <<inflight, pending>>
        /\ sent' = sent + Len(dests) /\ sent + Len(dests) <= MaxSent
    BY <2>1 DEF TickNode, Call
  <2>3. /\ Len(outbox') = Len(dests) /\ Len(dests) \in Nat /\ DOMAIN outbox' = 1..Len(dests)
        /\ \A k \in DOMAIN outbox' : outbox'[k].seq = sent + k
    BY <1>0, <2>2, SealedFacts
  <2>4. Given = sent /\ Given' = sent
    BY <1>0, <2>2, <2>3 DEF Given
  <2> QED  BY <2>2, <2>3, <2>4 DEF FabricInv
<1>6. CASE Enqueue
  <2>1. /\ outbox # <<>> /\ outbox' = Tail(outbox) /\ pending' = pending /\ sent' = sent
        /\ \/ inflight' = inflight
           \/ \E m \in Messages : inflight' = Append(inflight, m) /\ Scheduled(Head(outbox), m)
    BY <1>6, EnqueueFacts
  <2>2. /\ Head(outbox) = outbox[1] /\ 1 \in DOMAIN outbox /\ Len(outbox') = Len(outbox) - 1
        /\ \A k \in DOMAIN outbox' : /\ k + 1 \in DOMAIN outbox /\ outbox'[k] = outbox[k + 1]
                                    /\ k \in Nat
    BY <2>1, TailFacts DEF TypeOK
  <2>3. Given' = Given + 1 /\ Head(outbox).seq = Given + 1
    BY <1>0, <2>1, <2>2 DEF Given, FabricInv
  <2>4. \A k \in DOMAIN outbox' : outbox'[k].seq = Given' + k
    BY <1>0, <2>2, <2>3 DEF FabricInv
  <2>5. CASE inflight' = inflight
    BY <1>0, <2>1, <2>3, <2>4, <2>5, DropKeepsOrder DEF FabricInv
  <2>6. ASSUME NEW m \in Messages, inflight' = Append(inflight, m), Scheduled(Head(outbox), m)
        PROVE  FabricInv'
    <3>1. m.due = m.delay /\ m.env.seq = Given + 1
      BY <2>3, <2>6 DEF Scheduled
    <3>2. QueueInv(Append(inflight, m), pending, Given + 1)
      BY <1>0, <3>1, ScheduleKeepsOrder DEF FabricInv
    <3> QED  BY <2>1, <2>3, <2>4, <2>6, <3>2 DEF FabricInv
  <2> QED  BY <2>1, <2>5, <2>6
<1>7. CASE Inject
  BY <1>3, <1>7 DEF Inject, Fault, CutLink, HealLink, CorruptLink, CleanLink, SetLatency
<1>8. CASE EndStep /\ UNCHANGED <<sent, delivered>>
  BY <1>3, <1>8 DEF EndStep
<1>9. CASE UNCHANGED vars
  BY <1>3, <1>9 DEF vars
<1> QED  BY <1>1, <1>2, <1>4, <1>5, <1>6, <1>7, <1>8, <1>9 DEF Next, Step

-----------------------------------------------------------------------------
\* The fabric starts empty.
LEMMA FabricInit == Init => TypeOK /\ FabricInv
<1> SUFFICES ASSUME Init PROVE TypeOK /\ FabricInv
  OBVIOUS
<1>1. \A e \in Edge : DefaultDelay(e) \in Nat
  BY NetworkAssumption DEF DefaultDelay
<1>2. latency \in [Edge -> Nat]
  BY <1>1 DEF Init, NetInit
<1>3. TypeOK
  <2>1. 1 \in 1..(N + 1) /\ 0 \in 0..MaxFaults /\ 0 \in 0..MaxSent
    BY NetworkAssumption, FabricAssumption
  <2>2. <<>> \in Seq(Messages) /\ <<>> \in Seq(Envelopes)
    OBVIOUS
  <2> QED  BY <1>2, <2>1, <2>2 DEF Init, NetInit, TypeOK
<1>4. FabricInv
  BY <1>3 DEF Init, NetInit, FabricInv, QueueInv, Given
<1> QED  BY <1>3, <1>4

\* All state of the fabric is well typed, and its queue is ordered, in every run.
THEOREM FabricCorrect == Spec => []TypeOK /\ []FabricInv
<1>1. Init => TypeOK /\ FabricInv
  BY FabricInit
<1>2. TypeOK /\ FabricInv /\ [Next]_vars => TypeOK' /\ FabricInv'
  BY FabricTypes, FabricInvStep
<1> QED  BY <1>1, <1>2, PTL DEF Spec

\* The types alone: when Step returns its local queue and the outbox are used up.
THEOREM FabricTypesHold == Spec => []TypeOK
BY FabricCorrect, PTL

\* No message is handed over before its delay is over, and none after.
THEOREM FabricOnTime == Spec => []DeliveredOnTime
<1>1. TypeOK /\ FabricInv => DeliveredOnTime
  <2> SUFFICES ASSUME TypeOK, FabricInv, DueNow
               PROVE  LET m == Head(pending)
                      IN  m.delay - m.due = IF m.delay = 0 THEN 1 ELSE m.delay
    BY DEF DeliveredOnTime
  <2>1. /\ Head(pending) = pending[1] /\ 1 \in DOMAIN pending
        /\ Head(pending) \in Messages /\ Head(pending).due <= 0
    BY TailFacts DEF DueNow, TypeOK
  <2>2. Swapped(Head(pending))
    BY <2>1 DEF FabricInv, QueueInv
  <2> QED  BY <2>1, <2>2, MessageFields DEF Swapped
<1> QED  BY <1>1, FabricCorrect, PTL

\* Of two messages that go the same way the one sent first is handed over first.
THEOREM FabricNoOvertaking == Spec => []NoOvertaking
<1>1. TypeOK /\ FabricInv => NoOvertaking
  <2> DEFINE m == Head(pending)
  <2> SUFFICES ASSUME TypeOK, FabricInv, DueNow, NEW n \in UnderWay,
                      EdgeOf(n.env) = EdgeOf(m.env), n.delay = m.delay
               PROVE  m.env.seq <= n.env.seq
    BY DEF NoOvertaking
  <2>1. /\ m = pending[1] /\ 1 \in DOMAIN pending /\ DOMAIN pending = 1..Len(pending)
        /\ m \in Messages /\ m.due <= 0
    BY TailFacts DEF DueNow, TypeOK
  <2>2. Swapped(m) /\ m.due \in Int /\ m.delay \in Nat /\ m.env.seq \in Nat
    BY <2>1, MessageFields DEF FabricInv, QueueInv
  <2>3. ASSUME NEW k \in DOMAIN inflight, n = inflight[k] PROVE m.env.seq <= n.env.seq
    <3>1. InOrder(n, m) /\ Waiting(n)
      BY <2>1, <2>3 DEF FabricInv, QueueInv
    <3>2. n.due \in Int /\ n.env.seq \in Nat
      BY <2>3, MessageFields DEF TypeOK
    <3> QED  BY <2>1, <2>2, <3>1, <3>2 DEF InOrder, Waiting, Swapped
  <2>4. ASSUME NEW k \in DOMAIN pending, n = pending[k] PROVE m.env.seq <= n.env.seq
    <3>1. n.due \in Int /\ n.env.seq \in Nat
      BY <2>4, MessageFields DEF TypeOK
    <3>2. CASE k = 1
      BY <2>1, <2>2, <2>4, <3>2
    <3>3. CASE k # 1
      <4>1. 1 < k
        BY <2>1, <3>3 DEF TypeOK
      <4>2. InOrder(m, n) /\ Swapped(n)
        BY <2>1, <2>4, <4>1 DEF FabricInv, QueueInv
      <4> QED  BY <2>1, <2>2, <3>1, <4>2 DEF InOrder, Swapped
    <3> QED  BY <3>2, <3>3
  <2> QED  BY <2>3, <2>4 DEF UnderWay
<1> QED  BY <1>1, FabricCorrect, PTL

-----------------------------------------------------------------------------
\* One call of enqueue takes the envelope it is given or drops it.
LEMMA EnqueueGives == TypeOK /\ FabricInv /\ Enqueue => Abstract!Give
<1> SUFFICES ASSUME TypeOK, FabricInv, Enqueue PROVE Abstract!Give
  OBVIOUS
<1>1. /\ outbox # <<>> /\ outbox' = Tail(outbox)
      /\ \/ inflight' = inflight
         \/ \E m \in Messages : inflight' = Append(inflight, m) /\ Scheduled(Head(outbox), m)
      /\ UNCHANGED <<pending, sent, delivered>>
  BY EnqueueFacts
<1>2. /\ Head(outbox) = outbox[1] /\ 1 \in DOMAIN outbox
      /\ Len(outbox') = Len(outbox) - 1 /\ Len(outbox) \in Nat /\ sent \in Nat
  BY <1>1, TailFacts DEF TypeOK
<1>3. Given' = Given + 1 /\ Head(outbox).seq = Given + 1
  BY <1>1, <1>2 DEF Given, FabricInv
<1>4. CASE inflight' = inflight
  BY <1>1, <1>3, <1>4 DEF Abstract!Give, Carried, UnderWay
<1>5. ASSUME NEW m \in Messages, inflight' = Append(inflight, m), Scheduled(Head(outbox), m)
      PROVE  Abstract!Give
  <2>1. /\ DOMAIN inflight = 1..Len(inflight) /\ DOMAIN inflight' = 1..(Len(inflight) + 1)
        /\ Len(inflight) \in Nat /\ inflight'[Len(inflight) + 1] = m
        /\ \A k \in DOMAIN inflight : inflight'[k] = inflight[k]
    BY <1>5, AppendFacts DEF TypeOK
  <2>2. \A k \in DOMAIN inflight' : k \in DOMAIN inflight \/ k = Len(inflight) + 1
    BY <2>1
  <2>3. UnderWay' = UnderWay \cup {m}
    BY <1>1, <2>1, <2>2 DEF UnderWay
  <2>4. Carried' = Carried \cup {m.env.seq}
    BY <2>3 DEF Carried
  <2> QED  BY <1>1, <1>3, <1>5, <2>4 DEF Abstract!Give, Scheduled
<1> QED  BY <1>1, <1>4, <1>5

\* A delivery hands over the message at the head of what Step looks at, which is
\* under way nowhere else.
LEMMA DeliverHandsOver == TypeOK /\ FabricInv /\ Deliver => \E m \in Carried : Abstract!HandOver(m)
<1> SUFFICES ASSUME TypeOK, FabricInv, Deliver PROVE \E m \in Carried : Abstract!HandOver(m)
  OBVIOUS
<1> DEFINE h == Head(pending)
<1>1. PICK dests \in Outs(h.env.to) : DeliverDue(Sealed(h.env.to, dests)) /\ Call(dests)
  BY DEF Deliver
<1>2. /\ pending # <<>> /\ outbox = <<>> /\ outbox' = Sealed(h.env.to, dests)
      /\ pending' = Tail(pending) /\ inflight' = inflight
      /\ sent' = sent + Len(dests) /\ sent + Len(dests) <= MaxSent
      /\ delivered' = delivered \cup {h.env.seq}
  BY <1>1 DEF DeliverDue, Call, Deliver
<1>3. /\ sent \in Nat /\ inflight \in Seq(Messages) /\ pending \in Seq(Messages)
  BY DEF TypeOK
<1>4. /\ h = pending[1] /\ 1 \in DOMAIN pending /\ DOMAIN pending = 1..Len(pending)
      /\ Len(pending) \in Nat /\ DOMAIN Tail(pending) = 1..(Len(pending) - 1)
      /\ \A k \in DOMAIN Tail(pending) : k + 1 \in DOMAIN pending /\ Tail(pending)[k] = pending[k + 1]
      /\ h.env.to \in Node
  BY <1>2, <1>3, TailFacts, MessageFields
<1>5. Len(outbox') = Len(dests) /\ Len(dests) \in Nat
  BY <1>2, <1>3, <1>4, SealedFacts
<1>6. Given' = Given
  BY <1>2, <1>3, <1>5 DEF Given
<1>7. UnderWay = UnderWay' \cup {h}
  <2>1. \A k \in DOMAIN pending : k = 1 \/ k - 1 \in DOMAIN Tail(pending)
    BY <1>4
  <2>2. \A k \in DOMAIN pending : k = 1 \/ pending[k] = Tail(pending)[k - 1]
    BY <1>4, <2>1
  <2>3. {pending[k] : k \in DOMAIN pending} =
          {Tail(pending)[k] : k \in DOMAIN Tail(pending)} \cup {h}
    BY <1>4, <2>1, <2>2
  <2> QED  BY <1>2, <2>3 DEF UnderWay
<1>8. \A n \in UnderWay' : n.env.seq # h.env.seq
  <2>1. \A k \in DOMAIN inflight : inflight[k].env.seq # h.env.seq
    BY <1>4 DEF FabricInv, QueueInv, InOrder
  <2>2. \A k \in DOMAIN Tail(pending) : 1 < k + 1
    BY <1>4
  <2>3. \A k \in DOMAIN Tail(pending) : Tail(pending)[k].env.seq # h.env.seq
    BY <1>4, <2>2 DEF FabricInv, QueueInv, InOrder
  <2> QED  BY <1>2, <2>1, <2>3 DEF UnderWay
<1>9. Carried' = Carried \ {h.env.seq} /\ h.env.seq \in Carried
  BY <1>7, <1>8 DEF Carried
<1> QED  BY <1>2, <1>6, <1>9 DEF Abstract!HandOver

\* Every other step leaves the promise alone: Step only moves what is under way.
LEMMA OthersStutter ==
  ASSUME TypeOK,
         \/ (BeginStep \/ KeepWaiting \/ EndStep) /\ UNCHANGED <<sent, delivered>>
         \/ Tick \/ Inject \/ UNCHANGED vars
  PROVE  UNCHANGED Abstract!vars
<1> USE DEF edges, queues, netVars
<1>0. inflight \in Seq(Messages) /\ pending \in Seq(Messages) /\ sent \in Nat
  BY DEF TypeOK
<1>1. CASE UNCHANGED <<inflight, pending, outbox, sent, delivered>>
  BY <1>1 DEF Abstract!vars, Given, Carried, UnderWay
<1>2. CASE BeginStep /\ UNCHANGED <<sent, delivered>>
  <2>1. pending = <<>> /\ pending' = Aged(inflight) /\ inflight' = <<>> /\ outbox' = outbox
    BY <1>2 DEF BeginStep, TypeOK
  <2>2. DOMAIN <<>> = {}
    OBVIOUS
  <2>3. Carried = {inflight[k].env.seq : k \in DOMAIN inflight}
    BY <2>1, <2>2 DEF Carried, UnderWay
  <2>4. Carried' = {Aged(inflight)[k].env.seq : k \in DOMAIN Aged(inflight)}
    BY <2>1, <2>2 DEF Carried, UnderWay
  <2>5. /\ DOMAIN Aged(inflight) = DOMAIN inflight
        /\ \A k \in DOMAIN inflight : Aged(inflight)[k].env.seq = inflight[k].env.seq
    BY <1>0, AgedFacts
  <2>6. Carried' = Carried
    BY <2>3, <2>4, <2>5
  <2> QED  BY <1>2, <2>1, <2>6 DEF Abstract!vars, Given
<1>3. CASE KeepWaiting /\ UNCHANGED <<sent, delivered>>
  <2> DEFINE h == Head(pending)
  <2>1. /\ pending # <<>> /\ inflight' = Append(inflight, h) /\ pending' = Tail(pending)
        /\ outbox' = outbox
    BY <1>3 DEF KeepWaiting
  <2>2. /\ h = pending[1] /\ 1 \in DOMAIN pending /\ h \in Messages
        /\ DOMAIN pending = 1..Len(pending) /\ Len(pending) \in Nat
        /\ DOMAIN pending' = 1..(Len(pending) - 1)
        /\ \A k \in DOMAIN pending' : k + 1 \in DOMAIN pending /\ pending'[k] = pending[k + 1]
    BY <1>0, <2>1, TailFacts
  <2>3. /\ DOMAIN inflight = 1..Len(inflight) /\ DOMAIN inflight' = 1..(Len(inflight) + 1)
        /\ Len(inflight) \in Nat /\ inflight'[Len(inflight) + 1] = h
        /\ \A k \in DOMAIN inflight : inflight'[k] = inflight[k]
    BY <1>0, <2>1, <2>2, AppendFacts
  <2>4. \A k \in DOMAIN pending : k = 1 \/ k - 1 \in DOMAIN pending'
    BY <2>2
  <2>5. \A k \in DOMAIN pending : k = 1 \/ pending[k] = pending'[k - 1]
    BY <2>2, <2>4
  <2>6. {pending[k] : k \in DOMAIN pending} = {pending'[k] : k \in DOMAIN pending'} \cup {h}
    BY <2>2, <2>4, <2>5
  <2>7. \A k \in DOMAIN inflight' : k \in DOMAIN inflight \/ k = Len(inflight) + 1
    BY <2>3
  <2>8. {inflight'[k] : k \in DOMAIN inflight'} = {inflight[k] : k \in DOMAIN inflight} \cup {h}
    BY <2>3, <2>7
  <2>9. UnderWay' = UnderWay
    BY <2>6, <2>8 DEF UnderWay
  <2> QED  BY <1>3, <2>1, <2>9 DEF Abstract!vars, Given, Carried
<1>4. CASE EndStep /\ UNCHANGED <<sent, delivered>>
  BY <1>1, <1>4 DEF EndStep
<1>5. CASE Tick
  <2>1. PICK dests \in Outs(turn) : TickNode(Sealed(turn, dests)) /\ Call(dests)
    BY <1>5 DEF Tick
  <2>2. /\ turn \in Node /\ outbox = <<>> /\ outbox' = Sealed(turn, dests)
        /\ UNCHANGED <<inflight, pending, delivered>>
        /\ sent' = sent + Len(dests) /\ sent + Len(dests) <= MaxSent
    BY <1>5, <2>1 DEF TickNode, Call, Tick
  <2>3. Len(outbox') = Len(dests) /\ Len(dests) \in Nat
    BY <1>0, <2>2, SealedFacts
  <2>4. Given' = Given
    BY <1>0, <2>2, <2>3 DEF Given
  <2> QED  BY <2>2, <2>4 DEF Abstract!vars, Carried, UnderWay
<1>6. CASE Inject
  BY <1>1, <1>6 DEF Inject, Fault, CutLink, HealLink, CorruptLink, CleanLink, SetLatency
<1>7. CASE UNCHANGED vars
  BY <1>1, <1>7 DEF vars
<1> QED  BY <1>2, <1>3, <1>4, <1>5, <1>6, <1>7

\* The fabric implements Carrier: whatever Step does to its queue, what enqueue has
\* taken is carried until it is handed over, and handed over once.
THEOREM FabricCarries == Spec => CarriesOrDrops
<1>1. Init => Abstract!Init
  <2> SUFFICES ASSUME Init PROVE Abstract!Init
    OBVIOUS
  <2>1. inflight = <<>> /\ pending = <<>> /\ outbox = <<>> /\ sent = 0 /\ delivered = {}
    BY DEF Init, NetInit
  <2>2. DOMAIN <<>> = {}
    OBVIOUS
  <2>3. UnderWay = {}
    <3>1. DOMAIN inflight = {} /\ DOMAIN pending = {}
      BY <2>1, <2>2
    <3> QED  BY <3>1 DEF UnderWay
  <2>4. Carried = {}
    BY <2>3 DEF Carried
  <2>5. Given = 0
    <3>1. Len(<<>>) = 0
      OBVIOUS
    <3>2. Len(outbox) = 0
      BY <2>1, <3>1
    <3>3. sent = 0
      BY <2>1
    <3> QED  BY <3>2, <3>3 DEF Given
  <2> QED  BY <2>1, <2>4, <2>5 DEF Abstract!Init
<1>2. TypeOK /\ FabricInv /\ [Next]_vars => [Abstract!Next]_(Abstract!vars)
  <2> SUFFICES ASSUME TypeOK, FabricInv, [Next]_vars
               PROVE  Abstract!Next \/ UNCHANGED Abstract!vars
    OBVIOUS
  <2>1. CASE Enqueue
    BY <2>1, EnqueueGives DEF Abstract!Next
  <2>2. CASE Deliver
    BY <2>2, DeliverHandsOver DEF Abstract!Next
  <2>3. CASE \/ (BeginStep \/ KeepWaiting \/ EndStep) /\ UNCHANGED <<sent, delivered>>
             \/ Tick \/ Inject \/ UNCHANGED vars
    BY <2>3, OthersStutter
  <2> QED  BY <2>1, <2>2, <2>3 DEF Next, Step
<1> QED  BY <1>1, <1>2, FabricCorrect, PTL DEF Spec, CarriesOrDrops, Abstract!Spec
=============================================================================
