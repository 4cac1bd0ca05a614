------------------------------- MODULE Network -------------------------------
(***************************************************************************)
(* The fabric of internal/sim/network.go: the queue of messages under way,    *)
(* the faults, and the loop of Step.  A node is a black box here: a call of    *)
(* its Deliver or Tick returns the envelopes `out`, and modules that extend    *)
(* this one say which.  One step is one iteration of a loop of Step, one call   *)
(* of enqueue, or one fault; faults are injected between two calls of Step.    *)
(*                                                                           *)
(* Only the difference of a message's dueTick and the network's tick decides   *)
(* anything, so `due` is that difference and no tick is kept.                  *)
(***************************************************************************)
EXTENDS Integers, Sequences, FiniteSets

CONSTANTS
  N,           \* the nodes are 1..N, in the order of their identifiers
  Aws,         \* the nodes in one cloud; the others are in the other one
  BaseDelay,   \* Options: ticks for a hop within a cloud
  CrossDelay,  \* Options: additional ticks for a hop between the clouds
  MaxFaults    \* bound: faults injected and removed in a run

Node == 1..N
Edge == {e \in Node \X Node : e[1] # e[2]}
Peers(i) == Node \ {i}

ASSUME NetworkAssumption ==
  /\ N \in Nat \ {0} /\ Aws \subseteq Node
  /\ BaseDelay \in Nat \ {0} /\ CrossDelay \in Nat /\ MaxFaults \in Nat

VARIABLES
  inflight,  \* the queue: [env, due, via, delay], delay being what due began as
  pending,   \* what Step has swapped out of the queue and not yet looked at
  outbox,    \* what the last node called has returned and is not yet enqueued
  stepping,  \* Step is running
  turn,      \* the node that Step lets run next
  down, corrupt, latency,
  faults     \* how many faults were injected or removed

queues == <<inflight, pending, outbox>>
edges == <<down, corrupt, latency>>
netVars == <<queues, stepping, turn, edges, faults>>

NoRelay == 0  \* the empty via of a direct delivery

\* delayFor before any SetLatency.
DefaultDelay(e) == IF (e[1] \in Aws) = (e[2] \in Aws)
                   THEN BaseDelay ELSE BaseDelay + CrossDelay

NetInit ==
  /\ inflight = <<>> /\ pending = <<>> /\ outbox = <<>>
  /\ stepping = FALSE /\ turn = 1
  /\ down = {} /\ corrupt = {}
  /\ latency = [e \in Edge |-> DefaultDelay(e)]
  /\ faults = 0

-----------------------------------------------------------------------------
\* Step: the tick advances and the queue is swapped out.
Aged(queue) == [k \in DOMAIN queue |-> [queue[k] EXCEPT !.due = @ - 1]]

\* Mutant of BeginStep: the queue is copied instead of swapped out.
BeginStepCopied ==
  /\ ~stepping
  /\ stepping' = TRUE
  /\ pending' = Aged(inflight)
  /\ UNCHANGED <<inflight, outbox, turn, edges, faults>>

BeginStep ==
  /\ ~stepping
  /\ stepping' = TRUE
  /\ pending' = Aged(inflight)
  /\ inflight' = <<>>
  /\ UNCHANGED <<outbox, turn, edges, faults>>

\* Mutant of KeepWaiting: messages that are not due yet are put back in front of
\* the replies.
KeepWaitingInFront ==
  /\ stepping /\ outbox = <<>>
  /\ pending # <<>> /\ Head(pending).due > 0
  /\ inflight' = <<Head(pending)>> \o inflight
  /\ pending' = Tail(pending)
  /\ UNCHANGED <<outbox, stepping, turn, edges, faults>>

\* Mutant of KeepWaiting: a message waits one Step too long.
KeepWaitingLonger ==
  /\ stepping /\ outbox = <<>>
  /\ pending # <<>> /\ Head(pending).due >= 0
  /\ inflight' = Append(inflight, Head(pending))
  /\ pending' = Tail(pending)
  /\ UNCHANGED <<outbox, stepping, turn, edges, faults>>

\* A message that is not due goes back to the queue, behind the replies that the
\* messages before it have caused.
KeepWaiting ==
  /\ stepping /\ outbox = <<>>
  /\ pending # <<>> /\ Head(pending).due > 0
  /\ inflight' = Append(inflight, Head(pending))
  /\ pending' = Tail(pending)
  /\ UNCHANGED <<outbox, stepping, turn, edges, faults>>

\* A message is due: its destination handles it and answers with out.
DeliverDue(out) ==
  /\ stepping /\ outbox = <<>>
  /\ pending # <<>> /\ Head(pending).due <= 0
  /\ pending' = Tail(pending)
  /\ outbox' = out
  /\ UNCHANGED <<inflight, stepping, turn, edges, faults>>

\* Mutant of TickNode, the earlier version that the comment in Step tells of: the
\* messages still waiting are assigned back, and the replies are gone.
TickNodeAssigningBack(out) ==
  /\ stepping /\ outbox = <<>> /\ pending = <<>>
  /\ turn \in Node
  /\ turn' = turn + 1
  /\ outbox' = out
  /\ inflight' = IF turn = 1 THEN SelectSeq(inflight, LAMBDA m : m.due < m.delay) ELSE inflight
  /\ UNCHANGED <<pending, stepping, edges, faults>>

\* All that was due is delivered: the next node runs and emits out.
TickNode(out) ==
  /\ stepping /\ outbox = <<>> /\ pending = <<>>
  /\ turn \in Node
  /\ turn' = turn + 1
  /\ outbox' = out
  /\ UNCHANGED <<inflight, pending, stepping, edges, faults>>

EndStep ==
  /\ stepping /\ outbox = <<>> /\ pending = <<>>
  /\ turn = N + 1
  /\ stepping' = FALSE
  /\ turn' = 1
  /\ UNCHANGED <<queues, edges, faults>>

-----------------------------------------------------------------------------
\* enqueue, for the envelope at the head of the outbox.
EdgeOf(env) == <<env.from, env.to>>

Schedule(env, delay, via) ==
  /\ inflight' = Append(inflight, [env |-> env, due |-> delay, via |-> via, delay |-> delay])
  /\ outbox' = Tail(outbox)
  /\ UNCHANGED <<pending, stepping, turn, edges, faults>>

\* The direct path works; a corrupt edge rewrites the payload and delivers it.
EnqueueDirect ==
  /\ outbox # <<>>
  /\ LET env == Head(outbox)
         e == EdgeOf(env)
     IN  /\ e \notin down
         /\ Schedule([env EXCEPT !.intact = @ /\ e \notin corrupt], latency[e], NoRelay)

\* via can carry the message: both hops work now.
RelayWorks(env, via) ==
  /\ via \in Node \ {env.from, env.to}
  /\ {<<env.from, via>>, <<via, env.to>>} \cap down = {}

\* The direct path is down and via carries the message; nobody rewrites it.
EnqueueRelayed(via) ==
  /\ outbox # <<>>
  /\ LET env == Head(outbox)
     IN  /\ EdgeOf(env) \in down
         /\ RelayWorks(env, via)
         /\ Schedule(env, latency[<<env.from, via>>] + latency[<<via, env.to>>], via)

\* The direct path is down and no relay is found.
EnqueueDropped ==
  /\ outbox # <<>>
  /\ EdgeOf(Head(outbox)) \in down
  /\ outbox' = Tail(outbox)
  /\ UNCHANGED <<inflight, pending, stepping, turn, edges, faults>>

-----------------------------------------------------------------------------
\* Faults.  They leave what is under way alone.
Fault == ~stepping /\ faults < MaxFaults /\ faults' = faults + 1
         /\ UNCHANGED <<queues, stepping, turn>>

CutLink(e) ==
  Fault /\ e \notin down /\ down' = down \cup {e} /\ UNCHANGED <<corrupt, latency>>

HealLink(e) ==
  Fault /\ e \in down /\ down' = down \ {e} /\ UNCHANGED <<corrupt, latency>>

CorruptLink(e) ==
  Fault /\ e \notin corrupt /\ corrupt' = corrupt \cup {e} /\ UNCHANGED <<down, latency>>

CleanLink(e) ==
  Fault /\ e \in corrupt /\ corrupt' = corrupt \ {e} /\ UNCHANGED <<down, latency>>

SetLatency(e, ticks) ==
  Fault /\ latency' = [latency EXCEPT ![e] = ticks] /\ UNCHANGED <<down, corrupt>>
=============================================================================
