------------------------------ MODULE LossyFifo ------------------------------
(***************************************************************************)
(* What a directed edge of the fabric promises to the consensus node at its   *)
(* far end: every message arrives as it was sent, once, and after all those   *)
(* sent before it that arrive; any message may be lost.  Messages are          *)
(* numbered in the order in which they are sent.                              *)
(***************************************************************************)
EXTENDS Naturals, Sequences

VARIABLES sent,     \* how many messages were sent
          pending,  \* those that may still arrive
          arrived   \* those that have arrived, in order of arrival

vars == <<sent, pending, arrived>>

Init == sent = 0 /\ pending = {} /\ arrived = <<>>

Send ==
  /\ sent' = sent + 1
  /\ pending' \in {pending, pending \cup {sent'}}
  /\ UNCHANGED arrived

\* An arrival overtakes whatever was sent before it and is still pending.
Arrive(m) ==
  /\ m \in pending
  /\ pending' = {n \in pending : n > m}
  /\ arrived' = Append(arrived, m)
  /\ UNCHANGED sent

Next == Send \/ \E m \in pending : Arrive(m)

Spec == Init /\ [][Next]_vars

-----------------------------------------------------------------------------
\* Nothing arrives that was not sent, nothing arrives twice, and nothing arrives
\* after what was sent later.
InOrder ==
  /\ \A k \in DOMAIN arrived : arrived[k] \in 1..sent
  /\ \A k, l \in DOMAIN arrived : k < l => arrived[k] < arrived[l]
=============================================================================
