------------------------------ MODULE Carrier ------------------------------
(***************************************************************************)
(* What the fabric promises: of the envelopes it is given, numbered in that   *)
(* order, it takes some to carry, and hands each of these over once.  The      *)
(* order of delivery is the transcript's affair (module Transcript).           *)
(***************************************************************************)
EXTENDS Naturals

VARIABLES given,     \* how many envelopes the nodes have given to the fabric
          carried,   \* those it has taken and not yet handed over
          delivered  \* those it has handed over

vars == <<given, carried, delivered>>

Init == given = 0 /\ carried = {} /\ delivered = {}

Give ==
  /\ given' = given + 1
  /\ carried' \in {carried, carried \cup {given'}}
  /\ UNCHANGED delivered

HandOver(m) ==
  /\ m \in carried
  /\ carried' = carried \ {m}
  /\ delivered' = delivered \cup {m}
  /\ UNCHANGED given

Next == Give \/ \E m \in carried : HandOver(m)

Spec == Init /\ [][Next]_vars
=============================================================================
