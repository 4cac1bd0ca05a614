-------------------------- MODULE MCElectionTimer --------------------------
(***************************************************************************)
(* ElectionTimer for TLC: the peers may be exchanged.                         *)
(***************************************************************************)
EXTENDS ElectionTimer, TLC

Sym == Permutations(Peer)
=============================================================================
