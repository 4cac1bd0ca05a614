---------------------------- MODULE MCRaftCommit ----------------------------
(***************************************************************************)
(* RaftCommit for TLC: the history tells states apart.                       *)
(***************************************************************************)
EXTENDS MCRaft, RaftCommit

\* Bound: nothing is followed beyond the commit of a second entry.
OneCommit == \A i \in Node : commitIndex[i] <= 1

CommitView == <<View, ledger, held, overclaimed>>
=============================================================================
