------------------------------- MODULE MCRaft -------------------------------
(***************************************************************************)
(* Raft for TLC: which nodes may be exchanged, and which variables a state    *)
(* is told apart by.                                                          *)
(***************************************************************************)
EXTENDS RaftInvariants, TLC

Sym == {p \in Permutations(Node) : {p[d] : d \in Deaf} = Deaf}

\* Once a majority was heard, it does not matter who else is until the next check.
Heard(i) == IF HasHeardFromQuorum(i) THEN Node ELSE heardFrom[i]

\* A tally or a progress table that the code always resets before it next reads
\* it does not tell states apart: the poll outside a poll, the votes outside a
\* campaign or the term it won, a leader's tables on any other node, and in
\* baseline mode, which has no CheckQuorum, who was heard from.
LiveState ==
  [i \in Node |->
     <<IF Mode # "baseline" THEN leaderID[i] ELSE None,
       IF role[i] = "precandidate" THEN preVotes[i] ELSE {},
       IF role[i] \in {"candidate", "leader"} THEN votes[i] ELSE {},
       IF role[i] = "leader" /\ Mode # "baseline" THEN Heard(i) ELSE {},
       IF role[i] = "leader" THEN <<nextIndex[i], matchIndex[i]>> ELSE <<>>>>]

View == <<role, currentTerm, votedFor, logVars, net, elected, forgotten, LiveState>>

\* Bounds of the run with polls: one poll at a time and none for a term that no campaign
\* may reach, and nothing further once a vote was forgotten twice or a third election won.
FewElections ==
  /\ Cardinality({i \in Node : role[i] = "precandidate"}) <= 1
  /\ \A i \in Node : role[i] = "precandidate" => currentTerm[i] < MaxTerm
  /\ Cardinality(forgotten) <= 1
  /\ Cardinality(elected) <= 2
=============================================================================
