--------------------------- MODULE RaftInvariants ---------------------------
(***************************************************************************)
(* Why a term has one leader, as an inductive invariant, in every mode.       *)
(* ElectionSafety does not hold in every mode, and where it does it is not     *)
(* inductive: two majorities meet in a voter, and that voter must be shown to  *)
(* have backed one candidate although becomeFollower forgets votes within a    *)
(* term.  ElectionInv says this of every voter that did not forget one, and    *)
(* NeverForgets that in baseline mode nobody does.                             *)
(* And why logs match as long as no term has two leaders: what an AppendEntries *)
(* carries is a stretch of a log, and all stretches match, whether in a node or  *)
(* under way.                                                                  *)
(***************************************************************************)
EXTENDS Raft

\* v's vote for c in term t is on its way to c.
VoteUnderWay(v, c, t) ==
  \E n \in DOMAIN net[<<v, c>>] :
    LET m == net[<<v, c>>][n]
    IN  m.kind = "VoteResp" /\ ~m.preVote /\ m.granted /\ m.term = t

\* c has counted v's vote in the campaign or the leadership of term t.
VoteCounted(v, c, t) ==
  role[c] \in {"candidate", "leader"} /\ currentTerm[c] = t /\ v \in votes[c]

Voted(v, c, t) == VoteCounted(v, c, t) \/ VoteUnderWay(v, c, t)

\* The only terms t in which Voted(v, c, t) may hold.
VoteTerms(v, c) ==
  {currentTerm[c]} \cup {net[<<v, c>>][n].term : n \in DOMAIN net[<<v, c>>]}

\* v has kept the votes of term t that count.
Remembers(v, t) == <<v, t>> \notin forgotten

\* A node that campaigns or leads gave its own vote to itself (beginElection,
\* promoteToCandidate).
CandidateBacksItself ==
  \A i \in Node : role[i] \in {"candidate", "leader"} => votedFor[i] = i /\ i \in votes[i]

\* A vote that another node has, or is about to get, is of a term that the voter has
\* reached, and the voter still names that node while the term lasts, unless it forgot
\* (handleVoteReq).
VoteBinds ==
  \A v \in Node : \A c \in Peers(v) : \A t \in VoteTerms(v, c) : Voted(v, c, t) =>
    /\ t <= currentTerm[v]
    /\ currentTerm[v] = t /\ Remembers(v, t) => votedFor[v] = c

\* Nobody who remembers backs two other nodes in one term (handleVoteReq).
OneVote ==
  \A v \in Node : \A c, d \in Peers(v) : \A t \in VoteTerms(v, c) :
    Remembers(v, t) /\ Voted(v, c, t) /\ Voted(v, d, t) => c = d

\* The voters of an election are a majority with the winner among them
\* (handleVoteResp).
ElectedByQuorum == \A e \in elected : IsQuorum(e.voters) /\ e.leader \in e.voters

\* An election binds its voters: none is behind its term; while that lasts, whoever
\* remembers still votes for the winner, and the winner leads; and no vote of theirs in
\* that term goes elsewhere, then or later.
ElectionBinds ==
  \A e \in elected : \A v \in e.voters :
    /\ e.term <= currentTerm[v]
    /\ Remembers(v, e.term) =>
         /\ currentTerm[v] = e.term => votedFor[v] = e.leader
         /\ currentTerm[v] = e.term /\ v = e.leader => role[v] = "leader"
         /\ \A d \in Peers(v) : Voted(v, d, e.term) => d = e.leader

\* Who has won a term does not campaign in it again (beginElection, promoteToCandidate:
\* each campaign has a new term).
WonOnce ==
  \A e \in elected : currentTerm[e.leader] = e.term => role[e.leader] # "candidate"

\* Only the winner of an election sends AppendEntries in its term (becomeLeader,
\* broadcastAppend).
AppendsComeFromElected ==
  \A i \in Node : \A j \in Peers(i) : \A n \in DOMAIN net[<<i, j>>] :
    net[<<i, j>>][n].kind = "AppendReq" =>
      \E e \in elected : e.leader = i /\ e.term = net[<<i, j>>][n].term

\* A node that leads won the election of its term (becomeLeader).
LeaderWasElected ==
  \A i \in Node : role[i] = "leader" =>
    \E e \in elected : e.leader = i /\ e.term = currentTerm[i]

ElectionInv ==
  /\ CandidateBacksItself
  /\ VoteBinds
  /\ OneVote
  /\ ElectedByQuorum
  /\ ElectionBinds
  /\ WonOnce
  /\ AppendsComeFromElected
  /\ LeaderWasElected
  /\ OnlyForgottenVotesSplit

\* In baseline mode nobody polls (beginElection), and nobody forgets a vote that counts:
\* becomeFollower clears it within a term only for candidates, whose vote is their own.
NeverForgets ==
  Mode = "baseline" => forgotten = {} /\ \A i \in Node : role[i] # "precandidate"
-----------------------------------------------------------------------------
\* A whole log, in the form in which AppendEntries carries a stretch of one: some
\* entries, and the index and the term of the entry before them.
Whole(l) == [prevIndex |-> 0, prevTerm |-> 0, entries |-> l]

Stretches ==
  {Whole(log[i]) : i \in Node} \cup
  {m \in UNION {{net[c][n] : n \in DOMAIN net[c]} : c \in Channel} : m.kind = "AppendReq"}

\* The indexes whose entries s has, the entry it has there, and the term it knows
\* there or just before.
Covered(s) == (s.prevIndex + 1)..(s.prevIndex + Len(s.entries))

EntryAt(s, n) == s.entries[n - s.prevIndex]

TermIn(s, n) == IF n = s.prevIndex THEN s.prevTerm ELSE EntryAt(s, n).term

\* Where two stretches have entries of one term at one index, they are the same up
\* to there, as far as both reach back.
Agree(s, t) ==
  \A n \in Covered(s) \cap Covered(t) : EntryAt(s, n).term = EntryAt(t, n).term =>
    \A k \in 0..n :
      /\ k \in Covered(s) \cap Covered(t) => EntryAt(s, k) = EntryAt(t, k)
      /\ k >= s.prevIndex /\ k >= t.prevIndex => TermIn(s, k) = TermIn(t, k)

StretchesAgree == \A s, t \in Stretches : Agree(s, t)

\* An entry's term is one whose election was won (Node.Propose).
EntriesElected ==
  \A s \in Stretches : \A n \in Covered(s) :
    \E e \in elected : e.term = EntryAt(s, n).term

\* Whoever leads a term has all its entries (Log.Append, handleAppendReq).
LeaderHoldsTerm ==
  \A i \in Node : role[i] = "leader" =>
    \A s \in Stretches : \A n \in Covered(s) :
      EntryAt(s, n).term = currentTerm[i] => n <= Len(log[i])

\* Logs match, wherever they are: LogMatching of nodes alone is not inductive, since
\* a delayed AppendEntries is spliced into whatever its receiver has by then.
LogInv == StretchesAgree /\ EntriesElected /\ LeaderHoldsTerm
=============================================================================
