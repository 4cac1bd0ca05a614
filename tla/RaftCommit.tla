----------------------------- MODULE RaftCommit -----------------------------
(***************************************************************************)
(* What is committed stays committed: Raft with the history that this takes to *)
(* say.  The code has two ways to lose a committed entry, and they are set      *)
(* apart here: two leaders of one term (raft_forgotten_vote), and a follower    *)
(* that reports a match index beyond what the request covered                   *)
(* (raft_stale_tail).  Unharmed says that neither has happened; CommitInv is    *)
(* the inductive invariant of the runs that are.                               *)
(***************************************************************************)
EXTENDS RaftInvariants

VARIABLES
  ledger,      \* history: for each term won, the log of its leader, as far as it got
  held,        \* history: <<n, t>> in held[i]: in term t, i had an entry of t at index n
  overclaimed  \* history: a follower reported entries to its leader that were neither
               \* in the request nor of the leader's term

commitVars == <<vars, ledger, held, overclaimed>>

Won == {e.term : e \in elected}

Leading(i, t) == role[i] = "leader" /\ currentTerm[i] = t

CommitInit ==
  /\ Init
  /\ ledger = [t \in {} |-> <<>>]
  /\ held = [i \in Node |-> {}]
  /\ overclaimed = FALSE

\* i reports the end of its log to leader j (handleAppendReq), and there the log is
\* longer than what the request covers and does not end with an entry of j's.
Overclaims(i, j) ==
  /\ Arrives(i, j, "AppendReq")
  /\ LET m == Head(net[<<j, i>>])
     IN  /\ m.term >= currentTerm[i]
         /\ Matches(log[i], m.prevIndex, m.prevTerm)
         /\ Len(log'[i]) > m.prevIndex + Len(m.entries)
         /\ LastTerm(log'[i]) # m.term
  /\ HandleAppendReq(i, j)

\* Written by no code: the history.
RecordCommit ==
  /\ ledger' = [t \in Won' |->
                  IF \E i \in Node : Leading(i, t)'
                  THEN log'[CHOOSE i \in Node : Leading(i, t)']
                  ELSE ledger[t]]
  /\ held' = [i \in Node |-> held[i] \cup
                {<<n, currentTerm'[i]>> :
                   n \in {k \in DOMAIN log'[i] : log'[i][k].term = currentTerm'[i]}}]
  /\ overclaimed' = (overclaimed \/ \E i \in Node : \E j \in Peers(i) : Overclaims(i, j))

CommitNext == Next /\ RecordCommit

CommitSpec == CommitInit /\ [][CommitNext]_commitVars

-----------------------------------------------------------------------------
Unharmed == ElectionSafety /\ ~overclaimed

\* Committed logs agree: of two nodes that have both committed an index, both have an
\* entry there, and the same one (advanceCommit, handleAppendReq), unless one of the
\* two defects has struck.
CommittedAgree ==
  Unharmed => \A i, j \in Node : \A n \in 1..Min2(commitIndex[i], commitIndex[j]) :
    n \in DOMAIN log[i] \cap DOMAIN log[j] /\ log[i][n] = log[j][n]

\* Whoever leads has in its log everything that a node of its term, or of an earlier
\* one, has committed (handleVoteReq), unless one of the two defects has struck.
LeadersHoldCommitted ==
  Unharmed => \A i, j \in Node : role[i] = "leader" /\ currentTerm[j] <= currentTerm[i] =>
    \A n \in 1..commitIndex[j] :
      n \in DOMAIN log[i] \cap DOMAIN log[j] /\ log[i][n] = log[j][n]

\* No node takes a commit back, or drops or rewrites a committed entry of its log
\* (handleAppendReq), unless one of the two defects has struck.
CommittedKept ==
  [][Unharmed' => \A i \in Node :
       /\ commitIndex[i] <= commitIndex'[i]
       /\ \A n \in 1..commitIndex[i] : n \in DOMAIN log'[i] /\ log'[i][n] = log[i][n]
    ]_commitVars

-----------------------------------------------------------------------------
\* The history is a parameter of what is said about it, so that it can be taken before a
\* step or after it: led is a ledger, had[i] what i has held.

Holds(l, n, t) == n \in DOMAIN l /\ l[n].term = t

\* A majority had the entry of term t at index n while it was in term t.
Chosen(had, n, t) == IsQuorum({i \in Node : <<n, t>> \in had[i]})

\* Some leader after term t, up to term u, did not have that entry.
Overruled(led, n, t, u) ==
  \E w \in DOMAIN led : t < w /\ w <= u /\ ~Holds(led[w], n, t)

\* With each entry, a log has the entry's ledger up to there (handleAppendReq).
FromLedger(led, l, bound) ==
  \A n \in DOMAIN l :
    LET t == l[n].term
    IN  /\ t \in DOMAIN led /\ t <= bound
        /\ n \in DOMAIN led[t] /\ \A k \in 1..n : l[k] = led[t][k]

\* Up to index c, l is what a majority had at some time up to term u.
Committed(led, had, l, c, u) ==
  c = 0 \/ \E t \in DOMAIN led : \E n \in DOMAIN led[t] :
    /\ t <= u /\ Chosen(had, n, t) /\ c <= n
    /\ c <= Len(l) /\ \A k \in 1..c : l[k] = led[t][k]

\* An AppendEntries is a part of the ledger of its term with what follows it up to the
\* end, or begins beyond the end and matches no log (broadcastAppend).
RequestFromLedger(led, had, m) ==
  /\ m.term \in DOMAIN led
  /\ LET l == led[m.term]
     IN  \/ m.prevIndex > 0 /\ m.prevTerm = 0
         \/ /\ m.prevIndex <= Len(l) /\ m.prevTerm = TermAt(l, m.prevIndex)
            /\ \A k \in DOMAIN m.entries :
                 m.prevIndex + k \in DOMAIN l /\ m.entries[k] = l[m.prevIndex + k]
            /\ m.leaderCommit <= m.prevIndex + Len(m.entries)
            /\ Committed(led, had, l, m.leaderCommit, m.term)

\* What a node held before term u is in l, unless a later leader lacked it.
Covers(led, hs, l, u) ==
  \A h \in hs : h[2] < u => Holds(l, h[1], h[2]) \/ Overruled(led, h[1], h[2], u)

\* A match index of term t is within the ledger, and the entries of that term up to
\* there were held.
Backed(led, hs, match, t) ==
  /\ match <= Len(led[t])
  /\ \A n \in 1..match : led[t][n].term = t => <<n, t>> \in hs

-----------------------------------------------------------------------------
\* A leader's log is what its term's ledger says, and terms begin at 1 (promoteToCandidate).
LedgerIsLeaders ==
  /\ \A t \in Won : t > 0
  /\ \A i \in Node : role[i] = "leader" => log[i] = ledger[currentTerm[i]]
  /\ \A i \in Node : role[i] = "candidate" => currentTerm[i] > 0

LogsFromLedger ==
  /\ \A i \in Node : FromLedger(ledger, log[i], currentTerm[i])
  /\ \A w \in DOMAIN ledger : FromLedger(ledger, ledger[w], w)

RequestsFromLedger ==
  \A c \in Channel : \A n \in DOMAIN net[c] :
    net[c][n].kind = "AppendReq" => RequestFromLedger(ledger, held, net[c][n])

\* What a node has committed was chosen.
CommitsChosen ==
  \A i \in Node : Committed(ledger, held, log[i], commitIndex[i], currentTerm[i])

\* What was held is of the ledger, what is of the current term is held, and what was
\* held stays in its holder's log unless a later leader lacked it.
HeldStays ==
  \A i \in Node :
    /\ \A n \in DOMAIN log[i] :
         log[i][n].term = currentTerm[i] => <<n, currentTerm[i]>> \in held[i]
    /\ \A h \in held[i] :
         /\ h[2] \in DOMAIN ledger /\ h[2] <= currentTerm[i]
         /\ Holds(ledger[h[2]], h[1], h[2])
         /\ Holds(log[i], h[1], h[2]) \/ Overruled(ledger, h[1], h[2], currentTerm[i])

\* A request for a vote tells how far the candidate's log goes (broadcastVoteReq).
VoteRequestsCurrent ==
  \A c \in Channel : \A n \in DOMAIN net[c] :
    LET m == net[c][n]
    IN  m.kind = "VoteReq" /\ ~m.preVote =>
          /\ m.term <= currentTerm[c[1]]
          /\ role[c[1]] = "candidate" /\ m.term = currentTerm[c[1]] =>
               m.lastIndex = Len(log[c[1]]) /\ m.lastTerm = LastTerm(log[c[1]])

\* Whoever votes for a candidate knows that its log has what the voter held
\* (handleVoteReq); and nobody gets votes of a term it has not reached.
VotesUpToDate ==
  \A v \in Node : \A c \in Peers(v) : \A t \in VoteTerms(v, c) : Voted(v, c, t) =>
    /\ t <= currentTerm[c]
    /\ role[c] = "candidate" /\ t = currentTerm[c] => Covers(ledger, held[v], log[c], t)

\* A leader has what its voters held before, unless a leader in between lacked it.
VotersCovered ==
  \A e \in elected : \A v \in e.voters : \A h \in held[v] : h[2] < e.term =>
    \/ Holds(ledger[e.term], h[1], h[2])
    \/ Overruled(ledger, h[1], h[2], e.term - 1)

\* What k reported as its match in term t is in the ledger, and k held what is of that
\* term (handleAppendReq).
MatchesBacked ==
  /\ \A k \in Node : \A i \in Peers(k) : \A n \in DOMAIN net[<<k, i>>] :
       LET m == net[<<k, i>>][n]
       IN  m.kind = "AppendResp" /\ m.success =>
             /\ \E e \in elected : e.leader = i /\ e.term = m.term
             /\ Backed(ledger, held[k], m.matchIndex, m.term)
  /\ \A i \in Node : role[i] = "leader" =>
       \A k \in Peers(i) : Backed(ledger, held[k], matchIndex[i][k], currentTerm[i])

\* The history is of the elections that were won.
HistoryTypes ==
  /\ ledger \in [Won -> Log]
  /\ held \in [Node -> SUBSET (Nat \X Nat)]
  /\ overclaimed \in BOOLEAN

CommitFacts ==
  /\ LedgerIsLeaders
  /\ LogsFromLedger
  /\ RequestsFromLedger
  /\ CommitsChosen
  /\ HeldStays
  /\ VoteRequestsCurrent
  /\ VotesUpToDate
  /\ VotersCovered
  /\ MatchesBacked

CommitInv == HistoryTypes /\ (Unharmed => CommitFacts)
=============================================================================
