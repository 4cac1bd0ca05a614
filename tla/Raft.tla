-------------------------------- MODULE Raft --------------------------------
(***************************************************************************)
(* The consensus node of internal/consensus (node.go, handlers.go) and the   *)
(* fabric that connects the nodes.  One action is one call of Tick, Deliver  *)
(* or Propose, with everything that call changes.                            *)
(*                                                                           *)
(* Three things are abstracted, each justified by a module of its own or by  *)
(* the README: a timer may expire at any tick; an edge carries messages in    *)
(* order and may lose any of them (crypt.Transcript drops whatever is         *)
(* overtaken or rewritten, sim.Network whatever meets a cut link); and the    *)
(* reachability matrix is reduced to its two effects on this state, a node    *)
(* that declines to campaign (no step) and a probe that proves a peer alive.  *)
(***************************************************************************)
EXTENDS RaftLog, FiniteSets

CONSTANTS
  Node,        \* the cluster members
  None,        \* the empty NodeID ""
  Mode,        \* which protections are on
  Deaf,        \* members whose inbound edges are all cut
  MaxTerm,     \* bound: no node campaigns beyond this term
  MaxLog,      \* bound: no leader proposes beyond this index
  MaxInFlight  \* bound: messages under way at once, on all edges

ASSUME NodeAssumption == IsFiniteSet(Node) /\ None \notin Node
ASSUME ModeAssumption == Mode \in {"baseline", "prevote", "crossfault"}
ASSUME DeafAssumption == Deaf \subseteq Node
ASSUME BoundAssumption == MaxTerm \in Nat /\ MaxLog \in Nat /\ MaxInFlight \in Nat

VARIABLES
  role, currentTerm, votedFor, leaderID,
  votes, preVotes,        \* who granted i the current campaign, the current poll
  heardFrom,              \* what CheckQuorum counts
  log, commitIndex,
  nextIndex, matchIndex,
  net,                    \* net[<<i, j>>]: messages under way from i to j
  elected,                \* history: every election won, with the votes that won it
  forgotten               \* history: <<i, t>> for each vote of term t that i forgot in t

nodeVars == <<role, currentTerm, votedFor, leaderID>>
tallyVars == <<votes, preVotes>>
logVars == <<log, commitIndex>>
leaderVars == <<nextIndex, matchIndex>>
vars == <<nodeVars, tallyVars, heardFrom, logVars, leaderVars, net, elected,
          forgotten>>

Role == {"follower", "precandidate", "candidate", "leader"}

Channel == {c \in Node \X Node : c[1] # c[2]}

Peers(i) == Node \ {i}

IsQuorum(S) == Cardinality(S) >= (Cardinality(Node) \div 2) + 1

Min2(a, b) == IF a < b THEN a ELSE b

-----------------------------------------------------------------------------
\* Messages.  The sender and the addressee are the channel's.

AppendReq == [kind : {"AppendReq"}, term : Nat, prevIndex : Nat, prevTerm : Nat,
              entries : Log, leaderCommit : Nat]
AppendResp == [kind : {"AppendResp"}, term : Nat, success : BOOLEAN,
               matchIndex : Nat, conflictIndex : Nat]
VoteReq == [kind : {"VoteReq"}, term : Nat, lastIndex : Nat, lastTerm : Nat,
            preVote : BOOLEAN]
VoteResp == [kind : {"VoteResp"}, term : Nat, granted : BOOLEAN, preVote : BOOLEAN]

Message == AppendReq \cup AppendResp \cup VoteReq \cup VoteResp

\* Mutant of AppendTo: the previous entry is taken one too low.
AppendToOffByOne(i, j, t, next) ==
  [kind |-> "AppendReq", term |-> t, prevIndex |-> next - 2,
   prevTerm |-> TermAt(log[i], next - 2), entries |-> Slice(log[i], next),
   leaderCommit |-> commitIndex[i]]

\* The AppendEntries that leader i sends to j at term t.
AppendTo(i, j, t, next) ==
  [kind |-> "AppendReq", term |-> t, prevIndex |-> next - 1,
   prevTerm |-> TermAt(log[i], next - 1), entries |-> Slice(log[i], next),
   leaderCommit |-> commitIndex[i]]

Refusal(t, conflict) ==
  [kind |-> "AppendResp", term |-> t, success |-> FALSE,
   matchIndex |-> 0, conflictIndex |-> conflict]

Success(t, match) ==
  [kind |-> "AppendResp", term |-> t, success |-> TRUE,
   matchIndex |-> match, conflictIndex |-> 0]

VoteRequest(i, t, pre) ==
  [kind |-> "VoteReq", term |-> t, lastIndex |-> Len(log[i]),
   lastTerm |-> LastTerm(log[i]), preVote |-> pre]

VoteReply(t, yes, pre) ==
  [kind |-> "VoteResp", term |-> t, granted |-> yes, preVote |-> pre]

\* i hands out[j] to the fabric for every j in DOMAIN out, and the fabric loses
\* any of them: at a cut or corrupted edge, to a later message that overtakes it,
\* or because more than MaxInFlight would be under way.
UnderWay(channels) ==
  UNION {{c} \X DOMAIN channels[c] : c \in Channel}

Transmit(before, i, out) ==
  \E kept \in SUBSET (DOMAIN out \ Deaf) :
    /\ kept = {} \/ Cardinality(UnderWay(before)) + Cardinality(kept) <= MaxInFlight
    /\ net' = [c \in Channel |-> IF c[1] = i /\ c[2] \in kept
                                 THEN Append(before[c], out[c[2]])
                                 ELSE before[c]]

\* The message at the head of the edge from j to i is taken off the edge.
Taken(i, j) == [net EXCEPT ![<<j, i>>] = Tail(@)]

Silent == [j \in {} |-> 0]  \* a call that sends nothing

-----------------------------------------------------------------------------
Init ==
  /\ role = [i \in Node |-> "follower"]
  /\ currentTerm = [i \in Node |-> 0]
  /\ votedFor = [i \in Node |-> None]
  /\ leaderID = [i \in Node |-> None]
  /\ votes = [i \in Node |-> {}]
  /\ preVotes = [i \in Node |-> {}]
  /\ heardFrom = [i \in Node |-> {}]
  /\ log = [i \in Node |-> <<>>]
  /\ commitIndex = [i \in Node |-> 0]
  /\ nextIndex = [i \in Node |-> [j \in Node |-> 0]]
  /\ matchIndex = [i \in Node |-> [j \in Node |-> 0]]
  /\ net = [c \in Channel |-> <<>>]
  /\ elected = {}
  /\ forgotten = {}

\* becomeFollower: the vote is forgotten even when the term stays the same.
BecomeFollower(i, term, leader) ==
  /\ role' = [role EXCEPT ![i] = "follower"]
  /\ currentTerm' = [currentTerm EXCEPT ![i] = term]
  /\ votedFor' = [votedFor EXCEPT ![i] = None]
  /\ leaderID' = [leaderID EXCEPT ![i] = leader]

\* The part that beginElection in baseline mode and promoteToCandidate share.
\* leaderID keeps the old leader.
Campaign(i) ==
  /\ currentTerm[i] < MaxTerm
  /\ role' = [role EXCEPT ![i] = "candidate"]
  /\ currentTerm' = [currentTerm EXCEPT ![i] = @ + 1]
  /\ votedFor' = [votedFor EXCEPT ![i] = i]
  /\ votes' = [votes EXCEPT ![i] = {i}]
  /\ UNCHANGED <<leaderID>>

\* The election timer expires in baseline mode: a real campaign at once.
BeginElection(i) ==
  /\ Mode = "baseline"
  /\ role[i] # "leader"
  /\ Campaign(i)
  /\ Transmit(net, i, [j \in Peers(i) |-> VoteRequest(i, currentTerm[i] + 1, FALSE)])
  /\ UNCHANGED <<preVotes, heardFrom, logVars, leaderVars, elected>>

\* The election timer expires in the other modes: a poll for the next term.
\* In crossfault mode the node may decline instead, which changes no variable.
BeginPreVote(i) ==
  /\ Mode # "baseline"
  /\ role[i] # "leader"
  /\ role' = [role EXCEPT ![i] = "precandidate"]
  /\ preVotes' = [preVotes EXCEPT ![i] = {i}]
  /\ Transmit(net, i, [j \in Peers(i) |-> VoteRequest(i, currentTerm[i] + 1, TRUE)])
  /\ UNCHANGED <<currentTerm, votedFor, leaderID, votes, heardFrom, logVars,
                 leaderVars, elected>>

HasHeardFromQuorum(i) == IsQuorum({i} \cup heardFrom[i])

\* A tick of a leader on which its heartbeat is due, its CheckQuorum is due, or
\* both: the heartbeat goes out first.
LeaderTick(i) ==
  /\ role[i] = "leader"
  /\ \E heartbeat \in BOOLEAN, check \in BOOLEAN :
       /\ heartbeat \/ check
       /\ check => Mode # "baseline"
       /\ Transmit(net, i, IF heartbeat
                           THEN [j \in Peers(i) |->
                                   AppendTo(i, j, currentTerm[i], nextIndex[i][j])]
                           ELSE Silent)
       /\ heardFrom' = IF check THEN [heardFrom EXCEPT ![i] = {}] ELSE heardFrom
       /\ IF check /\ ~HasHeardFromQuorum(i)
          THEN BecomeFollower(i, currentTerm[i], None)
          ELSE UNCHANGED nodeVars
  /\ UNCHANGED <<tallyVars, logVars, leaderVars, elected>>

-----------------------------------------------------------------------------
\* Deliver: j's message at the head of the edge is verified and handled by i.

Arrives(i, j, kind) == net[<<j, i>>] # <<>> /\ Head(net[<<j, i>>]).kind = kind

Hears(i, j) == heardFrom' = [heardFrom EXCEPT ![i] = @ \cup {j}]

Reply(i, j, resp) == Transmit(Taken(i, j), i, [k \in {j} |-> resp])

\* handleAppendReq, from a sender whose term is over.
RejectStaleAppend(i, j, m) ==
  /\ m.term < currentTerm[i]
  /\ Reply(i, j, Refusal(currentTerm[i], 0))
  /\ UNCHANGED <<nodeVars, logVars>>

\* Mutant of FollowLeader: every request stands the node down, so that a follower
\* forgets its vote at each heartbeat.
FollowLeaderForgetting(i, j, m) ==
  /\ m.term >= currentTerm[i]
  /\ BecomeFollower(i, m.term, j)
  /\ Reply(i, j, Refusal(m.term, Min2(Len(log[i]) + 1, m.prevIndex)))
  /\ UNCHANGED logVars

\* Mutant of FollowLeader: only a higher term is looked at, so a leader takes the
\* entries of another one.
FollowLeaderUnchecked(i, j, m) ==
  LET spliced == AppendFromLeader(log[i], m.prevIndex, m.entries)
  IN  /\ IF m.term > currentTerm[i]
         THEN BecomeFollower(i, m.term, j)
         ELSE UNCHANGED nodeVars
      /\ Matches(log[i], m.prevIndex, m.prevTerm)
      /\ log' = [log EXCEPT ![i] = spliced]
      /\ Reply(i, j, Success(m.term, Len(spliced)))
      /\ UNCHANGED commitIndex

\* handleAppendReq, from a leader of this term or a later one: stand down, adopt
\* the leader, splice, take over its commit index.  The match index reported is
\* the end of the whole log, not of what the request covered.
FollowLeader(i, j, m) ==
  /\ m.term >= currentTerm[i]
  /\ IF m.term > currentTerm[i] \/ role[i] # "follower"
     THEN BecomeFollower(i, m.term, j)
     ELSE /\ leaderID' = [leaderID EXCEPT ![i] = j]
          /\ UNCHANGED <<role, currentTerm, votedFor>>
  /\ IF Matches(log[i], m.prevIndex, m.prevTerm)
     THEN LET spliced == AppendFromLeader(log[i], m.prevIndex, m.entries)
          IN  /\ log' = [log EXCEPT ![i] = spliced]
              /\ commitIndex' = [commitIndex EXCEPT ![i] =
                                   IF m.leaderCommit > @
                                   THEN Min2(m.leaderCommit, Len(spliced))
                                   ELSE @]
              /\ Reply(i, j, Success(m.term, Len(spliced)))
     ELSE /\ Reply(i, j, Refusal(m.term, Min2(Len(log[i]) + 1, m.prevIndex)))
          /\ UNCHANGED logVars

HandleAppendReq(i, j) ==
  /\ Arrives(i, j, "AppendReq")
  /\ LET m == Head(net[<<j, i>>])
     IN  RejectStaleAppend(i, j, m) \/ FollowLeader(i, j, m)
  /\ Hears(i, j)
  /\ UNCHANGED <<tallyVars, leaderVars, elected>>

\* advanceCommit sorts the match indexes in descending order and takes the one
\* at quorum-1: the greatest index that a quorum has reached.
Reached(i, match, n) == {k \in Node : (IF k = i THEN Len(log[i]) ELSE match[k]) >= n}

\* Mutant of Committable: half of the members, rounded down, is taken for a majority.
CommittableByHalf(i, match) ==
  LET Enough(n) == Cardinality(Reached(i, match, n)) >= Cardinality(Node) \div 2
  IN  {n \in (commitIndex[i] + 1)..Len(log[i]) :
         log[i][n].term = currentTerm[i] /\ Enough(n) /\ ~Enough(n + 1)}

Committable(i, match) ==
  {n \in (commitIndex[i] + 1)..Len(log[i]) :
     /\ log[i][n].term = currentTerm[i]
     /\ IsQuorum(Reached(i, match, n))
     /\ ~IsQuorum(Reached(i, match, n + 1))}

AdvanceCommit(i, match) ==
  IF Committable(i, match) = {}
  THEN UNCHANGED commitIndex
  ELSE commitIndex' = [commitIndex EXCEPT ![i] =
                         CHOOSE n \in Committable(i, match) : TRUE]

\* Mutant of LearnProgress: the refusal of a stale request, which names no conflict,
\* is not told from one that names an index.
LearnProgressUnguarded(i, j, m) ==
  /\ role[i] = "leader"
  /\ m.term = currentTerm[i]
  /\ IF m.success
     THEN /\ matchIndex' = [matchIndex EXCEPT ![i][j] = m.matchIndex]
          /\ nextIndex' = [nextIndex EXCEPT ![i][j] = m.matchIndex + 1]
          /\ AdvanceCommit(i, matchIndex'[i])
     ELSE /\ nextIndex' = [nextIndex EXCEPT ![i][j] = m.conflictIndex]
          /\ UNCHANGED <<matchIndex, commitIndex>>
  /\ UNCHANGED nodeVars

\* handleAppendResp, as the leader of the term the answer belongs to.
LearnProgress(i, j, m) ==
  /\ role[i] = "leader"
  /\ m.term = currentTerm[i]
  /\ IF m.success
     THEN /\ matchIndex' = [matchIndex EXCEPT ![i][j] = m.matchIndex]
          /\ nextIndex' = [nextIndex EXCEPT ![i][j] = m.matchIndex + 1]
          /\ AdvanceCommit(i, matchIndex'[i])
     ELSE /\ nextIndex' = [nextIndex EXCEPT ![i][j] =
                             IF m.conflictIndex = 0 THEN 1 ELSE m.conflictIndex]
          /\ UNCHANGED <<matchIndex, commitIndex>>
  /\ UNCHANGED nodeVars

HandleAppendResp(i, j) ==
  /\ Arrives(i, j, "AppendResp")
  /\ LET m == Head(net[<<j, i>>])
     IN  \/ /\ m.term > currentTerm[i]
            /\ BecomeFollower(i, m.term, None)
            /\ UNCHANGED <<leaderVars, commitIndex>>
         \/ LearnProgress(i, j, m)
         \/ /\ m.term < currentTerm[i] \/ (role[i] # "leader" /\ m.term = currentTerm[i])
            /\ UNCHANGED <<nodeVars, leaderVars, commitIndex>>
  /\ net' = Taken(i, j)
  /\ Hears(i, j)
  /\ UNCHANGED <<tallyVars, log, elected>>

-----------------------------------------------------------------------------
\* believesLeaderIsLive also asks electionElapsed < electionTimeout, which holds
\* whenever a node that is not a leader in these modes handles a message: the
\* Tick that reaches the timeout also resets the timer (module ElectionTimer).
BelievesLeaderIsLive(i) == leaderID[i] # None

\* Mutant of AnswerPoll: the poll's term is adopted like a campaign's.
AnswerPollAdoptingTerm(i, j, m) ==
  /\ m.preVote
  /\ IF m.term > currentTerm[i]
     THEN BecomeFollower(i, m.term, None)
     ELSE UNCHANGED nodeVars
  /\ Reply(i, j, VoteReply(currentTerm'[i], FALSE, TRUE))

\* handleVoteReq for a straw poll: no term and no vote changes.
AnswerPoll(i, j, m) ==
  /\ m.preVote
  /\ LET granted == /\ m.term > currentTerm[i]
                    /\ UpToDate(log[i], m.lastTerm, m.lastIndex)
                    /\ ~BelievesLeaderIsLive(i)
     IN  Reply(i, j, VoteReply(currentTerm[i], granted, TRUE))
  /\ UNCHANGED nodeVars

\* Mutant of AnswerCampaign: the vote already given in the term is not looked at.
AnswerCampaignTwice(i, j, m) ==
  /\ ~m.preVote
  /\ LET newer == m.term > currentTerm[i]
         granted == m.term >= currentTerm[i] /\ UpToDate(log[i], m.lastTerm, m.lastIndex)
         term == IF newer THEN m.term ELSE currentTerm[i]
     IN  /\ role' = [role EXCEPT ![i] = IF newer THEN "follower" ELSE @]
         /\ currentTerm' = [currentTerm EXCEPT ![i] = term]
         /\ leaderID' = [leaderID EXCEPT ![i] = IF newer THEN None ELSE @]
         /\ votedFor' = [votedFor EXCEPT ![i] = IF granted THEN j
                                                ELSE IF newer THEN None ELSE @]
         /\ Reply(i, j, VoteReply(term, granted, FALSE))

\* handleVoteReq for a campaign.  A higher term clears the vote first.
AnswerCampaign(i, j, m) ==
  /\ ~m.preVote
  /\ LET newer == m.term > currentTerm[i]
         granted == /\ m.term >= currentTerm[i]
                    /\ newer \/ votedFor[i] \in {None, j}
                    /\ UpToDate(log[i], m.lastTerm, m.lastIndex)
         term == IF newer THEN m.term ELSE currentTerm[i]
     IN  /\ role' = [role EXCEPT ![i] = IF newer THEN "follower" ELSE @]
         /\ currentTerm' = [currentTerm EXCEPT ![i] = term]
         /\ leaderID' = [leaderID EXCEPT ![i] = IF newer THEN None ELSE @]
         /\ votedFor' = [votedFor EXCEPT ![i] = IF granted THEN j
                                                ELSE IF newer THEN None ELSE @]
         /\ Reply(i, j, VoteReply(term, granted, FALSE))

HandleVoteReq(i, j) ==
  /\ Arrives(i, j, "VoteReq")
  /\ LET m == Head(net[<<j, i>>])
     IN  AnswerPoll(i, j, m) \/ AnswerCampaign(i, j, m)
  /\ Hears(i, j)
  /\ UNCHANGED <<tallyVars, logVars, leaderVars, elected>>

\* handleVoteResp for a straw poll: the answer's term is not looked at.
CountPollAnswer(i, j, m) ==
  /\ m.preVote
  /\ IF role[i] = "precandidate" /\ m.granted
     THEN /\ preVotes' = [preVotes EXCEPT ![i] = @ \cup {j}]
          /\ IF IsQuorum(preVotes'[i])
             THEN /\ Campaign(i)
                  /\ Transmit(Taken(i, j), i,
                       [k \in Peers(i) |-> VoteRequest(i, currentTerm[i] + 1, FALSE)])
             ELSE /\ net' = Taken(i, j)
                  /\ UNCHANGED <<nodeVars, votes>>
     ELSE /\ net' = Taken(i, j)
          /\ UNCHANGED <<nodeVars, tallyVars>>
  /\ Hears(i, j)
  /\ UNCHANGED <<leaderVars, elected>>

\* becomeLeader, with the heartbeat it sends at once.  votedFor keeps the vote.
BecomeLeader(i, j, voters) ==
  /\ role' = [role EXCEPT ![i] = "leader"]
  /\ leaderID' = [leaderID EXCEPT ![i] = i]
  /\ heardFrom' = [heardFrom EXCEPT ![i] = {}]
  /\ nextIndex' = [nextIndex EXCEPT ![i] = [k \in Node |-> Len(log[i]) + 1]]
  /\ matchIndex' = [matchIndex EXCEPT ![i] = [k \in Node |-> 0]]
  /\ elected' = elected \cup {[term |-> currentTerm[i], leader |-> i, voters |-> voters]}
  /\ Transmit(Taken(i, j), i,
       [k \in Peers(i) |-> AppendTo(i, k, currentTerm[i], Len(log[i]) + 1)])
  /\ UNCHANGED <<currentTerm, votedFor>>

\* Mutant of CountVote: a vote granted in an earlier campaign is counted in this one.
CountVoteOfAnyTerm(i, j, m) ==
  /\ ~m.preVote
  /\ m.term <= currentTerm[i]
  /\ IF role[i] = "candidate" /\ m.granted
     THEN LET voters == votes[i] \cup {j}
          IN  /\ votes' = [votes EXCEPT ![i] = voters]
              /\ IF IsQuorum(voters)
                 THEN BecomeLeader(i, j, voters)
                 ELSE /\ net' = Taken(i, j)
                      /\ Hears(i, j)
                      /\ UNCHANGED <<nodeVars, leaderVars, elected>>
     ELSE /\ net' = Taken(i, j)
          /\ Hears(i, j)
          /\ UNCHANGED <<nodeVars, votes, leaderVars, elected>>
  /\ UNCHANGED preVotes

\* handleVoteResp for a campaign.
CountVote(i, j, m) ==
  /\ ~m.preVote
  /\ m.term <= currentTerm[i]
  /\ IF role[i] = "candidate" /\ m.term = currentTerm[i] /\ m.granted
     THEN LET voters == votes[i] \cup {j}
          IN  /\ votes' = [votes EXCEPT ![i] = voters]
              /\ IF IsQuorum(voters)
                 THEN BecomeLeader(i, j, voters)
                 ELSE /\ net' = Taken(i, j)
                      /\ Hears(i, j)
                      /\ UNCHANGED <<nodeVars, leaderVars, elected>>
     ELSE /\ net' = Taken(i, j)
          /\ Hears(i, j)
          /\ UNCHANGED <<nodeVars, votes, leaderVars, elected>>
  /\ UNCHANGED preVotes

HandleVoteResp(i, j) ==
  /\ Arrives(i, j, "VoteResp")
  /\ LET m == Head(net[<<j, i>>])
     IN  \/ CountPollAnswer(i, j, m)
         \/ CountVote(i, j, m)
         \/ /\ ~m.preVote
            /\ m.term > currentTerm[i]
            /\ BecomeFollower(i, m.term, None)
            /\ net' = Taken(i, j)
            /\ Hears(i, j)
            /\ UNCHANGED <<tallyVars, leaderVars, elected>>
  /\ UNCHANGED logVars

\* A probe or its answer, which every node exchanges with every other in
\* crossfault mode.
ReceiveProbe(i, j) ==
  /\ Mode = "crossfault"
  /\ i \notin Deaf
  /\ Hears(i, j)
  /\ UNCHANGED <<nodeVars, tallyVars, logVars, leaderVars, net, elected>>

-----------------------------------------------------------------------------
\* Propose as a client reaches it, through sim.Network.Propose: the only leader
\* there is takes the command.  It puts a broadcast in its outbox and nobody
\* collects it, so nothing is sent before the next heartbeat.
Propose(i, cmd) ==
  /\ {k \in Node : role[k] = "leader"} = {i}
  /\ Len(log[i]) < MaxLog
  /\ log' = [log EXCEPT ![i] = Append(@, [term |-> currentTerm[i], cmd |-> cmd])]
  /\ UNCHANGED <<nodeVars, tallyVars, heardFrom, commitIndex, leaderVars, net, elected>>

Act ==
  \/ \E i \in Node : BeginElection(i) \/ BeginPreVote(i) \/ LeaderTick(i)
  \/ \E i \in Node, cmd \in Cmd : Propose(i, cmd)
  \/ \E i \in Node : \E j \in Peers(i) :
       \/ HandleAppendReq(i, j)
       \/ HandleAppendResp(i, j)
       \/ HandleVoteReq(i, j)
       \/ HandleVoteResp(i, j)
       \/ ReceiveProbe(i, j)

\* i loses, within its term, a vote that others may rely on: one it gave to another
\* node, or its own while it leads by it.  A candidate's own vote dies with the
\* campaign and is not missed.
ForgetsVote(i) ==
  /\ currentTerm'[i] = currentTerm[i] /\ votedFor'[i] # votedFor[i]
  /\ role[i] = "leader" \/ votedFor[i] \notin {None, i}

\* Written by no code: the history of forgotten votes.
RecordForgotten ==
  forgotten' = forgotten \cup {<<i, currentTerm[i]>> : i \in {k \in Node : ForgetsVote(k)}}

Next == Act /\ RecordForgotten

Spec == Init /\ [][Next]_vars

-----------------------------------------------------------------------------
Election == [term : Nat, leader : Node, voters : SUBSET Node]

\* What every variable of the consensus nodes, of the edges and of the history
\* may hold; in particular every message under way is one that a handler decodes.
TypeOK ==
  /\ role \in [Node -> Role]
  /\ currentTerm \in [Node -> Nat]
  /\ votedFor \in [Node -> Node \cup {None}]
  /\ leaderID \in [Node -> Node \cup {None}]
  /\ votes \in [Node -> SUBSET Node]
  /\ preVotes \in [Node -> SUBSET Node]
  /\ heardFrom \in [Node -> SUBSET Node]
  /\ log \in [Node -> Log]
  /\ commitIndex \in [Node -> Nat]
  /\ nextIndex \in [Node -> [Node -> Nat]]
  /\ matchIndex \in [Node -> [Node -> Nat]]
  /\ net \in [Channel -> Seq(Message)]
  /\ elected \subseteq Election
  /\ forgotten \subseteq Node \X Nat

\* A leader always knows where each member's log goes on, so the case next == 0 of
\* broadcastAppend never arises and AppendTo leaves it out.
NextIndexSet ==
  \A i \in Node : role[i] = "leader" => \A j \in Node : nextIndex[i][j] # 0

\* At most one node ever wins the election of a term (sim.Network.Leader calls
\* two leaders in one term a safety violation).
ElectionSafety == \A e, f \in elected : e.term = f.term => e.leader = f.leader

\* Two nodes win the same term only if everyone who voted for both has forgotten a
\* vote within that term (becomeFollower, node.go:378): in no mode is there another
\* way to two leaders, whatever is lost, delayed or answered late.
OnlyForgottenVotesSplit ==
  \A e, f \in elected : e.term = f.term /\ e.leader # f.leader =>
    \A v \in e.voters \cap f.voters : <<v, e.term>> \in forgotten

\* Two logs that hold entries of the same term at the same index are the same up
\* to there, commands included: what log.go's Entry relies on when it calls a
\* disagreement at one index and term proof of fabrication.
LogMatching ==
  \A i, j \in Node : \A n \in DOMAIN log[i] \cap DOMAIN log[j] :
    log[i][n].term = log[j][n].term => SubSeq(log[i], 1, n) = SubSeq(log[j], 1, n)

\* A vote given to another node is kept for as long as the term lasts, whatever
\* becomeFollower does to votedFor.
VoteIsKept ==
  [][\A i \in Node : currentTerm'[i] = currentTerm[i] /\ votedFor[i] \notin {None, i}
       => votedFor'[i] = votedFor[i]]_vars

\* Within one term a leader never drops or rewrites an entry of its log: whoever
\* would overwrite it (AppendFromLeader) must lead a later term.
LeaderAppendOnly ==
  [][\A i \in Node : role[i] = "leader" /\ currentTerm'[i] = currentTerm[i] =>
       /\ Len(log[i]) <= Len(log'[i])
       /\ SubSeq(log'[i], 1, Len(log[i])) = log[i]]_vars

\* An index is committed by a leader only if a majority of the logs hold its entry
\* of that term (the comment on advanceCommit).
CommitNeedsMajority ==
  [][\A i \in Node : role[i] = "leader" /\ commitIndex'[i] > commitIndex[i] =>
       IsQuorum({k \in Node : TermAt(log[k], commitIndex'[i]) = currentTerm[i]})]_vars

\* A node that others hear and that hears nobody changes nobody's role, term,
\* vote or leader, whatever it sends (the purpose of the straw poll, beginElection
\* and handleVoteReq).
OneWayNodeCannotDisrupt ==
  [][\A d \in Deaf : \A i \in Peers(d) :
       Len(net'[<<d, i>>]) < Len(net[<<d, i>>]) =>
         /\ role'[i] = role[i] /\ currentTerm'[i] = currentTerm[i]
         /\ votedFor'[i] = votedFor[i] /\ leaderID'[i] = leaderID[i]]_vars
=============================================================================
