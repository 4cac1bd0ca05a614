--------------------------------- MODULE RaftProofs ---------------------------
(***************************************************************************)
(* What holds of Raft in every mode and cluster, with any log, under every     *)
(* bound, loss and delay.                                                     *)
(*                                                                           *)
(* Types: every variable and every message under way has its type.             *)
(*                                                                           *)
(* Polls: in the modes that have them, a node that others hear and that hears   *)
(* nobody disturbs nobody: it never gets beyond polling, and a poll changes     *)
(* nothing in who answers it.                                                 *)
(*                                                                           *)
(* Elections: a term has one leader as far as voters do not forget, and in      *)
(* baseline mode nobody forgets.  Every step is the step of one node;           *)
(* ElectionStep says what such a step may do to the votes, the roles and the    *)
(* elections, and the proof shows that it preserves each conjunct of            *)
(* ElectionInv, and then that every action is one.                            *)
(***************************************************************************)
EXTENDS RaftInvariants, TLAPS, SequenceTheorems, FiniteSetTheorems

-----------------------------------------------------------------------------
\* Sequences and the log.

\* Append and Tail keep the elements in the set they come from.
LEMMA AppendType ==
  ASSUME NEW S, NEW s \in Seq(S), NEW x \in S
  PROVE  Append(s, x) \in Seq(S)
  OBVIOUS

\* The term of the last entry, and of any index, is a number.
LEMMA TermTypes ==
  ASSUME NEW l \in Log, NEW k
  PROVE  LastTerm(l) \in Nat /\ TermAt(l, k) \in Nat
<1>1. ASSUME NEW n \in DOMAIN l
      PROVE  l[n].term \in Nat
  <2>1. l[n] \in Entry
    BY ElementOfSeq, LenProperties DEF Log
  <2> QED  BY <2>1 DEF Entry
<1>2. l # <<>> => Len(l) \in DOMAIN l
  BY EmptySeq, LenProperties DEF Log
<1> QED  BY <1>1, <1>2 DEF LastTerm, TermAt

\* What a leader cuts off its log to send is a log.
LEMMA SliceType ==
  ASSUME NEW l \in Log, NEW from \in Nat
  PROVE  Slice(l, from) \in Log
<1> DEFINE first == IF from = 0 THEN 1 ELSE from
<1>1. first \in Int /\ Len(l) \in Int
  BY LenProperties DEF Log
<1>2. \A k \in first..Len(l) : l[k] \in Entry
  BY ElementOfSeq DEF Log
<1> QED  BY <1>1, <1>2, SubSeqProperties DEF Slice, Log

\* Splicing after an index the log has gives a log.
LEMMA AppendFromLeaderType ==
  ASSUME NEW l \in Log, NEW p \in Nat, NEW entries \in Log, p <= Len(l)
  PROVE  AppendFromLeader(l, p, entries) \in Log
<1> DEFINE last == p + Len(entries)
           e(n) == IF n <= p \/ AgreesThrough(l, p, entries, n)
                   THEN l[n] ELSE entries[n - p]
<1>1. Len(l) \in Nat /\ Len(entries) \in Nat /\ last \in Nat
  BY LenProperties DEF Log
<1>2. ASSUME NEW n \in 1..last
      PROVE  e(n) \in Entry
  <2>1. CASE n <= p
    BY <2>1, <1>1, ElementOfSeq DEF Log
  <2>2. CASE n > p /\ AgreesThrough(l, p, entries, n)
    <3>1. n <= Len(l)
      BY <2>2, <1>1 DEF AgreesThrough
    <3> QED  BY <3>1, <2>2, <1>1, ElementOfSeq DEF Log
  <2>3. CASE n > p /\ ~AgreesThrough(l, p, entries, n)
    <3>1. n - p \in 1..Len(entries)
      BY <2>3, <1>1
    <3> QED  BY <3>1, <2>3, <1>1, ElementOfSeq DEF Log
  <2> QED  BY <2>1, <2>2, <2>3, <1>1
<1>3. [n \in 1..last |-> e(n)] \in Log
  <2>1. [n \in 1..last |-> e(n)] \in [1..last -> Entry]
    BY <1>2
  <2> QED  BY <2>1, <1>1, SeqDef DEF Log
<1> QED  BY <1>3 DEF AppendFromLeader

-----------------------------------------------------------------------------
\* Messages and the fabric.

\* broadcastAppend sends well-formed requests.
LEMMA AppendToType ==
  ASSUME TypeOK, NEW i \in Node, NEW j, NEW t \in Nat, NEW next \in Nat, next # 0
  PROVE  AppendTo(i, j, t, next) \in Message
  BY TermTypes, SliceType DEF TypeOK, AppendTo, AppendReq, Message

\* broadcastVoteReq sends well-formed requests.
LEMMA VoteRequestType ==
  ASSUME TypeOK, NEW i \in Node, NEW t \in Nat, NEW pre \in BOOLEAN
  PROVE  VoteRequest(i, t, pre) \in Message
<1>1. Len(log[i]) \in Nat /\ LastTerm(log[i]) \in Nat
  BY TermTypes, LenProperties DEF TypeOK, Log
<1> QED  BY <1>1 DEF VoteRequest, VoteReq, Message

\* The answers the handlers send are well formed.
LEMMA ReplyTypes ==
  ASSUME NEW t \in Nat, NEW n \in Nat, NEW yes \in BOOLEAN, NEW pre \in BOOLEAN
  PROVE  /\ Refusal(t, n) \in Message
         /\ Success(t, n) \in Message
         /\ VoteReply(t, yes, pre) \in Message
  BY DEF Refusal, Success, VoteReply, AppendResp, VoteResp, Message

\* Whatever the fabric does with messages, its edges carry messages.
LEMMA TransmitType ==
  ASSUME NEW before \in [Channel -> Seq(Message)], NEW i, NEW out,
         \A j \in DOMAIN out : out[j] \in Message,
         Transmit(before, i, out)
  PROVE  net' \in [Channel -> Seq(Message)]
  BY AppendType DEF Transmit

\* The message at the head of an edge is one, and the edge is left well-typed.
LEMMA TakenType ==
  ASSUME TypeOK, NEW i \in Node, NEW j \in Peers(i), net[<<j, i>>] # <<>>
  PROVE  /\ Head(net[<<j, i>>]) \in Message
         /\ Taken(i, j) \in [Channel -> Seq(Message)]
<1>1. <<j, i>> \in Channel
  BY DEF Channel, Peers
<1>2. net[<<j, i>>] \in Seq(Message)
  BY <1>1 DEF TypeOK
<1>3. Head(net[<<j, i>>]) \in Message /\ Tail(net[<<j, i>>]) \in Seq(Message)
  BY <1>2, HeadTailProperties
<1> QED  BY <1>1, <1>3 DEF TypeOK, Taken

-----------------------------------------------------------------------------
\* The parts of TypeOK, by who disturbs them.

NodeTypes ==
  /\ role \in [Node -> Role]
  /\ currentTerm \in [Node -> Nat]
  /\ votedFor \in [Node -> Node \cup {None}]
  /\ leaderID \in [Node -> Node \cup {None}]

TallyTypes == votes \in [Node -> SUBSET Node] /\ preVotes \in [Node -> SUBSET Node]

LogTypes == log \in [Node -> Log] /\ commitIndex \in [Node -> Nat]

LeaderTypes ==
  nextIndex \in [Node -> [Node -> Nat]] /\ matchIndex \in [Node -> [Node -> Nat]]

\* All that the actions write; Next adds the history of forgotten votes.
ActTypes ==
  /\ NodeTypes /\ TallyTypes /\ LogTypes /\ LeaderTypes
  /\ heardFrom \in [Node -> SUBSET Node]
  /\ net \in [Channel -> Seq(Message)]
  /\ elected \subseteq Election

\* TypeOK is its parts.
LEMMA TypeParts ==
  TypeOK <=> /\ NodeTypes /\ TallyTypes /\ LogTypes /\ LeaderTypes
             /\ heardFrom \in [Node -> SUBSET Node]
             /\ net \in [Channel -> Seq(Message)]
             /\ elected \subseteq Election
             /\ forgotten \subseteq Node \X Nat
  BY DEF TypeOK, NodeTypes, TallyTypes, LogTypes, LeaderTypes

\* The program starts well-typed.
LEMMA InitType == Init => TypeOK
<1> SUFFICES ASSUME Init PROVE TypeOK
  OBVIOUS
<1>1. <<>> \in Log /\ <<>> \in Seq(Message)
  BY EmptySeq DEF Log
<1> QED  BY <1>1 DEF Init, TypeOK, Role

\* becomeFollower preserves the types of the node's own state.
LEMMA BecomeFollowerType ==
  ASSUME NodeTypes, NEW i \in Node, NEW t \in Nat, NEW l \in Node \cup {None},
         BecomeFollower(i, t, l)
  PROVE  NodeTypes'
  BY DEF NodeTypes, BecomeFollower, Role

\* A campaign preserves the types of the node's own state.
LEMMA CampaignType ==
  ASSUME NodeTypes, TallyTypes, NEW i \in Node, Campaign(i)
  PROVE  NodeTypes' /\ votes' \in [Node -> SUBSET Node]
  BY DEF NodeTypes, TallyTypes, Campaign, Role

\* Hearing from a peer preserves the type of heardFrom.
LEMMA HearsType ==
  ASSUME heardFrom \in [Node -> SUBSET Node], NEW i \in Node, NEW j \in Node, Hears(i, j)
  PROVE  heardFrom' \in [Node -> SUBSET Node]
  BY DEF Hears

\* A reply keeps the edges well-typed.
LEMMA ReplyType ==
  ASSUME TypeOK, NEW i \in Node, NEW j \in Peers(i), net[<<j, i>>] # <<>>,
         NEW resp \in Message, Reply(i, j, resp)
  PROVE  net' \in [Channel -> Seq(Message)]
  BY TakenType, TransmitType DEF Reply

\* So does a request for votes to everyone.
LEMMA BroadcastVoteType ==
  ASSUME TypeOK, NEW i \in Node, NEW pre \in BOOLEAN,
         NEW before \in [Channel -> Seq(Message)],
         Transmit(before, i, [j \in Peers(i) |-> VoteRequest(i, currentTerm[i] + 1, pre)])
  PROVE  net' \in [Channel -> Seq(Message)]
<1>1. currentTerm[i] + 1 \in Nat
  BY DEF TypeOK
<1>2. VoteRequest(i, currentTerm[i] + 1, pre) \in Message
  BY <1>1, VoteRequestType
<1> QED  BY <1>2, TransmitType

-----------------------------------------------------------------------------
\* One lemma per action.

\* beginElection in baseline mode preserves the types.
LEMMA BeginElectionType ==
  ASSUME TypeOK, NEW i \in Node, BeginElection(i)
  PROVE  ActTypes'
<1>1. net' \in [Channel -> Seq(Message)]
  BY BroadcastVoteType DEF BeginElection, TypeOK
<1>2. NodeTypes' /\ votes' \in [Node -> SUBSET Node]
  BY TypeParts, CampaignType DEF BeginElection
<1> QED  BY <1>1, <1>2 DEF BeginElection, TypeOK, NodeTypes, logVars, leaderVars,
         ActTypes, TallyTypes, LogTypes, LeaderTypes

\* beginElection in the other modes preserves the types.
LEMMA BeginPreVoteType ==
  ASSUME TypeOK, NEW i \in Node, BeginPreVote(i)
  PROVE  ActTypes'
<1>1. net' \in [Channel -> Seq(Message)]
  BY BroadcastVoteType DEF BeginPreVote, TypeOK
<1> QED  BY <1>1 DEF BeginPreVote, TypeOK, Role, logVars, leaderVars, ActTypes,
         NodeTypes, TallyTypes, LogTypes, LeaderTypes

\* A leader's tick preserves the types.
LEMMA LeaderTickType ==
  ASSUME TypeOK, NextIndexSet, NEW i \in Node, LeaderTick(i)
  PROVE  ActTypes'
<1>1. PICK heartbeat \in BOOLEAN, check \in BOOLEAN :
        /\ Transmit(net, i, IF heartbeat
                            THEN [j \in Peers(i) |->
                                    AppendTo(i, j, currentTerm[i], nextIndex[i][j])]
                            ELSE Silent)
        /\ heardFrom' = IF check THEN [heardFrom EXCEPT ![i] = {}] ELSE heardFrom
        /\ IF check /\ ~HasHeardFromQuorum(i)
           THEN BecomeFollower(i, currentTerm[i], None)
           ELSE UNCHANGED nodeVars
  BY DEF LeaderTick
<1>2. net' \in [Channel -> Seq(Message)]
  <2>1. ASSUME NEW j \in Peers(i)
        PROVE  AppendTo(i, j, currentTerm[i], nextIndex[i][j]) \in Message
    <3>1. /\ currentTerm[i] \in Nat /\ nextIndex[i][j] \in Nat /\ nextIndex[i][j] # 0
      BY DEF TypeOK, NextIndexSet, LeaderTick, Peers
    <3> QED  BY <3>1, AppendToType
  <2>2. CASE heartbeat
    BY <1>1, <2>1, <2>2, TransmitType DEF TypeOK
  <2>3. CASE ~heartbeat
    <3>1. Transmit(net, i, Silent)
      BY <1>1, <2>3
    <3> QED  BY <3>1, TransmitType DEF TypeOK, Silent
  <2> QED  BY <2>2, <2>3
<1>3. NodeTypes'
  <2>1. CASE check /\ ~HasHeardFromQuorum(i)
    BY <1>1, <2>1, BecomeFollowerType, TypeParts DEF TypeOK
  <2>2. CASE ~(check /\ ~HasHeardFromQuorum(i))
    BY <1>1, <2>2, TypeParts DEF NodeTypes, nodeVars
  <2> QED  BY <2>1, <2>2
<1>4. heardFrom' \in [Node -> SUBSET Node]
  BY <1>1 DEF TypeOK
<1> QED  BY <1>2, <1>3, <1>4 DEF LeaderTick, TypeOK, NodeTypes, tallyVars, logVars,
         leaderVars, ActTypes, TallyTypes, LogTypes, LeaderTypes

\* handleAppendReq preserves the types; the splice and its answer are the work.
LEMMA HandleAppendReqType ==
  ASSUME TypeOK, NEW i \in Node, NEW j \in Peers(i), HandleAppendReq(i, j)
  PROVE  ActTypes'
<1> DEFINE m == Head(net[<<j, i>>])
<1>1. net[<<j, i>>] # <<>> /\ m.kind = "AppendReq" /\ j \in Node
  BY DEF HandleAppendReq, Arrives, Peers
<1>2. m \in AppendReq
  <2>1. m \in Message
    BY <1>1, TakenType
  <2> QED  BY <2>1, <1>1 DEF Message, AppendReq, AppendResp, VoteReq, VoteResp
<1>3. /\ m.term \in Nat /\ m.prevIndex \in Nat /\ m.entries \in Log
      /\ m.leaderCommit \in Nat
  BY <1>2 DEF AppendReq
<1>4. /\ NodeTypes /\ LogTypes /\ log[i] \in Log /\ Len(log[i]) \in Nat
      /\ currentTerm[i] \in Nat /\ commitIndex[i] \in Nat
  BY TypeParts, LenProperties DEF TypeOK, LogTypes, Log
<1>5. heardFrom' \in [Node -> SUBSET Node]
  BY <1>1, HearsType DEF HandleAppendReq, TypeOK
<1>6. NodeTypes' /\ LogTypes' /\ net' \in [Channel -> Seq(Message)]
  <2>1. CASE RejectStaleAppend(i, j, m)
    <3>1. Refusal(currentTerm[i], 0) \in Message
      BY <1>4, ReplyTypes
    <3> QED  BY <3>1, <2>1, <1>1, <1>4, ReplyType
             DEF RejectStaleAppend, NodeTypes, LogTypes, nodeVars, logVars
  <2>2. CASE FollowLeader(i, j, m)
    <3>1. NodeTypes'
      <4>1. CASE BecomeFollower(i, m.term, j)
        BY <4>1, <1>1, <1>3, <1>4, BecomeFollowerType
      <4>2. CASE /\ leaderID' = [leaderID EXCEPT ![i] = j]
                 /\ UNCHANGED <<role, currentTerm, votedFor>>
        BY <4>2, <1>1, <1>4 DEF NodeTypes
      <4> QED  BY <2>2, <4>1, <4>2 DEF FollowLeader
    <3>2. CASE Matches(log[i], m.prevIndex, m.prevTerm)
      <4> DEFINE spliced == AppendFromLeader(log[i], m.prevIndex, m.entries)
      <4>1. m.prevIndex <= Len(log[i])
        BY <3>2, <1>3, <1>4, LenProperties DEF Matches, Log
      <4>2. spliced \in Log
        BY <4>1, <1>3, <1>4, AppendFromLeaderType
      <4>3. Len(spliced) \in Nat
        BY <4>2, LenProperties DEF Log
      <4>4. Success(m.term, Len(spliced)) \in Message
        BY <4>3, <1>3, ReplyTypes
      <4>5. Reply(i, j, Success(m.term, Len(spliced)))
        BY <2>2, <3>2 DEF FollowLeader
      <4>6. net' \in [Channel -> Seq(Message)]
        BY <4>4, <4>5, <1>1, ReplyType
      <4>7. /\ log' = [log EXCEPT ![i] = spliced]
            /\ commitIndex' = [commitIndex EXCEPT ![i] =
                                 IF m.leaderCommit > @
                                 THEN Min2(m.leaderCommit, Len(spliced)) ELSE @]
        BY <2>2, <3>2 DEF FollowLeader
      <4>8. LogTypes'
        <5> HIDE DEF spliced
        <5> QED  BY <4>2, <4>3, <4>7, <1>3, <1>4 DEF LogTypes, Min2
      <4> QED  BY <3>1, <4>6, <4>8
    <3>3. CASE ~Matches(log[i], m.prevIndex, m.prevTerm)
      <4>1. Min2(Len(log[i]) + 1, m.prevIndex) \in Nat
        BY <1>3, <1>4 DEF Min2
      <4>2. Refusal(m.term, Min2(Len(log[i]) + 1, m.prevIndex)) \in Message
        BY <4>1, <1>3, ReplyTypes
      <4>3. /\ Reply(i, j, Refusal(m.term, Min2(Len(log[i]) + 1, m.prevIndex)))
            /\ UNCHANGED logVars
        BY <2>2, <3>3 DEF FollowLeader
      <4>4. net' \in [Channel -> Seq(Message)]
        BY <4>2, <4>3, <1>1, ReplyType
      <4> QED  BY <3>1, <4>3, <4>4, <1>4 DEF LogTypes, logVars
    <3> QED  BY <3>2, <3>3
  <2> QED  BY <2>1, <2>2 DEF HandleAppendReq
<1> QED  BY <1>5, <1>6 DEF HandleAppendReq, TypeOK, NodeTypes, LogTypes, tallyVars,
         leaderVars, ActTypes, TallyTypes, LeaderTypes

\* What a leader commits is an index of its log.
LEMMA AdvanceCommitType ==
  ASSUME TypeOK, NEW i \in Node, NEW match, AdvanceCommit(i, match)
  PROVE  commitIndex' \in [Node -> Nat]
<1>1. Committable(i, match) \subseteq Nat
  BY LenProperties DEF Committable, TypeOK, Log
<1> QED  BY <1>1 DEF AdvanceCommit, TypeOK

\* handleAppendResp and advanceCommit preserve the types.
LEMMA HandleAppendRespType ==
  ASSUME TypeOK, NEW i \in Node, NEW j \in Peers(i), HandleAppendResp(i, j)
  PROVE  ActTypes'
<1> DEFINE m == Head(net[<<j, i>>])
<1>1. net[<<j, i>>] # <<>> /\ m.kind = "AppendResp" /\ j \in Node
  BY DEF HandleAppendResp, Arrives, Peers
<1>2. m \in AppendResp
  <2>1. m \in Message
    BY <1>1, TakenType
  <2> QED  BY <2>1, <1>1 DEF Message, AppendReq, AppendResp, VoteReq, VoteResp
<1>3. m.term \in Nat /\ m.matchIndex \in Nat /\ m.conflictIndex \in Nat
  BY <1>2 DEF AppendResp
<1>4. net' \in [Channel -> Seq(Message)]
  BY <1>1, TakenType DEF HandleAppendResp
<1>5. heardFrom' \in [Node -> SUBSET Node]
  BY <1>1, HearsType DEF HandleAppendResp, TypeOK
<1>6. NodeTypes' /\ LeaderTypes' /\ commitIndex' \in [Node -> Nat]
  <2>1. CASE /\ BecomeFollower(i, m.term, None)
             /\ UNCHANGED <<leaderVars, commitIndex>>
    BY <2>1, <1>3, BecomeFollowerType, TypeParts DEF LeaderTypes, LogTypes, leaderVars
  <2>2. CASE LearnProgress(i, j, m)
    <3>1. NodeTypes'
      BY <2>2, TypeParts DEF LearnProgress, NodeTypes, nodeVars
    <3>2. CASE m.success
      <4>1. /\ matchIndex' = [matchIndex EXCEPT ![i][j] = m.matchIndex]
            /\ nextIndex' = [nextIndex EXCEPT ![i][j] = m.matchIndex + 1]
            /\ AdvanceCommit(i, matchIndex'[i])
        BY <2>2, <3>2 DEF LearnProgress
      <4>2. commitIndex' \in [Node -> Nat]
        BY <4>1, AdvanceCommitType
      <4>3. m.matchIndex + 1 \in Nat
        BY <1>3
      <4>4. LeaderTypes'
        <5> HIDE DEF m
        <5>1. matchIndex' \in [Node -> [Node -> Nat]]
          BY <4>1, <1>1, <1>3 DEF TypeOK
        <5>2. nextIndex' \in [Node -> [Node -> Nat]]
          BY <4>1, <4>3, <1>1 DEF TypeOK
        <5> QED  BY <5>1, <5>2 DEF LeaderTypes
      <4> QED  BY <3>1, <4>2, <4>4
    <3>3. CASE ~m.success
      <4>1. /\ nextIndex' = [nextIndex EXCEPT ![i][j] =
                               IF m.conflictIndex = 0 THEN 1 ELSE m.conflictIndex]
            /\ UNCHANGED <<matchIndex, commitIndex>>
        BY <2>2, <3>3 DEF LearnProgress
      <4> QED  BY <3>1, <4>1, <1>1, <1>3 DEF TypeOK, LeaderTypes
    <3> QED  BY <3>2, <3>3
  <2>3. CASE UNCHANGED <<nodeVars, leaderVars, commitIndex>>
    BY <2>3 DEF TypeOK, NodeTypes, LeaderTypes, nodeVars, leaderVars
  <2> QED  BY <2>1, <2>2, <2>3 DEF HandleAppendResp
<1> QED  BY <1>4, <1>5, <1>6
         DEF HandleAppendResp, TypeOK, NodeTypes, LeaderTypes, tallyVars, ActTypes,
         TallyTypes, LogTypes

\* handleVoteReq preserves the types.
LEMMA HandleVoteReqType ==
  ASSUME TypeOK, NEW i \in Node, NEW j \in Peers(i), HandleVoteReq(i, j)
  PROVE  ActTypes'
<1> DEFINE m == Head(net[<<j, i>>])
<1>1. net[<<j, i>>] # <<>> /\ m.kind = "VoteReq" /\ j \in Node
  BY DEF HandleVoteReq, Arrives, Peers
<1>2. m \in VoteReq
  <2>1. m \in Message
    BY <1>1, TakenType
  <2> QED  BY <2>1, <1>1 DEF Message, AppendReq, AppendResp, VoteReq, VoteResp
<1>3. m.term \in Nat /\ currentTerm[i] \in Nat
  BY <1>2 DEF VoteReq, TypeOK
<1>4. heardFrom' \in [Node -> SUBSET Node]
  BY <1>1, HearsType DEF HandleVoteReq, TypeOK
<1>5. NodeTypes' /\ net' \in [Channel -> Seq(Message)]
  <2>1. CASE AnswerPoll(i, j, m)
    <3>1. PICK granted \in BOOLEAN : Reply(i, j, VoteReply(currentTerm[i], granted, TRUE))
      BY <2>1 DEF AnswerPoll
    <3>2. VoteReply(currentTerm[i], granted, TRUE) \in Message
      BY <1>3, ReplyTypes
    <3>3. net' \in [Channel -> Seq(Message)]
      BY <3>1, <3>2, <1>1, ReplyType
    <3> QED  BY <2>1, <3>3, TypeParts DEF AnswerPoll, NodeTypes, nodeVars
  <2>2. CASE AnswerCampaign(i, j, m)
    <3> DEFINE newer == m.term > currentTerm[i]
               granted == /\ m.term >= currentTerm[i]
                          /\ newer \/ votedFor[i] \in {None, j}
                          /\ UpToDate(log[i], m.lastTerm, m.lastIndex)
               term == IF newer THEN m.term ELSE currentTerm[i]
    <3>1. /\ role' = [role EXCEPT ![i] = IF newer THEN "follower" ELSE @]
          /\ currentTerm' = [currentTerm EXCEPT ![i] = term]
          /\ leaderID' = [leaderID EXCEPT ![i] = IF newer THEN None ELSE @]
          /\ votedFor' = [votedFor EXCEPT ![i] = IF granted THEN j
                                                 ELSE IF newer THEN None ELSE @]
          /\ Reply(i, j, VoteReply(term, granted, FALSE))
      BY <2>2 DEF AnswerCampaign
    <3>2. granted \in BOOLEAN /\ term \in Nat
      BY <1>3
    <3> HIDE DEF granted, term, newer
    <3>3. VoteReply(term, granted, FALSE) \in Message
      BY <3>2, ReplyTypes
    <3>4. net' \in [Channel -> Seq(Message)]
      BY <3>1, <3>3, <1>1, ReplyType
    <3>5. NodeTypes'
      BY <3>1, <3>2, <1>1, TypeParts DEF NodeTypes, Role
    <3> QED  BY <3>4, <3>5
  <2> QED  BY <2>1, <2>2 DEF HandleVoteReq
<1> QED  BY <1>4, <1>5
         DEF HandleVoteReq, TypeOK, NodeTypes, tallyVars, logVars, leaderVars,
         ActTypes, TallyTypes, LogTypes, LeaderTypes

\* becomeLeader preserves the types.
LEMMA BecomeLeaderType ==
  ASSUME TypeOK, NEW i \in Node, NEW j \in Peers(i), net[<<j, i>>] # <<>>,
         NEW voters \in SUBSET Node, BecomeLeader(i, j, voters)
  PROVE  /\ NodeTypes' /\ LeaderTypes'
         /\ heardFrom' \in [Node -> SUBSET Node]
         /\ net' \in [Channel -> Seq(Message)]
         /\ elected' \subseteq Election
<1>1. Len(log[i]) \in Nat /\ currentTerm[i] \in Nat
  BY LenProperties DEF TypeOK, Log
<1>2. Len(log[i]) + 1 \in Nat /\ Len(log[i]) + 1 # 0
  BY <1>1
<1>4. \A k \in Peers(i) : AppendTo(i, k, currentTerm[i], Len(log[i]) + 1) \in Message
  BY <1>1, <1>2, AppendToType
<1>5. net' \in [Channel -> Seq(Message)]
  BY <1>4, TakenType, TransmitType DEF BecomeLeader
<1>6. NodeTypes'
  BY DEF BecomeLeader, TypeOK, NodeTypes, Role
<1>7. LeaderTypes'
  BY <1>2 DEF BecomeLeader, TypeOK, LeaderTypes
<1>8. elected' \subseteq Election
  BY <1>1 DEF BecomeLeader, TypeOK, Election
<1> QED  BY <1>5, <1>6, <1>7, <1>8 DEF BecomeLeader, TypeOK

\* handleVoteResp preserves the types.
LEMMA HandleVoteRespType ==
  ASSUME TypeOK, NEW i \in Node, NEW j \in Peers(i), HandleVoteResp(i, j)
  PROVE  ActTypes'
<1> DEFINE m == Head(net[<<j, i>>])
<1>1. net[<<j, i>>] # <<>> /\ m.kind = "VoteResp" /\ j \in Node
  BY DEF HandleVoteResp, Arrives, Peers
<1>2. m \in VoteResp
  <2>1. m \in Message
    BY <1>1, TakenType
  <2> QED  BY <2>1, <1>1 DEF Message, AppendReq, AppendResp, VoteReq, VoteResp
<1>3. m.term \in Nat
  BY <1>2 DEF VoteResp
<1>4. /\ NodeTypes /\ TallyTypes /\ LeaderTypes /\ heardFrom \in [Node -> SUBSET Node]
      /\ Taken(i, j) \in [Channel -> Seq(Message)] /\ elected \subseteq Election
  BY <1>1, TakenType, TypeParts
<1>5. Hears(i, j) => heardFrom' \in [Node -> SUBSET Node]
  BY <1>1, <1>4, HearsType
<1> HIDE DEF m
<1>6. /\ NodeTypes' /\ TallyTypes' /\ LeaderTypes'
      /\ heardFrom' \in [Node -> SUBSET Node]
      /\ net' \in [Channel -> Seq(Message)] /\ elected' \subseteq Election
  <2>1. CASE CountPollAnswer(i, j, m)
    <3>1. /\ LeaderTypes' /\ elected' \subseteq Election
          /\ heardFrom' \in [Node -> SUBSET Node]
      BY <2>1, <1>4, <1>5 DEF CountPollAnswer, LeaderTypes, leaderVars
    <3>2. CASE role[i] = "precandidate" /\ m.granted
      <4>1. preVotes' = [preVotes EXCEPT ![i] = @ \cup {j}]
        BY <2>1, <3>2 DEF CountPollAnswer
      <4>2. preVotes' \in [Node -> SUBSET Node]
        BY <4>1, <1>1, <1>4 DEF TallyTypes
      <4>3. CASE IsQuorum(preVotes'[i])
        <5>1. /\ Campaign(i)
              /\ Transmit(Taken(i, j), i,
                   [k \in Peers(i) |-> VoteRequest(i, currentTerm[i] + 1, FALSE)])
          BY <2>1, <3>2, <4>3 DEF CountPollAnswer
        <5>2. NodeTypes' /\ votes' \in [Node -> SUBSET Node]
          BY <5>1, <1>4, CampaignType
        <5>3. net' \in [Channel -> Seq(Message)]
          BY <5>1, <1>4, BroadcastVoteType
        <5> QED  BY <5>2, <5>3, <4>2, <3>1 DEF TallyTypes
      <4>4. CASE ~IsQuorum(preVotes'[i])
        <5>1. net' = Taken(i, j) /\ UNCHANGED <<nodeVars, votes>>
          BY <2>1, <3>2, <4>4 DEF CountPollAnswer
        <5> QED  BY <5>1, <4>2, <3>1, <1>4 DEF TallyTypes, NodeTypes, nodeVars
      <4> QED  BY <4>3, <4>4
    <3>3. CASE ~(role[i] = "precandidate" /\ m.granted)
      <4>1. net' = Taken(i, j) /\ UNCHANGED <<nodeVars, tallyVars>>
        BY <2>1, <3>3 DEF CountPollAnswer
      <4> QED  BY <4>1, <3>1, <1>4 DEF TallyTypes, NodeTypes, nodeVars, tallyVars
    <3> QED  BY <3>2, <3>3
  <2>2. CASE CountVote(i, j, m)
    <3> DEFINE voters == votes[i] \cup {j}
    <3>1. voters \in SUBSET Node /\ preVotes' = preVotes
      BY <2>2, <1>1, <1>4 DEF TallyTypes, CountVote
    <3>2. TallyTypes'
      BY <2>2, <3>1, <1>4 DEF CountVote, TallyTypes
    <3>3. CASE /\ net' = Taken(i, j) /\ Hears(i, j)
               /\ UNCHANGED <<nodeVars, leaderVars, elected>>
      BY <3>2, <3>3, <1>4, <1>5 DEF NodeTypes, LeaderTypes, nodeVars, leaderVars
    <3>4. CASE BecomeLeader(i, j, voters)
      BY <3>2, <3>4, <3>1, <1>1, BecomeLeaderType
    <3> QED  BY <2>2, <3>3, <3>4 DEF CountVote, nodeVars
  <2>3. CASE /\ BecomeFollower(i, m.term, None)
             /\ net' = Taken(i, j)
             /\ Hears(i, j)
             /\ UNCHANGED <<tallyVars, leaderVars, elected>>
    <3>1. NodeTypes'
      BY <2>3, <1>3, <1>4, BecomeFollowerType
    <3> QED  BY <3>1, <2>3, <1>4, <1>5 DEF TallyTypes, LeaderTypes, tallyVars, leaderVars
  <2> QED  BY <2>1, <2>2, <2>3 DEF HandleVoteResp, m
<1> QED  BY <1>6, TypeParts DEF HandleVoteResp, TypeOK, NodeTypes, TallyTypes,
         LeaderTypes, logVars, ActTypes, LogTypes

\* A probe preserves the types.
LEMMA ReceiveProbeType ==
  ASSUME TypeOK, NEW i \in Node, NEW j \in Peers(i), ReceiveProbe(i, j)
  PROVE  ActTypes'
<1>1. heardFrom' \in [Node -> SUBSET Node]
  BY HearsType DEF ReceiveProbe, TypeOK, Peers
<1> QED  BY <1>1 DEF ReceiveProbe, TypeOK, nodeVars, tallyVars, logVars, leaderVars,
         ActTypes, NodeTypes, TallyTypes, LogTypes, LeaderTypes

\* Propose preserves the types.
LEMMA ProposeType ==
  ASSUME TypeOK, NEW i \in Node, NEW cmd \in Cmd, Propose(i, cmd)
  PROVE  ActTypes'
<1>1. [term |-> currentTerm[i], cmd |-> cmd] \in Entry
  BY DEF TypeOK, Entry
<1>2. Append(log[i], [term |-> currentTerm[i], cmd |-> cmd]) \in Log
  BY <1>1, AppendType DEF TypeOK, Log
<1> QED  BY <1>2 DEF Propose, TypeOK, nodeVars, tallyVars, leaderVars, ActTypes,
         NodeTypes, TallyTypes, LogTypes, LeaderTypes

\* No action of the program leads out of TypeOK.
LEMMA NextType ==
  ASSUME TypeOK, NextIndexSet, [Next]_vars
  PROVE  TypeOK'
<1>1. ASSUME NEW i \in Node, BeginElection(i) \/ BeginPreVote(i) \/ LeaderTick(i)
      PROVE  ActTypes'
  BY <1>1, BeginElectionType, BeginPreVoteType, LeaderTickType
<1>2. ASSUME NEW i \in Node, NEW cmd \in Cmd, Propose(i, cmd)
      PROVE  ActTypes'
  BY <1>2, ProposeType
<1>3. ASSUME NEW i \in Node, NEW j \in Peers(i),
             \/ HandleAppendReq(i, j) \/ HandleAppendResp(i, j)
             \/ HandleVoteReq(i, j) \/ HandleVoteResp(i, j) \/ ReceiveProbe(i, j)
      PROVE  ActTypes'
  BY <1>3, HandleAppendReqType, HandleAppendRespType, HandleVoteReqType,
     HandleVoteRespType, ReceiveProbeType
<1>4. CASE UNCHANGED vars
  BY <1>4 DEF vars, nodeVars, tallyVars, logVars, leaderVars, TypeOK
<1>5. CASE Next
  <2>1. ActTypes'
    BY <1>1, <1>2, <1>3, <1>5 DEF Next, Act
  <2>2. forgotten' \subseteq Node \X Nat
    BY <1>5 DEF Next, RecordForgotten, TypeOK
  <2> QED  BY <2>1, <2>2
           DEF TypeOK, ActTypes, NodeTypes, TallyTypes, LogTypes, LeaderTypes
<1> QED  BY <1>4, <1>5

-----------------------------------------------------------------------------
\* A step that makes nobody a leader and writes no next index keeps NextIndexSet.
LEMMA NextIndexKept ==
  ASSUME NextIndexSet, UNCHANGED nextIndex,
         \A i \in Node : role'[i] = "leader" => role[i] = "leader"
  PROVE  NextIndexSet'
  BY DEF NextIndexSet

\* No action lets a leader forget where a member's log goes on.
LEMMA NextIndexStep ==
  ASSUME TypeOK, NextIndexSet, [Next]_vars
  PROVE  NextIndexSet'
<1>1. ASSUME NEW i \in Node, BeginElection(i) \/ BeginPreVote(i) \/ LeaderTick(i)
      PROVE  NextIndexSet'
  BY <1>1, NextIndexKept
     DEF BeginElection, BeginPreVote, LeaderTick, Campaign, BecomeFollower, leaderVars,
         nodeVars, TypeOK
<1>2. ASSUME NEW i \in Node, NEW cmd \in Cmd, Propose(i, cmd)
      PROVE  NextIndexSet'
  BY <1>2 DEF Propose, NextIndexSet, nodeVars, leaderVars
<1>3. ASSUME NEW i \in Node, NEW j \in Peers(i)
      PROVE  /\ HandleAppendReq(i, j) => NextIndexSet'
             /\ HandleVoteReq(i, j) => NextIndexSet'
             /\ ReceiveProbe(i, j) => NextIndexSet'
  <2>1. HandleAppendReq(i, j) => NextIndexSet'
    BY NextIndexKept DEF HandleAppendReq, RejectStaleAppend, FollowLeader,
       BecomeFollower, leaderVars, nodeVars, TypeOK
  <2>2. HandleVoteReq(i, j) => NextIndexSet'
    BY NextIndexKept DEF HandleVoteReq, AnswerPoll, AnswerCampaign, leaderVars,
       nodeVars, TypeOK
  <2>3. ReceiveProbe(i, j) => NextIndexSet'
    BY DEF ReceiveProbe, NextIndexSet, nodeVars, leaderVars
  <2> QED  BY <2>1, <2>2, <2>3
<1>4. ASSUME NEW i \in Node, NEW j \in Peers(i), HandleAppendResp(i, j)
      PROVE  NextIndexSet'
  <2> DEFINE m == Head(net[<<j, i>>])
  <2>1. m.matchIndex \in Nat /\ m.conflictIndex \in Nat
    <3>1. net[<<j, i>>] # <<>> /\ m.kind = "AppendResp"
      BY <1>4 DEF HandleAppendResp, Arrives
    <3>2. m \in Message
      BY <3>1, TakenType
    <3> QED  BY <3>1, <3>2 DEF Message, AppendReq, AppendResp, VoteReq, VoteResp
  <2> HIDE DEF m
  <2>2. CASE LearnProgress(i, j, m)
    <3>1. PICK n \in Nat \ {0} : nextIndex' = [nextIndex EXCEPT ![i][j] = n]
      <4>1. CASE m.success
        <5>1. m.matchIndex + 1 \in Nat \ {0}
          BY <2>1
        <5>2. nextIndex' = [nextIndex EXCEPT ![i][j] = m.matchIndex + 1]
          BY <2>2, <4>1 DEF LearnProgress
        <5> QED  BY <5>1, <5>2
      <4>2. CASE ~m.success
        <5>1. nextIndex' = [nextIndex EXCEPT ![i][j] =
                              IF m.conflictIndex = 0 THEN 1 ELSE m.conflictIndex]
          BY <2>2, <4>2 DEF LearnProgress
        <5>2. (IF m.conflictIndex = 0 THEN 1 ELSE m.conflictIndex) \in Nat \ {0}
          BY <2>1
        <5> QED  BY <5>1, <5>2
      <4> QED  BY <4>1, <4>2
    <3>2. role' = role
      BY <2>2 DEF LearnProgress, nodeVars
    <3> QED  BY <3>1, <3>2 DEF NextIndexSet, TypeOK
  <2>3. CASE ~LearnProgress(i, j, m)
    <3>1. /\ UNCHANGED nextIndex
          /\ BecomeFollower(i, m.term, None) \/ UNCHANGED nodeVars
      BY <1>4, <2>3 DEF HandleAppendResp, leaderVars, m
    <3> QED  BY <3>1, NextIndexKept DEF BecomeFollower, nodeVars, TypeOK
  <2> QED  BY <2>2, <2>3
<1>5. ASSUME NEW i \in Node, NEW j \in Peers(i), HandleVoteResp(i, j)
      PROVE  NextIndexSet'
  <2>1. CASE \E voters : BecomeLeader(i, j, voters)
    <3>1. Len(log[i]) + 1 # 0
      BY LenProperties DEF TypeOK, Log
    <3> QED  BY <2>1, <3>1 DEF BecomeLeader, NextIndexSet, TypeOK
  <2>2. CASE ~\E voters : BecomeLeader(i, j, voters)
    <3>1. /\ UNCHANGED nextIndex
          /\ UNCHANGED role \/ role' = [role EXCEPT ![i] = "follower"]
             \/ role' = [role EXCEPT ![i] = "candidate"]
      BY <1>5, <2>2 DEF HandleVoteResp, CountPollAnswer, CountVote, Campaign,
         BecomeFollower, leaderVars, nodeVars
    <3> QED  BY <3>1, NextIndexKept DEF TypeOK
  <2> QED  BY <2>1, <2>2
<1>6. CASE UNCHANGED vars
  BY <1>6 DEF vars, nodeVars, leaderVars, NextIndexSet
<1> QED  BY <1>1, <1>2, <1>3, <1>4, <1>5, <1>6 DEF Next, Act

\* In every mode, for any cluster and any loss of messages, every variable and
\* every message under way has its type and a leader's next indexes are set:
\* broadcastAppend never meets next == 0 (handlers.go) and no index it computes
\* is negative.
THEOREM TypeCorrectness == Spec => [](TypeOK /\ NextIndexSet)
<1>1. Init => TypeOK /\ NextIndexSet
  <2>1. Init => NextIndexSet
    BY DEF Init, NextIndexSet
  <2> QED  BY <2>1, InitType
<1>2. (TypeOK /\ NextIndexSet) /\ [Next]_vars => (TypeOK /\ NextIndexSet)'
  BY NextType, NextIndexStep
<1> QED  BY <1>1, <1>2, PTL DEF Spec

\* The types alone: every message under way is one that a handler decodes, and no
\* index is negative, in every mode and for any cluster and loss.
THEOREM RaftTypes == Spec => []TypeOK
BY TypeCorrectness, PTL

-----------------------------------------------------------------------------

IsPoll(m) == m.kind = "VoteReq" /\ m.preVote

\* A deaf node is a follower or polls, nothing is on its way to it, and all that it
\* has sent is polls.
DeafInv ==
  \A d \in Deaf :
    /\ role[d] \in {"follower", "precandidate"}
    /\ \A j \in Peers(d) : net[<<j, d>>] = <<>>
    /\ \A j \in Peers(d) : \A n \in DOMAIN net[<<d, j>>] : IsPoll(net[<<d, j>>][n])

\* With the edges as in before, node i sends: on its own edges, and to no deaf node.
SendsFrom(i, before) ==
  \A c \in Channel : c[1] # i \/ c[2] \in Deaf => net'[c] = before[c]

\* The other nodes are as they were.
ActsAlone(i) ==
  \A k \in Peers(i) : /\ role'[k] = role[k] /\ currentTerm'[k] = currentTerm[k]
                      /\ votedFor'[k] = votedFor[k] /\ leaderID'[k] = leaderID[k]

-----------------------------------------------------------------------------
\* A transmission sends from its node.
LEMMA TransmitSendsFrom ==
  ASSUME NEW before, NEW i, NEW out, Transmit(before, i, out)
  PROVE  SendsFrom(i, before)
BY DEF Transmit, SendsFrom

\* So does a handler that answers nothing.
LEMMA NothingSendsFrom ==
  ASSUME NEW before, NEW i, net' = before
  PROVE  SendsFrom(i, before)
BY DEF SendsFrom

\* A node that calls becomeFollower or campaigns leaves the others alone.
LEMMA AloneByUpdate ==
  ASSUME NEW i \in Node, NEW a, NEW b, NEW c, NEW d, TypeOK,
         role' = [role EXCEPT ![i] = a], currentTerm' = [currentTerm EXCEPT ![i] = b],
         votedFor' = [votedFor EXCEPT ![i] = c], leaderID' = [leaderID EXCEPT ![i] = d]
  PROVE  ActsAlone(i)
BY DEF ActsAlone, TypeOK, Peers

\* A node that does nothing leaves the others alone.
LEMMA AloneUnchanged ==
  ASSUME NEW i \in Node, UNCHANGED nodeVars
  PROVE  ActsAlone(i)
BY DEF ActsAlone, nodeVars

-----------------------------------------------------------------------------
\* A poll of i adds polls to the edges that leave i.
LEMMA PollActs ==
  ASSUME TypeOK, NEW i \in Node, BeginPreVote(i)
  PROVE  /\ SendsFrom(i, net) /\ ActsAlone(i) /\ role'[i] = "precandidate"
         /\ \A j \in Peers(i) :
              \/ net'[<<i, j>>] = net[<<i, j>>]
              \/ \E m \in Message : IsPoll(m) /\ net'[<<i, j>>] = Append(net[<<i, j>>], m)
<1> DEFINE poll == VoteRequest(i, currentTerm[i] + 1, TRUE)
<1>1. currentTerm[i] + 1 \in Nat
  BY DEF TypeOK
<1>2. poll \in Message /\ IsPoll(poll)
  BY <1>1, VoteRequestType DEF IsPoll, VoteRequest
<1>3. Transmit(net, i, [j \in Peers(i) |-> poll])
  BY DEF BeginPreVote
<1>4. ActsAlone(i) /\ role'[i] = "precandidate"
  BY DEF BeginPreVote, ActsAlone, TypeOK, Peers
<1> HIDE DEF poll
<1>5. SendsFrom(i, net)
  BY <1>3, TransmitSendsFrom
<1>6. ASSUME NEW j \in Peers(i)
      PROVE  net'[<<i, j>>] = net[<<i, j>>] \/ net'[<<i, j>>] = Append(net[<<i, j>>], poll)
  BY <1>3 DEF Transmit, Channel, Peers
<1> QED  BY <1>2, <1>4, <1>5, <1>6

\* A heartbeat or a check of a leader.
LEMMA LeaderActs ==
  ASSUME TypeOK, NEW i \in Node, LeaderTick(i)
  PROVE  SendsFrom(i, net) /\ ActsAlone(i) /\ role[i] = "leader"
<1>1. PICK heartbeat \in BOOLEAN, check \in BOOLEAN :
        /\ Transmit(net, i, IF heartbeat
                           THEN [j \in Peers(i) |->
                                   AppendTo(i, j, currentTerm[i], nextIndex[i][j])]
                           ELSE Silent)
        /\ IF check /\ ~HasHeardFromQuorum(i)
           THEN BecomeFollower(i, currentTerm[i], None)
           ELSE UNCHANGED nodeVars
  BY DEF LeaderTick
<1>2. ActsAlone(i)
  BY <1>1, AloneByUpdate, AloneUnchanged DEF BecomeFollower
<1>3. SendsFrom(i, net)
  BY <1>1, TransmitSendsFrom
<1> QED  BY <1>2, <1>3 DEF LeaderTick

\* A handler takes its message, and its node acts.
Handles(i, j) ==
  \/ HandleAppendReq(i, j) \/ HandleAppendResp(i, j)
  \/ HandleVoteReq(i, j) \/ HandleVoteResp(i, j)

\* Each of the four does only that.
LEMMA HandlerActs ==
  ASSUME TypeOK, NEW i \in Node, NEW j \in Peers(i), Handles(i, j)
  PROVE  net[<<j, i>>] # <<>> /\ SendsFrom(i, Taken(i, j)) /\ ActsAlone(i)
<1> DEFINE m == Head(net[<<j, i>>])
<1>1. net[<<j, i>>] # <<>>
  BY DEF Handles, HandleAppendReq, HandleAppendResp, HandleVoteReq, HandleVoteResp, Arrives
<1>2. CASE HandleAppendReq(i, j)
  <2>1. RejectStaleAppend(i, j, m) \/ FollowLeader(i, j, m)
    BY <1>2 DEF HandleAppendReq
  <2> HIDE DEF m
  <2>2. SendsFrom(i, Taken(i, j))
    BY <2>1, TransmitSendsFrom DEF RejectStaleAppend, FollowLeader, Reply
  <2>3. CASE RejectStaleAppend(i, j, m)
    BY <1>1, <2>2, <2>3, AloneUnchanged DEF RejectStaleAppend
  <2>4. CASE FollowLeader(i, j, m)
    <3>1. CASE m.term > currentTerm[i] \/ role[i] # "follower"
      BY <1>1, <2>2, <2>4, <3>1, AloneByUpdate DEF FollowLeader, BecomeFollower
    <3>2. CASE ~(m.term > currentTerm[i] \/ role[i] # "follower")
      <4>1. leaderID' = [leaderID EXCEPT ![i] = j] /\ UNCHANGED <<role, currentTerm, votedFor>>
        BY <2>4, <3>2 DEF FollowLeader
      <4> QED  BY <1>1, <2>2, <4>1 DEF ActsAlone, TypeOK, Peers
    <3> QED  BY <3>1, <3>2
  <2> QED  BY <2>1, <2>3, <2>4
<1>3. CASE HandleAppendResp(i, j)
  <2>1. net' = Taken(i, j)
    BY <1>3 DEF HandleAppendResp
  <2>2. BecomeFollower(i, m.term, None) \/ UNCHANGED nodeVars
    BY <1>3 DEF HandleAppendResp, LearnProgress
  <2> HIDE DEF m
  <2> QED  BY <1>1, <2>1, <2>2, NothingSendsFrom, AloneByUpdate, AloneUnchanged DEF BecomeFollower
<1>4. CASE HandleVoteReq(i, j)
  <2>1. AnswerPoll(i, j, m) \/ AnswerCampaign(i, j, m)
    BY <1>4 DEF HandleVoteReq
  <2> HIDE DEF m
  <2>2. CASE AnswerPoll(i, j, m)
    BY <1>1, <2>2, TransmitSendsFrom, AloneUnchanged DEF AnswerPoll, Reply
  <2>3. CASE AnswerCampaign(i, j, m)
    <3>1. SendsFrom(i, Taken(i, j))
      BY <2>3, TransmitSendsFrom DEF AnswerCampaign, Reply
    <3>2. ActsAlone(i)
      BY <2>3 DEF AnswerCampaign, ActsAlone, TypeOK, Peers
    <3> QED  BY <1>1, <3>1, <3>2
  <2> QED  BY <2>1, <2>2, <2>3
<1>5. CASE HandleVoteResp(i, j)
  <2>1. \/ CountPollAnswer(i, j, m)
        \/ CountVote(i, j, m)
        \/ BecomeFollower(i, m.term, None) /\ net' = Taken(i, j)
    BY <1>5 DEF HandleVoteResp
  <2> HIDE DEF m
  <2>2. CASE CountPollAnswer(i, j, m)
    <3>1. \/ Campaign(i) /\ \E out : Transmit(Taken(i, j), i, out)
          \/ UNCHANGED nodeVars /\ net' = Taken(i, j)
      BY <2>2 DEF CountPollAnswer
    <3>2. Campaign(i) => ActsAlone(i)
      BY DEF Campaign, ActsAlone, TypeOK, Peers
    <3> QED  BY <1>1, <3>1, <3>2, TransmitSendsFrom, NothingSendsFrom, AloneUnchanged
  <2>3. CASE CountVote(i, j, m)
    <3>1. \/ BecomeLeader(i, j, votes[i] \cup {j})
          \/ UNCHANGED nodeVars /\ net' = Taken(i, j)
      BY <2>3 DEF CountVote
    <3>2. CASE BecomeLeader(i, j, votes[i] \cup {j})
      <4>1. SendsFrom(i, Taken(i, j))
        BY <3>2, TransmitSendsFrom DEF BecomeLeader
      <4>2. ActsAlone(i)
        BY <3>2 DEF BecomeLeader, ActsAlone, TypeOK, Peers
      <4> QED  BY <1>1, <4>1, <4>2
    <3> QED  BY <1>1, <3>1, <3>2, NothingSendsFrom, AloneUnchanged
  <2>4. CASE BecomeFollower(i, m.term, None) /\ net' = Taken(i, j)
    BY <1>1, <2>4, NothingSendsFrom, AloneByUpdate DEF BecomeFollower
  <2> QED  BY <2>1, <2>2, <2>3, <2>4
<1> QED  BY <1>2, <1>3, <1>4, <1>5 DEF Handles

-----------------------------------------------------------------------------
\* A deaf node only polls, so it stays within DeafInv.
LEMMA DeafStep ==
  ASSUME TypeOK, DeafInv, Mode # "baseline", [Next]_vars
  PROVE  DeafInv'
<1>1. SUFFICES ASSUME NEW d \in Deaf
               PROVE  /\ role'[d] \in {"follower", "precandidate"}
                      /\ \A j \in Peers(d) : net'[<<j, d>>] = <<>>
                      /\ \A j \in Peers(d) : \A n \in DOMAIN net'[<<d, j>>] :
                           IsPoll(net'[<<d, j>>][n])
  BY DEF DeafInv
<1>2. /\ d \in Node /\ role[d] \in {"follower", "precandidate"}
      /\ \A j \in Peers(d) : net[<<j, d>>] = <<>>
      /\ \A j \in Peers(d) : \A n \in DOMAIN net[<<d, j>>] : IsPoll(net[<<d, j>>][n])
      /\ \A j \in Peers(d) : /\ <<d, j>> \in Channel /\ net[<<d, j>>] \in Seq(Message)
                             /\ <<j, d>> \in Channel
  BY DeafAssumption DEF DeafInv, Channel, Peers, TypeOK
<1>3. CASE UNCHANGED <<role, net>>
  BY <1>2, <1>3
<1>4. ASSUME NEW i \in Node, BeginPreVote(i)
      PROVE  /\ role'[d] \in {"follower", "precandidate"}
             /\ \A j \in Peers(d) : net'[<<j, d>>] = <<>>
             /\ \A j \in Peers(d) : \A n \in DOMAIN net'[<<d, j>>] : IsPoll(net'[<<d, j>>][n])
  <2>1. SendsFrom(i, net) /\ ActsAlone(i) /\ role'[i] = "precandidate"
    BY <1>4, PollActs
  <2>2. role'[d] \in {"follower", "precandidate"}
    BY <1>2, <2>1 DEF ActsAlone, Peers
  <2>3. \A j \in Peers(d) : net'[<<j, d>>] = <<>>
    BY <1>2, <2>1 DEF SendsFrom
  <2>4. ASSUME NEW j \in Peers(d), NEW n \in DOMAIN net'[<<d, j>>]
        PROVE  IsPoll(net'[<<d, j>>][n])
    <3>1. CASE net'[<<d, j>>] = net[<<d, j>>]
      BY <1>2, <3>1
    <3>2. ASSUME NEW m \in Message, IsPoll(m), net'[<<d, j>>] = Append(net[<<d, j>>], m)
          PROVE  IsPoll(net'[<<d, j>>][n])
      <4>1. /\ Len(net[<<d, j>>]) \in Nat /\ DOMAIN net[<<d, j>>] = 1..Len(net[<<d, j>>])
            /\ n \in 1..(Len(net[<<d, j>>]) + 1)
        BY <1>2, <3>2, LenProperties
      <4>2. CASE n \in DOMAIN net[<<d, j>>]
        BY <1>2, <3>2, <4>1, <4>2
      <4>3. CASE n = Len(net[<<d, j>>]) + 1
        BY <1>2, <3>2, <4>1, <4>3
      <4> QED  BY <4>1, <4>2, <4>3
    <3>3. CASE i = d
      BY <1>4, <3>1, <3>2, <3>3, PollActs
    <3>4. CASE i # d
      BY <1>2, <2>1, <3>1, <3>4 DEF SendsFrom
    <3> QED  BY <3>3, <3>4
  <2> QED  BY <2>2, <2>3, <2>4
<1>5. ASSUME NEW i \in Node, LeaderTick(i)
      PROVE  /\ role'[d] \in {"follower", "precandidate"}
             /\ \A j \in Peers(d) : net'[<<j, d>>] = <<>>
             /\ \A j \in Peers(d) : \A n \in DOMAIN net'[<<d, j>>] : IsPoll(net'[<<d, j>>][n])
  <2>1. SendsFrom(i, net) /\ ActsAlone(i) /\ role[i] = "leader"
    BY <1>5, LeaderActs
  <2>2. i # d /\ role'[d] = role[d]
    BY <1>2, <2>1 DEF ActsAlone, Peers
  <2>3. \A j \in Peers(d) : net'[<<j, d>>] = net[<<j, d>>] /\ net'[<<d, j>>] = net[<<d, j>>]
    BY <1>2, <2>1, <2>2 DEF SendsFrom
  <2> QED  BY <1>2, <2>2, <2>3
<1>6. ASSUME NEW i \in Node, NEW j \in Peers(i), Handles(i, j)
      PROVE  /\ role'[d] \in {"follower", "precandidate"}
             /\ \A k \in Peers(d) : net'[<<k, d>>] = <<>>
             /\ \A k \in Peers(d) : \A n \in DOMAIN net'[<<d, k>>] : IsPoll(net'[<<d, k>>][n])
  <2>1. net[<<j, i>>] # <<>> /\ SendsFrom(i, Taken(i, j)) /\ ActsAlone(i)
    BY <1>6, HandlerActs
  <2>2. i # d /\ role'[d] = role[d]
    BY <1>2, <2>1 DEF ActsAlone, Peers
  <2>3. net \in [Channel -> Seq(Message)]
    BY DEF TypeOK
  <2>4. \A k \in Peers(d) : /\ net'[<<k, d>>] = net[<<k, d>>]
                            /\ \/ net'[<<d, k>>] = net[<<d, k>>]
                               \/ /\ <<d, k>> = <<j, i>>
                                  /\ net'[<<d, k>>] = Tail(net[<<d, k>>])
    BY <1>2, <2>1, <2>2, <2>3 DEF SendsFrom, Taken
  <2>5. ASSUME NEW k \in Peers(d), NEW n \in DOMAIN net'[<<d, k>>]
        PROVE  IsPoll(net'[<<d, k>>][n])
    <3>1. CASE net'[<<d, k>>] = net[<<d, k>>]
      BY <1>2, <3>1
    <3>2. CASE net[<<d, k>>] # <<>> /\ net'[<<d, k>>] = Tail(net[<<d, k>>])
      <4>1. n \in 1..(Len(net[<<d, k>>]) - 1) /\ net'[<<d, k>>][n] = net[<<d, k>>][n + 1]
            /\ Len(net[<<d, k>>]) \in Nat
        BY <1>2, <3>2, HeadTailProperties, LenProperties
      <4>2. n + 1 \in DOMAIN net[<<d, k>>]
        BY <1>2, <4>1, LenProperties
      <4> QED  BY <1>2, <4>1, <4>2
    <3> QED  BY <2>1, <2>4, <3>1, <3>2
  <2> QED  BY <1>2, <2>2, <2>4, <2>5
<1> QED  BY <1>1, <1>3, <1>4, <1>5, <1>6
         DEF Next, Act, Handles, BeginElection, Propose, ReceiveProbe, vars, nodeVars

\* Whoever handles a message of a deaf node answers a poll, which changes nothing.
LEMMA DeafIsHarmless ==
  ASSUME TypeOK, DeafInv, Mode # "baseline", [Next]_vars,
         NEW d \in Deaf, NEW i \in Peers(d), Len(net'[<<d, i>>]) < Len(net[<<d, i>>])
  PROVE  UNCHANGED nodeVars
<1> DEFINE c == <<d, i>>
<1>1. /\ d \in Node /\ c \in Channel /\ net \in [Channel -> Seq(Message)]
      /\ net[c] \in Seq(Message) /\ Len(net[c]) \in Nat
      /\ i \in Node /\ d \in Peers(i)
  BY DeafAssumption, LenProperties DEF TypeOK, Channel, Peers
<1>2. net'[c] # net[c]
  BY <1>1
<1>3. \A m \in Message : net'[c] # Append(net[c], m)
  <2>1. ASSUME NEW m \in Message PROVE Len(Append(net[c], m)) = Len(net[c]) + 1
    BY <1>1
  <2> QED  BY <1>1, <2>1
<1>4. ASSUME NEW k \in Node, BeginPreVote(k) PROVE FALSE
  <2>1. SendsFrom(k, net)
    BY <1>4, PollActs
  <2>2. k = d
    BY <1>1, <1>2, <2>1 DEF SendsFrom
  <2> QED  BY <1>2, <1>3, <1>4, <2>2, PollActs
<1>5. ASSUME NEW k \in Node, LeaderTick(k) PROVE FALSE
  <2>1. SendsFrom(k, net) /\ role[k] = "leader"
    BY <1>5, LeaderActs
  <2>2. k = d
    BY <1>1, <1>2, <2>1 DEF SendsFrom
  <2> QED  BY <2>1, <2>2 DEF DeafInv
<1>6. ASSUME NEW k \in Node, NEW j \in Peers(k), Handles(k, j) PROVE UNCHANGED nodeVars
  <2>1. net[<<j, k>>] # <<>> /\ SendsFrom(k, Taken(k, j))
    BY <1>6, HandlerActs
  <2>2. k # d
    BY <2>1 DEF DeafInv
  <2>3. net'[c] = Taken(k, j)[c]
    BY <1>1, <2>1, <2>2 DEF SendsFrom
  <2>4. <<j, k>> = c
    BY <1>1, <1>2, <2>3 DEF Taken
  <2>5. j = d /\ k = i
    BY <2>4
  <2>6. 1 \in DOMAIN net[c] /\ Head(net[c]) = net[c][1]
    BY <1>1, <2>1, <2>4, HeadTailProperties, LenProperties, EmptySeq
  <2>7. IsPoll(Head(net[<<j, k>>]))
    BY <2>4, <2>5, <2>6 DEF DeafInv
  <2>8. HandleVoteReq(k, j)
    BY <1>6, <2>7 DEF Handles, HandleAppendReq, HandleAppendResp, HandleVoteResp, Arrives, IsPoll
  <2> QED  BY <2>7, <2>8 DEF HandleVoteReq, AnswerPoll, AnswerCampaign, IsPoll
<1> QED  BY <1>2, <1>4, <1>5, <1>6
         DEF Next, Act, Handles, BeginElection, Propose, ReceiveProbe, vars, nodeVars

\* With a poll before every campaign, a node that hears nobody changes nobody's role,
\* term, vote or leader, in every cluster and whatever is lost or delayed.
THEOREM PollStopsOneWayNode == Mode # "baseline" /\ Spec => OneWayNodeCannotDisrupt
<1>1. Init => DeafInv
  BY DeafAssumption DEF Init, DeafInv, Channel, Peers
<1>2. Mode # "baseline" /\ TypeOK /\ DeafInv /\ [Next]_vars => DeafInv'
  BY DeafStep
<1>3. Mode # "baseline" /\ TypeOK /\ DeafInv /\ [Next]_vars =>
        [\A d \in Deaf : \A i \in Peers(d) :
           Len(net'[<<d, i>>]) < Len(net[<<d, i>>]) =>
             /\ role'[i] = role[i] /\ currentTerm'[i] = currentTerm[i]
             /\ votedFor'[i] = votedFor[i] /\ leaderID'[i] = leaderID[i]]_vars
  BY DeafIsHarmless DEF nodeVars
<1> QED
  <2>1. CASE Mode # "baseline"
    <3>1. TypeOK /\ DeafInv /\ [Next]_vars => DeafInv'
      BY <1>2, <2>1
    <3>2. TypeOK /\ DeafInv /\ [Next]_vars =>
            [\A d \in Deaf : \A i \in Peers(d) :
               Len(net'[<<d, i>>]) < Len(net[<<d, i>>]) =>
                 /\ role'[i] = role[i] /\ currentTerm'[i] = currentTerm[i]
                 /\ votedFor'[i] = votedFor[i] /\ leaderID'[i] = leaderID[i]]_vars
      BY <1>3, <2>1
    <3> QED  BY <1>1, <3>1, <3>2, TypeCorrectness, PTL DEF Spec, OneWayNodeCannotDisrupt
  <2>2. CASE Mode = "baseline"
    BY <2>2
  <2> QED  BY <2>1, <2>2

-----------------------------------------------------------------------------
\* Elections.

\* i gives its vote of the term it ends the step in to c.
Grants(i, c, t) ==
  /\ t = currentTerm'[i]
  /\ votedFor'[i] = c
  /\ t > currentTerm[i] \/ votedFor[i] \in {None, c}

\* i wins the election of its term.
Wins(i) ==
  /\ role[i] = "candidate" /\ role'[i] = "leader"
  /\ currentTerm'[i] = currentTerm[i]
  /\ \E V \in SUBSET Node :
       /\ IsQuorum(V) /\ i \in V
       /\ \A v \in V \ {i} : Voted(v, i, currentTerm[i])
       /\ elected' = elected \cup {[term |-> currentTerm[i], leader |-> i, voters |-> V]}

\* In baseline mode i does not poll, and as a follower or leader keeps its vote.
KeepsVote(i) ==
  Mode = "baseline" =>
    /\ role'[i] # "precandidate"
    /\ currentTerm'[i] = currentTerm[i] /\ role[i] \in {"follower", "leader"}
         /\ votedFor[i] # None => votedFor'[i] = votedFor[i]

\* i leads term t, before the step or after it.
Leads(i, t) ==
  \/ role[i] = "leader" /\ currentTerm[i] = t
  \/ role'[i] = "leader" /\ currentTerm'[i] = t

ElectionStep(i) ==
  /\ \A k \in Peers(i) :
       /\ role'[k] = role[k] /\ currentTerm'[k] = currentTerm[k]
       /\ votedFor'[k] = votedFor[k] /\ votes'[k] = votes[k]
  /\ currentTerm[i] <= currentTerm'[i]
  /\ KeepsVote(i)
  /\ currentTerm'[i] = currentTerm[i] =>
       /\ role[i] # "candidate" => role'[i] # "candidate"
       /\ role[i] = "leader" /\ votedFor'[i] = votedFor[i] => role'[i] = "leader"
  /\ role'[i] \in {"candidate", "leader"} => votedFor'[i] = i /\ i \in votes'[i]
  /\ \A v \in Node : \A c \in Peers(v) : \A t :
       Voted(v, c, t)' => Voted(v, c, t) \/ (v = i /\ Grants(i, c, t))
  /\ Wins(i) \/ /\ elected' = elected
                /\ role'[i] = "leader" =>
                     role[i] = "leader" /\ currentTerm'[i] = currentTerm[i]
  /\ \A k \in Node : \A j \in Peers(k) : \A n \in DOMAIN net'[<<k, j>>] :
       \/ \E o \in DOMAIN net[<<k, j>>] : net'[<<k, j>>][n] = net[<<k, j>>][o]
       \/ net'[<<k, j>>][n].kind # "AppendReq"
       \/ k = i /\ Leads(i, net'[<<k, j>>][n].term)

-----------------------------------------------------------------------------
\* Voted ranges over the terms that the invariants look at.
LEMMA VotedTerm ==
  ASSUME NEW v, NEW c, NEW t, Voted(v, c, t)
  PROVE  t \in VoteTerms(v, c)
  BY DEF Voted, VoteCounted, VoteUnderWay, VoteTerms

\* A vote binds, whatever its term.
LEMMA VoteBindsAt ==
  ASSUME VoteBinds, NEW v \in Node, NEW c \in Peers(v), NEW t, Voted(v, c, t)
  PROVE  t <= currentTerm[v] /\ (currentTerm[v] = t /\ Remembers(v, t) => votedFor[v] = c)
  BY VotedTerm DEF VoteBinds

\* A vote is single, whatever its term.
LEMMA OneVoteAt ==
  ASSUME OneVote, NEW v \in Node, NEW c \in Peers(v), NEW d \in Peers(v), NEW t,
         Remembers(v, t), Voted(v, c, t), Voted(v, d, t)
  PROVE  c = d
  BY VotedTerm DEF OneVote

\* Who remembers after a step remembered before, and forgot nothing in it.
LEMMA RememberedBefore ==
  ASSUME RecordForgotten, NEW v \in Node, NEW t, Remembers(v, t)'
  PROVE  /\ Remembers(v, t)
         /\ currentTerm[v] = t /\ currentTerm'[v] = t =>
              /\ votedFor[v] \notin {None, v} => votedFor'[v] = votedFor[v]
              /\ role[v] = "leader" => votedFor'[v] = votedFor[v]
  BY DEF RecordForgotten, Remembers, ForgetsVote

\* Terms of votes are numbers.
LEMMA VotedNat ==
  ASSUME TypeOK, NEW v \in Node, NEW c \in Peers(v), NEW t, Voted(v, c, t)
  PROVE  t \in Nat
<1>1. CASE VoteCounted(v, c, t)
  BY <1>1 DEF VoteCounted, TypeOK, Peers
<1>2. CASE VoteUnderWay(v, c, t)
  <2>1. PICK n \in DOMAIN net[<<v, c>>] :
          net[<<v, c>>][n].kind = "VoteResp" /\ net[<<v, c>>][n].term = t
    BY <1>2 DEF VoteUnderWay
  <2>2. net[<<v, c>>] \in Seq(Message)
    BY DEF TypeOK, Channel, Peers
  <2>3. net[<<v, c>>][n] \in Message
    BY <2>1, <2>2, ElementOfSeq, LenProperties
  <2> QED  BY <2>1, <2>3 DEF Message, AppendReq, AppendResp, VoteReq, VoteResp
<1> QED  BY <1>1, <1>2 DEF Voted

\* Two majorities share a member.
LEMMA QuorumsMeet ==
  ASSUME NEW V \in SUBSET Node, NEW W \in SUBSET Node, IsQuorum(V), IsQuorum(W)
  PROVE  V \cap W # {}
<1>1. IsFiniteSet(Node)
  BY NodeAssumption
<1>2. Cardinality(Node) \in Nat
  BY <1>1, FS_CardinalityType
<1>3. Cardinality(V) + Cardinality(W) > Cardinality(Node)
  <2>1. Cardinality(V) \in Nat /\ Cardinality(W) \in Nat
    BY <1>1, FS_Subset, FS_CardinalityType
  <2>2. \A n, x, y \in Nat : x >= (n \div 2) + 1 /\ y >= (n \div 2) + 1 => x + y > n
    OBVIOUS
  <2> QED  BY <1>2, <2>1, <2>2 DEF IsQuorum
<1> QED  BY <1>1, <1>3, FS_MajoritiesIntersect

-----------------------------------------------------------------------------
\* What such a step preserves.

\* A step that creates only binding votes keeps VoteBinds.
LEMMA VoteBindsStep ==
  ASSUME TypeOK, TypeOK', ElectionInv, RecordForgotten, NEW i \in Node, ElectionStep(i)
  PROVE  VoteBinds'
<1> SUFFICES ASSUME NEW v \in Node, NEW c \in Peers(v), NEW t, Voted(v, c, t)'
             PROVE  /\ t <= currentTerm'[v]
                    /\ currentTerm'[v] = t /\ Remembers(v, t)' => votedFor'[v] = c
  BY DEF VoteBinds
<1>1. CASE v = i /\ Grants(i, c, t)
  <2>1. currentTerm'[v] \in Nat
    BY DEF TypeOK
  <2> QED  BY <1>1, <2>1 DEF Grants
<1>2. CASE Voted(v, c, t)
  <2>1. t <= currentTerm[v] /\ (currentTerm[v] = t /\ Remembers(v, t) => votedFor[v] = c)
    BY <1>2, VoteBindsAt DEF ElectionInv
  <2>2. t \in Nat /\ currentTerm[v] \in Nat /\ currentTerm'[v] \in Nat
    BY <1>2, VotedNat DEF TypeOK
  <2>3. currentTerm[v] <= currentTerm'[v]
    BY <2>2 DEF ElectionStep, Peers
  <2>4. ASSUME currentTerm'[v] = t, Remembers(v, t)'
        PROVE  votedFor'[v] = c
    <3>1. currentTerm[v] = t
      BY <2>1, <2>2, <2>3, <2>4
    <3>2. votedFor[v] = c /\ votedFor[v] \notin {None, v}
      BY <2>1, <2>4, <3>1, RememberedBefore, NodeAssumption DEF Peers
    <3> QED  BY <2>4, <3>1, <3>2, RememberedBefore
  <2> QED  BY <2>1, <2>2, <2>3, <2>4
<1> QED  BY <1>1, <1>2 DEF ElectionStep

\* A step that creates only binding votes keeps OneVote.
LEMMA OneVoteStep ==
  ASSUME TypeOK, TypeOK', ElectionInv, RecordForgotten, NEW i \in Node, ElectionStep(i)
  PROVE  OneVote'
<1> SUFFICES ASSUME NEW v \in Node, NEW c \in Peers(v), NEW d \in Peers(v), NEW t,
                    Remembers(v, t)', Voted(v, c, t)', Voted(v, d, t)'
             PROVE  c = d
  BY DEF OneVote
<1>1. /\ Voted(v, c, t) \/ (v = i /\ Grants(i, c, t))
      /\ Voted(v, d, t) \/ (v = i /\ Grants(i, d, t))
      /\ Remembers(v, t)
  BY RememberedBefore DEF ElectionStep
<1>2. ASSUME NEW x \in Peers(v), NEW y \in Peers(v),
             Voted(v, x, t), v = i, Grants(i, y, t)
      PROVE  x = y
  <2>1. t <= currentTerm[v] /\ (currentTerm[v] = t => votedFor[v] = x)
    BY <1>1, <1>2, VoteBindsAt DEF ElectionInv
  <2>2. t \in Nat /\ currentTerm[v] \in Nat
    BY <1>2, VotedNat DEF TypeOK
  <2>3. currentTerm[v] <= t
    BY <1>2 DEF ElectionStep, Grants
  <2>4. votedFor[v] = x /\ votedFor[v] \in {None, y}
    BY <1>2, <2>1, <2>2, <2>3 DEF Grants
  <2> QED  BY <2>4, NodeAssumption DEF Peers
<1>3. CASE Voted(v, c, t) /\ Voted(v, d, t)
  BY <1>1, <1>3, OneVoteAt DEF ElectionInv
<1>4. CASE Voted(v, c, t) /\ v = i /\ Grants(i, d, t)
  BY <1>2, <1>4
<1>5. CASE Voted(v, d, t) /\ v = i /\ Grants(i, c, t)
  BY <1>2, <1>5
<1>6. CASE Grants(i, c, t) /\ Grants(i, d, t)
  BY <1>6 DEF Grants
<1> QED  BY <1>1, <1>3, <1>4, <1>5, <1>6

\* How an election binds one of its voters.
Binds(e, v) ==
  /\ e.term <= currentTerm[v]
  /\ Remembers(v, e.term) =>
       /\ currentTerm[v] = e.term => votedFor[v] = e.leader
       /\ currentTerm[v] = e.term /\ v = e.leader => role[v] = "leader"
       /\ \A d \in Peers(v) : Voted(v, d, e.term) => d = e.leader

\* An election won before the step still binds its voters after it.
LEMMA OldElectionBinds ==
  ASSUME TypeOK, TypeOK', ElectionInv, RecordForgotten, NEW i \in Node, ElectionStep(i),
         NEW e \in elected, NEW v \in e.voters
  PROVE  Binds(e, v)'
<1>1. e.term \in Nat /\ e.leader \in Node /\ v \in Node
  BY DEF TypeOK, Election
<1>2. currentTerm[v] \in Nat /\ currentTerm'[v] \in Nat /\ currentTerm[v] <= currentTerm'[v]
  <2>1. currentTerm[v] \in Nat /\ currentTerm'[v] \in Nat
    BY <1>1 DEF TypeOK
  <2> QED  BY <1>1, <2>1 DEF ElectionStep, Peers
<1>3. Binds(e, v)
  BY DEF ElectionInv, ElectionBinds, Binds
<1>4. ASSUME Remembers(v, e.term)', currentTerm'[v] = e.term
      PROVE  /\ votedFor'[v] = e.leader
             /\ v = e.leader => role'[v] = "leader"
  <2>1. currentTerm[v] = e.term
    BY <1>1, <1>2, <1>3, <1>4 DEF Binds
  <2>2. votedFor[v] = e.leader /\ (v = e.leader => role[v] = "leader")
    BY <1>1, <1>3, <1>4, <2>1, RememberedBefore DEF Binds
  <2>3. votedFor'[v] = votedFor[v]
    BY <1>1, <1>4, <2>1, <2>2, RememberedBefore, NodeAssumption
  <2>4. CASE v # i
    BY <2>2, <2>3, <2>4, <1>1 DEF ElectionStep, Peers
  <2>5. CASE v = i
    BY <2>1, <2>2, <2>3, <2>5, <1>4 DEF ElectionStep
  <2> QED  BY <2>4, <2>5
<1>5. ASSUME Remembers(v, e.term)', NEW d \in Peers(v), Voted(v, d, e.term)'
      PROVE  d = e.leader
  <2>1. CASE Voted(v, d, e.term)
    BY <1>1, <1>3, <1>5, <2>1, RememberedBefore DEF Binds
  <2>2. CASE v = i /\ Grants(i, d, e.term)
    <3>1. currentTerm[v] = e.term
      BY <2>2, <1>1, <1>2, <1>3 DEF Grants, Binds
    <3>2. votedFor[v] \in {None, d}
      BY <2>2, <3>1, <1>1 DEF Grants
    <3> QED  BY <1>1, <1>3, <1>5, <3>1, <3>2, RememberedBefore, NodeAssumption DEF Binds
  <2> QED  BY <1>1, <1>5, <2>1, <2>2 DEF ElectionStep
<1>6. e.term <= currentTerm'[v]
  BY <1>1, <1>2, <1>3 DEF Binds
<1> QED  BY <1>4, <1>5, <1>6 DEF Binds

\* An election won in the step binds its voters.
LEMMA NewElectionBinds ==
  ASSUME TypeOK, TypeOK', ElectionInv, RecordForgotten, NEW i \in Node, ElectionStep(i),
         role[i] = "candidate", role'[i] = "leader", currentTerm'[i] = currentTerm[i],
         NEW V \in SUBSET Node, \A v \in V \ {i} : Voted(v, i, currentTerm[i]),
         NEW v \in V, NEW e, e.term = currentTerm[i], e.leader = i
  PROVE  Binds(e, v)'
<1> DEFINE T == currentTerm[i]
<1>1. T \in Nat /\ v \in Node
  BY DEF TypeOK
<1>2. CASE v = i
  <2>1. votedFor'[i] = i /\ votedFor[i] = i
    BY DEF ElectionStep, ElectionInv, CandidateBacksItself
  <2>2. ASSUME Remembers(i, T)', NEW d \in Peers(i), Voted(i, d, T)'
        PROVE  FALSE
    <3>1. ~Grants(i, d, T)
      BY <2>1 DEF Grants, Peers
    <3>2. Voted(i, d, T)
      BY <2>2, <3>1 DEF ElectionStep
    <3>3. votedFor[i] = d
      BY <2>2, <3>2, RememberedBefore, VoteBindsAt DEF ElectionInv
    <3> QED  BY <2>1, <3>3 DEF Peers
  <2> QED  BY <1>1, <1>2, <2>1, <2>2 DEF Binds
<1>3. CASE v # i
  <2>1. Voted(v, i, T) /\ i \in Peers(v) /\ v \in Peers(i)
    BY <1>1, <1>3 DEF Peers
  <2>2. T <= currentTerm[v] /\ (currentTerm[v] = T /\ Remembers(v, T) => votedFor[v] = i)
    BY <1>1, <2>1, VoteBindsAt DEF ElectionInv
  <2>3. currentTerm'[v] = currentTerm[v] /\ votedFor'[v] = votedFor[v]
    BY <2>1 DEF ElectionStep
  <2>4. ASSUME Remembers(v, T)', NEW d \in Peers(v), Voted(v, d, T)'
        PROVE  d = i
    <3>1. Voted(v, d, T)
      BY <1>1, <1>3, <2>4 DEF ElectionStep
    <3> QED  BY <1>1, <2>1, <2>4, <3>1, RememberedBefore, OneVoteAt DEF ElectionInv
  <2>5. Remembers(v, T)' => Remembers(v, T)
    BY <1>1, RememberedBefore
  <2> QED  BY <1>3, <2>2, <2>3, <2>4, <2>5 DEF Binds
<1> QED  BY <1>2, <1>3

\* Whoever votes for a winner and for an earlier one of the same term has forgotten.
LEMMA SecondWinnerNeedsForgetting ==
  ASSUME TypeOK, ElectionInv, NEW i \in Node, role[i] = "candidate",
         NEW V \in SUBSET Node, \A v \in V \ {i} : Voted(v, i, currentTerm[i]),
         NEW e \in elected, e.term = currentTerm[i], e.leader # i,
         NEW v \in V \cap e.voters
  PROVE  ~Remembers(v, e.term)
<1> SUFFICES ASSUME Remembers(v, e.term) PROVE FALSE
  OBVIOUS
<1>1. Binds(e, v) /\ v \in Node
  BY DEF ElectionInv, ElectionBinds, Binds
<1>2. CASE v = i
  BY <1>1, <1>2 DEF Binds, ElectionInv, CandidateBacksItself
<1>3. CASE v # i
  BY <1>1, <1>3 DEF Binds, Peers
<1> QED  BY <1>2, <1>3

\* Elections bind their voters after the step, and split only forgetful ones.
LEMMA ElectionBindsStep ==
  ASSUME TypeOK, TypeOK', ElectionInv, RecordForgotten, NEW i \in Node, ElectionStep(i)
  PROVE  ElectionBinds' /\ ElectedByQuorum' /\ OnlyForgottenVotesSplit'
<1>1. ASSUME NEW e \in elected, NEW f \in elected, e.term = f.term, e.leader # f.leader,
             NEW v \in e.voters \cap f.voters
      PROVE  <<v, e.term>> \in forgotten'
  BY <1>1 DEF ElectionInv, OnlyForgottenVotesSplit, RecordForgotten
<1>2. CASE elected' = elected
  <2>1. \A e \in elected' : \A v \in e.voters : Binds(e, v)'
    BY <1>2, OldElectionBinds
  <2>2. ElectionBinds'
    BY <2>1 DEF ElectionBinds, Binds
  <2>3. ElectedByQuorum' /\ OnlyForgottenVotesSplit'
    BY <1>1, <1>2 DEF ElectionInv, ElectedByQuorum, OnlyForgottenVotesSplit, IsQuorum
  <2> QED  BY <2>2, <2>3
<1>3. CASE Wins(i)
  <2>1. PICK V \in SUBSET Node :
          /\ IsQuorum(V) /\ i \in V
          /\ \A v \in V \ {i} : Voted(v, i, currentTerm[i])
          /\ elected' = elected \cup {[term |-> currentTerm[i], leader |-> i, voters |-> V]}
    BY <1>3 DEF Wins
  <2>2. role[i] = "candidate" /\ role'[i] = "leader" /\ currentTerm'[i] = currentTerm[i]
    BY <1>3 DEF Wins
  <2> DEFINE new == [term |-> currentTerm[i], leader |-> i, voters |-> V]
  <2>3. \A e \in elected' : e \in elected \/ e = new
    BY <2>1
  <2>4. ElectionBinds'
    <3>1. ASSUME NEW e \in elected', NEW v \in e.voters
          PROVE  Binds(e, v)'
      <4>1. CASE e \in elected
        BY <4>1, OldElectionBinds
      <4>2. CASE e = new
        <5>1. e.term = currentTerm[i] /\ e.leader = i /\ e.voters = V
          BY <4>2
        <5> QED  BY <2>1, <2>2, <5>1, NewElectionBinds
      <4> QED  BY <2>3, <4>1, <4>2
    <3> QED  BY <3>1 DEF ElectionBinds, Binds
  <2>5. ElectedByQuorum'
    BY <2>1, <2>3 DEF ElectionInv, ElectedByQuorum, IsQuorum
  <2>6. OnlyForgottenVotesSplit'
    <3>1. ASSUME NEW e \in elected, e.term = currentTerm[i], e.leader # i,
                 NEW v \in V \cap e.voters
          PROVE  <<v, e.term>> \in forgotten'
      BY <2>1, <2>2, <3>1, SecondWinnerNeedsForgetting DEF Remembers, RecordForgotten
    <3> QED  BY <1>1, <2>3, <3>1 DEF OnlyForgottenVotesSplit
  <2> QED  BY <2>4, <2>5, <2>6
<1> QED  BY <1>2, <1>3 DEF ElectionStep

\* A node that leads after the step won the election of its term.
LEMMA LeaderStep ==
  ASSUME TypeOK, TypeOK', ElectionInv, NEW i \in Node, ElectionStep(i)
  PROVE  CandidateBacksItself' /\ WonOnce' /\ LeaderWasElected' /\ AppendsComeFromElected'
<1>1. elected \subseteq elected'
  BY DEF ElectionStep, Wins
<1>2. ASSUME NEW k \in Node
      PROVE  role'[k] \in {"candidate", "leader"} => votedFor'[k] = k /\ k \in votes'[k]
  BY DEF ElectionInv, CandidateBacksItself, ElectionStep, Peers
<1>3. LeaderWasElected'
  <2>1. ASSUME NEW k \in Node, role'[k] = "leader"
        PROVE  \E e \in elected' : e.leader = k /\ e.term = currentTerm'[k]
    <3>1. CASE k = i /\ Wins(i)
      <4>1. PICK V \in SUBSET Node :
              elected' = elected \cup {[term |-> currentTerm[i], leader |-> i, voters |-> V]}
        BY <3>1 DEF Wins
      <4> DEFINE new == [term |-> currentTerm[i], leader |-> i, voters |-> V]
      <4>2. new \in elected' /\ new.leader = k /\ new.term = currentTerm'[k]
        BY <3>1, <4>1 DEF Wins
      <4> QED  BY <4>2
    <3>2. CASE k # i \/ ~Wins(i)
      <4>1. role[k] = "leader" /\ currentTerm'[k] = currentTerm[k]
        BY <2>1, <3>2 DEF ElectionStep, Peers
      <4> QED  BY <1>1, <4>1 DEF ElectionInv, LeaderWasElected
    <3> QED  BY <3>1, <3>2
  <2> QED  BY <2>1 DEF LeaderWasElected
<1>4. AppendsComeFromElected'
  <2>1. ASSUME NEW k \in Node, NEW j \in Peers(k), NEW n \in DOMAIN net'[<<k, j>>],
               net'[<<k, j>>][n].kind = "AppendReq"
        PROVE  \E e \in elected' : e.leader = k /\ e.term = net'[<<k, j>>][n].term
    <3>1. CASE \E o \in DOMAIN net[<<k, j>>] : net'[<<k, j>>][n] = net[<<k, j>>][o]
      BY <1>1, <2>1, <3>1 DEF ElectionInv, AppendsComeFromElected
    <3>2. CASE k = i /\ Leads(i, net'[<<k, j>>][n].term)
      BY <1>1, <1>3, <3>2 DEF Leads, ElectionInv, LeaderWasElected
    <3> QED  BY <2>1, <3>1, <3>2 DEF ElectionStep
  <2> QED  BY <2>1 DEF AppendsComeFromElected
<1>5. WonOnce'
  <2> SUFFICES ASSUME NEW e \in elected', currentTerm'[e.leader] = e.term
               PROVE  role'[e.leader] # "candidate"
    BY DEF WonOnce
  <2>1. e.leader \in Node /\ e.term \in Nat
    BY DEF TypeOK, Election
  <2>2. CASE e \in elected
    <3>1. e.term <= currentTerm[e.leader]
      BY <2>2 DEF ElectionInv, ElectedByQuorum, ElectionBinds
    <3>2. /\ currentTerm[e.leader] \in Nat /\ currentTerm'[e.leader] \in Nat
          /\ currentTerm[e.leader] <= currentTerm'[e.leader]
      <4>1. currentTerm[e.leader] \in Nat /\ currentTerm'[e.leader] \in Nat
        BY <2>1 DEF TypeOK
      <4> QED  BY <2>1, <4>1 DEF ElectionStep, Peers
    <3>3. currentTerm[e.leader] = e.term
      BY <2>1, <3>1, <3>2
    <3>4. role[e.leader] # "candidate"
      BY <2>2, <3>3 DEF ElectionInv, WonOnce
    <3> QED  BY <2>1, <3>3, <3>4 DEF ElectionStep, Peers
  <2>3. CASE e \notin elected
    <3>1. Wins(i)
      BY <2>3 DEF ElectionStep
    <3>2. e.leader = i /\ role'[i] = "leader"
      BY <2>3, <3>1 DEF Wins
    <3> QED  BY <3>2
  <2> QED  BY <2>2, <2>3
<1> QED  BY <1>2, <1>3, <1>4, <1>5 DEF CandidateBacksItself

\* A step of this kind keeps the invariant.
LEMMA ElectionStepPreserves ==
  ASSUME TypeOK, TypeOK', ElectionInv, RecordForgotten, NEW i \in Node, ElectionStep(i)
  PROVE  ElectionInv'
  BY VoteBindsStep, OneVoteStep, ElectionBindsStep, LeaderStep DEF ElectionInv

-----------------------------------------------------------------------------
\* Where the messages under way come from.

\* What is under way on an edge after a transmission was there before or was sent.
LEMMA SentOrThere ==
  ASSUME NEW before \in [Channel -> Seq(Message)], NEW i, NEW out,
         Transmit(before, i, out), NEW c \in Channel, NEW n \in DOMAIN net'[c]
  PROVE  \/ \E o \in DOMAIN before[c] : net'[c][n] = before[c][o]
         \/ c[1] = i /\ c[2] \in DOMAIN out /\ net'[c][n] = out[c[2]]
<1>1. PICK kept \in SUBSET (DOMAIN out \ Deaf) :
        net' = [d \in Channel |-> IF d[1] = i /\ d[2] \in kept
                                  THEN Append(before[d], out[d[2]])
                                  ELSE before[d]]
  BY DEF Transmit
<1>2. before[c] \in Seq(Message)
  OBVIOUS
<1>3. CASE c[1] = i /\ c[2] \in kept
  <2>1. net'[c] = Append(before[c], out[c[2]])
    BY <1>1, <1>3
  <2>2. Len(before[c]) \in Nat /\ DOMAIN before[c] = 1..Len(before[c])
    BY <1>2, LenProperties
  <2>3. n \in 1..(Len(before[c]) + 1)
    BY <1>2, <2>1
  <2>4. n \in DOMAIN before[c] => net'[c][n] = before[c][n]
    BY <1>2, <2>1, <2>2
  <2>5. n = Len(before[c]) + 1 => net'[c][n] = out[c[2]]
    BY <1>2, <2>1
  <2> QED  BY <1>3, <2>2, <2>3, <2>4, <2>5
<1>4. CASE ~(c[1] = i /\ c[2] \in kept)
  <2>1. net'[c] = before[c]
    BY <1>1, <1>4
  <2> QED  BY <2>1
<1> QED  BY <1>3, <1>4

\* Taking a message off an edge adds none.
LEMMA TakenWasThere ==
  ASSUME TypeOK, NEW i \in Node, NEW j \in Peers(i), net[<<j, i>>] # <<>>,
         NEW c \in Channel, NEW n \in DOMAIN Taken(i, j)[c]
  PROVE  \E o \in DOMAIN net[c] : Taken(i, j)[c][n] = net[c][o]
<1>1. net \in [Channel -> Seq(Message)]
  BY DEF TypeOK
<1>2. CASE c = <<j, i>>
  <2>1. Taken(i, j)[c] = Tail(net[c])
    BY <1>1, <1>2 DEF Taken
  <2>2. net[c] \in Seq(Message) /\ net[c] # <<>>
    BY <1>1, <1>2
  <2>3. n \in 1..(Len(net[c]) - 1) /\ Len(net[c]) \in Nat /\ Tail(net[c])[n] = net[c][n + 1]
    BY <2>1, <2>2, HeadTailProperties, LenProperties
  <2>4. n + 1 \in DOMAIN net[c]
    BY <2>2, <2>3, LenProperties
  <2> QED  BY <2>1, <2>3, <2>4
<1>3. CASE c # <<j, i>>
  <2>1. Taken(i, j)[c] = net[c]
    BY <1>1, <1>3 DEF Taken
  <2> QED  BY <2>1
<1> QED  BY <1>2, <1>3

\* i adds at most the messages of out to what is under way.
OnlySends(i, out) ==
  \A c \in Channel : \A n \in DOMAIN net'[c] :
    \/ \E o \in DOMAIN net[c] : net'[c][n] = net[c][o]
    \/ c[1] = i /\ c[2] \in DOMAIN out /\ net'[c][n] = out[c[2]]

\* No message of out is a vote, and it is an AppendEntries only of i's leadership.
NoVoteIn(i, out) ==
  \A j \in DOMAIN out :
    /\ out[j].kind = "VoteResp" => out[j].preVote \/ ~out[j].granted
    /\ out[j].kind = "AppendReq" => Leads(i, out[j].term)

\* A transmission adds messages of its sender to the edges and nothing else.
LEMMA TransmitSends ==
  ASSUME TypeOK, NEW i, NEW out, Transmit(net, i, out)
  PROVE  OnlySends(i, out)
<1>1. net \in [Channel -> Seq(Message)]
  BY DEF TypeOK
<1>2. ASSUME NEW c \in Channel, NEW n \in DOMAIN net'[c]
      PROVE  \/ \E o \in DOMAIN net[c] : net'[c][n] = net[c][o]
             \/ c[1] = i /\ c[2] \in DOMAIN out /\ net'[c][n] = out[c[2]]
  BY <1>1, SentOrThere
<1> QED  BY <1>2 DEF OnlySends

\* A handler takes one message off its edge and then transmits.
LEMMA HandlerSends ==
  ASSUME TypeOK, NEW i \in Node, NEW j \in Peers(i), net[<<j, i>>] # <<>>, NEW out,
         Transmit(Taken(i, j), i, out)
  PROVE  OnlySends(i, out)
<1>1. Taken(i, j) \in [Channel -> Seq(Message)]
  BY TakenType
<1>2. ASSUME NEW c \in Channel, NEW n \in DOMAIN net'[c]
      PROVE  \/ \E o \in DOMAIN net[c] : net'[c][n] = net[c][o]
             \/ c[1] = i /\ c[2] \in DOMAIN out /\ net'[c][n] = out[c[2]]
  <2>1. CASE \E o \in DOMAIN Taken(i, j)[c] : net'[c][n] = Taken(i, j)[c][o]
    BY <2>1, TakenWasThere
  <2> QED  BY <1>1, <2>1, SentOrThere
<1> QED  BY <1>2 DEF OnlySends

\* A handler that answers nothing only takes a message off its edge.
LEMMA SilentHandlerSends ==
  ASSUME TypeOK, NEW i \in Node, NEW j \in Peers(i), net[<<j, i>>] # <<>>,
         net' = Taken(i, j)
  PROVE  OnlySends(i, Silent)
  BY TakenWasThere DEF OnlySends

\* i becomes a follower and its vote is cleared (becomeFollower): in baseline mode
\* only in a later term or after a campaign.
StandsDown(i) ==
  /\ role' = [role EXCEPT ![i] = "follower"]
  /\ \E t \in Nat : t >= currentTerm[i] /\ currentTerm' = [currentTerm EXCEPT ![i] = t]
  /\ votedFor' = [votedFor EXCEPT ![i] = None]
  /\ Mode = "baseline" /\ currentTerm'[i] = currentTerm[i] => role[i] = "candidate"

\* Whoever learns of a later term stands down in it.
LEMMA HigherTermStandsDown ==
  ASSUME TypeOK, NEW i \in Node, NEW t \in Nat, t > currentTerm[i], NEW leader,
         BecomeFollower(i, t, leader)
  PROVE  StandsDown(i)
<1>1. currentTerm[i] \in Nat /\ currentTerm' = [currentTerm EXCEPT ![i] = t] /\ currentTerm'[i] = t
  BY DEF BecomeFollower, TypeOK
<1>2. t >= currentTerm[i] /\ currentTerm'[i] # currentTerm[i]
  BY <1>1
<1> QED  BY <1>1, <1>2 DEF BecomeFollower, StandsDown

\* Without new votes, what is voted was voted before.
LEMMA NoNewVotes ==
  ASSUME TypeOK, NEW i \in Node, NEW out, OnlySends(i, out), NoVoteIn(i, out),
         NEW v \in Node, NEW c \in Peers(v), NEW t, VoteUnderWay(v, c, t)'
  PROVE  VoteUnderWay(v, c, t)
<1>1. <<v, c>> \in Channel
  BY DEF Channel, Peers
<1>2. PICK n \in DOMAIN net'[<<v, c>>] :
        LET m == net'[<<v, c>>][n]
        IN  m.kind = "VoteResp" /\ ~m.preVote /\ m.granted /\ m.term = t
  BY DEF VoteUnderWay
<1>3. \E o \in DOMAIN net[<<v, c>>] : net'[<<v, c>>][n] = net[<<v, c>>][o]
  BY <1>1, <1>2 DEF OnlySends, NoVoteIn
<1> QED  BY <1>2, <1>3 DEF VoteUnderWay

\* Without new AppendEntries but those of i's leadership, the last conjunct of
\* ElectionStep holds.
LEMMA AppendsStep ==
  ASSUME NEW i \in Node, NEW out, OnlySends(i, out),
         \A j \in DOMAIN out : out[j].kind = "AppendReq" => Leads(i, out[j].term),
         NEW k \in Node, NEW j \in Peers(k), NEW n \in DOMAIN net'[<<k, j>>]
  PROVE  \/ \E o \in DOMAIN net[<<k, j>>] : net'[<<k, j>>][n] = net[<<k, j>>][o]
         \/ net'[<<k, j>>][n].kind # "AppendReq"
         \/ k = i /\ Leads(i, net'[<<k, j>>][n].term)
<1>1. <<k, j>> \in Channel
  BY DEF Channel, Peers
<1> QED  BY <1>1 DEF OnlySends

\* A step that casts no vote and wins no election is an ElectionStep if the node
\* keeps its role, term and vote, or stands down.
LEMMA QuietStep ==
  ASSUME TypeOK, ElectionInv, NeverForgets, NEW i \in Node, NEW out,
         OnlySends(i, out), NoVoteIn(i, out),
         votes' = votes, elected' = elected,
         UNCHANGED <<role, currentTerm, votedFor>> \/ StandsDown(i)
  PROVE  ElectionStep(i)
<1>1. /\ \A k \in Peers(i) :
           /\ role'[k] = role[k] /\ currentTerm'[k] = currentTerm[k]
           /\ votedFor'[k] = votedFor[k] /\ votes'[k] = votes[k]
      /\ currentTerm[i] <= currentTerm'[i]
  <2>1. currentTerm[i] \in Nat
    BY DEF TypeOK
  <2>2. CASE UNCHANGED <<role, currentTerm, votedFor>>
    BY <2>1, <2>2
  <2>3. CASE StandsDown(i)
    BY <2>1, <2>3 DEF StandsDown, TypeOK, Peers
  <2> QED  BY <2>2, <2>3
<1>2. \/ role'[i] = role[i] /\ votedFor'[i] = votedFor[i] /\ currentTerm'[i] = currentTerm[i]
      \/ role'[i] = "follower" /\ votedFor'[i] = None /\ StandsDown(i)
  BY DEF StandsDown, TypeOK
<1>3. ASSUME NEW v \in Node, NEW c \in Peers(v), NEW t, Voted(v, c, t)'
      PROVE  Voted(v, c, t)
  <2>1. CASE VoteUnderWay(v, c, t)'
    BY <2>1, NoNewVotes DEF Voted
  <2>2. CASE VoteCounted(v, c, t)'
    BY <1>1, <1>2, <2>2 DEF Voted, VoteCounted, Peers
  <2> QED  BY <1>3, <2>1, <2>2 DEF Voted
<1>4. /\ role'[i] \in {"candidate", "leader"} => votedFor'[i] = i /\ i \in votes'[i]
      /\ role'[i] = "leader" => role[i] = "leader" /\ currentTerm'[i] = currentTerm[i]
      /\ role[i] # "candidate" => role'[i] # "candidate"
      /\ role[i] = "leader" /\ votedFor'[i] = votedFor[i] => role'[i] = "leader"
  BY <1>2, NodeAssumption DEF ElectionInv, CandidateBacksItself
<1>6. KeepsVote(i)
  BY <1>2 DEF KeepsVote, NeverForgets, StandsDown
<1>5. \A k \in Node : \A j \in Peers(k) : \A n \in DOMAIN net'[<<k, j>>] :
        \/ \E o \in DOMAIN net[<<k, j>>] : net'[<<k, j>>][n] = net[<<k, j>>][o]
        \/ net'[<<k, j>>][n].kind # "AppendReq"
        \/ k = i /\ Leads(i, net'[<<k, j>>][n].term)
  BY AppendsStep DEF NoVoteIn
<1> QED  BY <1>1, <1>3, <1>4, <1>5, <1>6 DEF ElectionStep

-----------------------------------------------------------------------------
\* Every action is such a step.

\* A campaign, whether a timer or a poll begins it.
LEMMA CampaignStep ==
  ASSUME TypeOK, ElectionInv, NEW i \in Node, Campaign(i), elected' = elected,
         OnlySends(i, [j \in Peers(i) |-> VoteRequest(i, currentTerm[i] + 1, FALSE)])
  PROVE  ElectionStep(i)
<1> DEFINE out == [j \in Peers(i) |-> VoteRequest(i, currentTerm[i] + 1, FALSE)]
<1>1. OnlySends(i, out)
  OBVIOUS
<1>2. NoVoteIn(i, out)
  BY DEF NoVoteIn, VoteRequest
<1>3. /\ role' = [role EXCEPT ![i] = "candidate"]
      /\ currentTerm' = [currentTerm EXCEPT ![i] = @ + 1]
      /\ votedFor' = [votedFor EXCEPT ![i] = i]
      /\ votes' = [votes EXCEPT ![i] = {i}]
      /\ elected' = elected
  BY DEF Campaign
<1>4. /\ role'[i] = "candidate" /\ currentTerm'[i] = currentTerm[i] + 1
      /\ votedFor'[i] = i /\ votes'[i] = {i} /\ currentTerm[i] \in Nat
      /\ \A k \in Peers(i) :
           /\ role'[k] = role[k] /\ currentTerm'[k] = currentTerm[k]
           /\ votedFor'[k] = votedFor[k] /\ votes'[k] = votes[k]
  BY <1>3 DEF TypeOK, Peers
<1>5. ASSUME NEW v \in Node, NEW c \in Peers(v), NEW t, Voted(v, c, t)'
      PROVE  Voted(v, c, t)
  <2>1. CASE VoteUnderWay(v, c, t)'
    BY <1>1, <1>2, <2>1, NoNewVotes DEF Voted
  <2>2. CASE VoteCounted(v, c, t)'
    BY <1>4, <2>2 DEF Voted, VoteCounted, Peers
  <2> QED  BY <1>5, <2>1, <2>2 DEF Voted
<1>6. \A k \in Node : \A j \in Peers(k) : \A n \in DOMAIN net'[<<k, j>>] :
        \/ \E o \in DOMAIN net[<<k, j>>] : net'[<<k, j>>][n] = net[<<k, j>>][o]
        \/ net'[<<k, j>>][n].kind # "AppendReq"
        \/ k = i /\ Leads(i, net'[<<k, j>>][n].term)
  BY <1>1, <1>2, AppendsStep DEF NoVoteIn
<1>7. KeepsVote(i)
  BY <1>4 DEF KeepsVote
<1> QED  BY <1>3, <1>4, <1>5, <1>6, <1>7 DEF ElectionStep

\* The election timer's step (beginElection, baseline branch).
LEMMA BeginElectionStep ==
  ASSUME TypeOK, ElectionInv, NEW i \in Node, BeginElection(i)
  PROVE  ElectionStep(i)
<1>1. OnlySends(i, [j \in Peers(i) |-> VoteRequest(i, currentTerm[i] + 1, FALSE)])
  BY TransmitSends DEF BeginElection
<1> QED  BY <1>1, CampaignStep DEF BeginElection

\* The election timer's step in the other modes: a node that polls gives up its
\* campaign, and with it the votes it had counted.
LEMMA BeginPreVoteStep ==
  ASSUME TypeOK, ElectionInv, NEW i \in Node, BeginPreVote(i)
  PROVE  ElectionStep(i)
<1> DEFINE out == [j \in Peers(i) |-> VoteRequest(i, currentTerm[i] + 1, TRUE)]
<1>1. OnlySends(i, out)
  BY TransmitSends DEF BeginPreVote
<1>2. NoVoteIn(i, out)
  BY DEF NoVoteIn, VoteRequest
<1>3. /\ Mode # "baseline" /\ role[i] # "leader"
      /\ role' = [role EXCEPT ![i] = "precandidate"]
      /\ UNCHANGED <<currentTerm, votedFor, votes, elected>>
      /\ role'[i] = "precandidate" /\ currentTerm[i] \in Nat
  BY DEF BeginPreVote, TypeOK
<1>4. \A k \in Peers(i) : role'[k] = role[k]
  BY <1>3 DEF TypeOK, Peers
<1>5. ASSUME NEW v \in Node, NEW c \in Peers(v), NEW t, Voted(v, c, t)'
      PROVE  Voted(v, c, t)
  <2>1. CASE VoteUnderWay(v, c, t)'
    BY <1>1, <1>2, <2>1, NoNewVotes DEF Voted
  <2>2. CASE VoteCounted(v, c, t)'
    BY <1>3, <1>4, <2>2 DEF Voted, VoteCounted, Peers
  <2> QED  BY <1>5, <2>1, <2>2 DEF Voted
<1>6. \A k \in Node : \A j \in Peers(k) : \A n \in DOMAIN net'[<<k, j>>] :
        \/ \E o \in DOMAIN net[<<k, j>>] : net'[<<k, j>>][n] = net[<<k, j>>][o]
        \/ net'[<<k, j>>][n].kind # "AppendReq"
        \/ k = i /\ Leads(i, net'[<<k, j>>][n].term)
  BY <1>1, <1>2, AppendsStep DEF NoVoteIn
<1>7. KeepsVote(i)
  BY <1>3 DEF KeepsVote
<1> QED  BY <1>3, <1>4, <1>5, <1>6, <1>7 DEF ElectionStep

\* The tick of a leader (Tick, Leader branch), which may stand down within its term.
LEMMA LeaderTickStep ==
  ASSUME TypeOK, ElectionInv, NeverForgets, NEW i \in Node, LeaderTick(i)
  PROVE  ElectionStep(i)
<1>1. PICK heartbeat \in BOOLEAN, check \in BOOLEAN :
        /\ check => Mode # "baseline"
        /\ Transmit(net, i, IF heartbeat
                            THEN [j \in Peers(i) |->
                                    AppendTo(i, j, currentTerm[i], nextIndex[i][j])]
                            ELSE Silent)
        /\ IF check /\ ~HasHeardFromQuorum(i)
           THEN BecomeFollower(i, currentTerm[i], None)
           ELSE UNCHANGED nodeVars
  BY DEF LeaderTick
<1> DEFINE out == IF heartbeat
                  THEN [j \in Peers(i) |-> AppendTo(i, j, currentTerm[i], nextIndex[i][j])]
                  ELSE Silent
<1>2. role[i] = "leader" /\ votes' = votes /\ elected' = elected /\ currentTerm[i] \in Nat
  BY DEF LeaderTick, tallyVars, TypeOK
<1>3. OnlySends(i, out)
  BY <1>1, TransmitSends
<1>4. \A j \in DOMAIN out : out[j].kind = "AppendReq" /\ out[j].term = currentTerm[i]
  BY DEF AppendTo, Silent
<1>5. NoVoteIn(i, out)
  BY <1>2, <1>4 DEF NoVoteIn, Leads
<1>6. UNCHANGED <<role, currentTerm, votedFor>> \/ StandsDown(i)
  BY <1>1, <1>2 DEF BecomeFollower, StandsDown, nodeVars, TypeOK
<1> QED  BY <1>2, <1>3, <1>5, <1>6, QuietStep

\* Without a forgotten vote, a term has one winner.
LEMMA OneWinner == TypeOK /\ ElectionInv /\ forgotten = {} => ElectionSafety
<1> SUFFICES ASSUME TypeOK, ElectionInv, forgotten = {},
                    NEW e \in elected, NEW f \in elected, e.term = f.term
             PROVE  e.leader = f.leader
  BY DEF ElectionSafety
<1>1. /\ e.voters \in SUBSET Node /\ f.voters \in SUBSET Node
      /\ IsQuorum(e.voters) /\ IsQuorum(f.voters)
  BY DEF TypeOK, Election, ElectionInv, ElectedByQuorum
<1>2. PICK v : v \in e.voters \cap f.voters
  BY <1>1, QuorumsMeet
<1> QED  BY <1>2 DEF ElectionInv, OnlyForgottenVotesSplit

\* An AppendEntries handled: in baseline mode, who stands down within its term voted
\* for itself.
LEMMA HandleAppendReqStep ==
  ASSUME TypeOK, ElectionInv, NeverForgets, NEW i \in Node, NEW j \in Peers(i), HandleAppendReq(i, j)
  PROVE  ElectionStep(i)
<1> DEFINE m == Head(net[<<j, i>>])
<1>1. net[<<j, i>>] # <<>> /\ m.kind = "AppendReq" /\ j \in Node /\ i \in Peers(j)
  BY DEF HandleAppendReq, Arrives, Peers
<1>2. votes' = votes /\ elected' = elected
  BY DEF HandleAppendReq, tallyVars
<1>3. m.term \in Nat /\ currentTerm[i] \in Nat
  <2>1. m \in Message
    BY <1>1, TakenType
  <2> QED  BY <2>1, <1>1 DEF Message, AppendReq, AppendResp, VoteReq, VoteResp, TypeOK
<1>4. \E e \in elected : e.leader = j /\ e.term = m.term
  <2>1. net[<<j, i>>] \in Seq(Message)
    BY <1>1 DEF TypeOK, Channel, Peers
  <2>2. 1 \in DOMAIN net[<<j, i>>] /\ m = net[<<j, i>>][1]
    BY <1>1, <2>1, EmptySeq, LenProperties
  <2> QED  BY <1>1, <2>2 DEF ElectionInv, AppendsComeFromElected
<1> HIDE DEF m
<1>5. PICK resp : Reply(i, j, resp) /\ resp.kind = "AppendResp"
  BY DEF HandleAppendReq, RejectStaleAppend, FollowLeader, Refusal, Success, m
<1> DEFINE out == [k \in {j} |-> resp]
<1>6. OnlySends(i, out)
  BY <1>1, <1>5, HandlerSends DEF Reply
<1>7. NoVoteIn(i, out)
  BY <1>5 DEF NoVoteIn
<1>8. UNCHANGED <<role, currentTerm, votedFor>> \/ StandsDown(i)
  <2>1. CASE RejectStaleAppend(i, j, m)
    BY <2>1 DEF RejectStaleAppend, nodeVars
  <2>2. CASE FollowLeader(i, j, m) /\ m.term > currentTerm[i]
    BY <2>2, <1>3 DEF FollowLeader, BecomeFollower, StandsDown, TypeOK
  <2>3. CASE FollowLeader(i, j, m) /\ m.term = currentTerm[i]
    <3>1. CASE role[i] = "follower"
      BY <2>3, <3>1, <1>3 DEF FollowLeader
    <3>2. CASE role[i] # "follower"
      <4>1. Mode = "baseline" => role[i] = "candidate"
        <5> SUFFICES ASSUME Mode = "baseline" PROVE role[i] = "candidate"
          OBVIOUS
        <5>1. ElectionSafety /\ role[i] # "precandidate"
          BY OneWinner DEF NeverForgets
        <5>2. role[i] # "leader"
          BY <1>4, <2>3, <5>1 DEF ElectionInv, LeaderWasElected, ElectionSafety, Peers
        <5> QED  BY <3>2, <5>1, <5>2 DEF TypeOK, Role
      <4> QED  BY <2>3, <3>2, <4>1, <1>3 DEF FollowLeader, BecomeFollower, StandsDown, TypeOK
    <3> QED  BY <3>1, <3>2
  <2> QED  BY <1>3, <2>1, <2>2, <2>3 DEF HandleAppendReq, FollowLeader, m
<1> QED  BY <1>2, <1>6, <1>7, <1>8, QuietStep

\* An answer to AppendEntries handled.
LEMMA HandleAppendRespStep ==
  ASSUME TypeOK, ElectionInv, NeverForgets, NEW i \in Node, NEW j \in Peers(i), HandleAppendResp(i, j)
  PROVE  ElectionStep(i)
<1> DEFINE m == Head(net[<<j, i>>])
<1>1. net[<<j, i>>] # <<>> /\ m.kind = "AppendResp"
  BY DEF HandleAppendResp, Arrives
<1>2. votes' = votes /\ elected' = elected /\ net' = Taken(i, j)
  BY DEF HandleAppendResp, tallyVars
<1>3. m.term \in Nat /\ currentTerm[i] \in Nat
  <2>1. m \in Message
    BY <1>1, TakenType
  <2> QED  BY <2>1, <1>1 DEF Message, AppendReq, AppendResp, VoteReq, VoteResp, TypeOK
<1> HIDE DEF m
<1>4. OnlySends(i, Silent) /\ NoVoteIn(i, Silent)
  BY <1>1, <1>2, SilentHandlerSends DEF NoVoteIn, Silent
<1>5. UNCHANGED <<role, currentTerm, votedFor>> \/ StandsDown(i)
  <2>1. UNCHANGED nodeVars \/ (m.term > currentTerm[i] /\ BecomeFollower(i, m.term, None))
    BY DEF HandleAppendResp, LearnProgress, m
  <2>2. ASSUME m.term > currentTerm[i], BecomeFollower(i, m.term, None) PROVE StandsDown(i)
    BY <1>3, <2>2, HigherTermStandsDown
  <2> QED  BY <2>1, <2>2 DEF nodeVars
<1> QED  BY <1>2, <1>4, <1>5, QuietStep

\* Granting a vote.
LEMMA GrantStep ==
  ASSUME TypeOK, ElectionInv, NeverForgets, NEW i \in Node, NEW j \in Peers(i), NEW out, NEW t \in Nat,
         OnlySends(i, out), DOMAIN out = {j},
         out[j] = VoteReply(t, TRUE, FALSE),
         t >= currentTerm[i], t > currentTerm[i] \/ votedFor[i] \in {None, j},
         currentTerm' = [currentTerm EXCEPT ![i] = t],
         votedFor' = [votedFor EXCEPT ![i] = j],
         role' = [role EXCEPT ![i] = IF t > currentTerm[i] THEN "follower" ELSE @],
         votes' = votes, elected' = elected
  PROVE  ElectionStep(i)
<1>1. /\ currentTerm[i] \in Nat /\ currentTerm'[i] = t /\ votedFor'[i] = j
      /\ j \in Node /\ j # i /\ j # None
  BY NodeAssumption DEF TypeOK, Peers
<1>2. \/ t > currentTerm[i] /\ role'[i] = "follower"
      \/ /\ t = currentTerm[i] /\ role'[i] = role[i]
         /\ role[i] \in {"follower", "precandidate"}
  <2>1. CASE t > currentTerm[i]
    BY <2>1 DEF TypeOK
  <2>2. CASE t = currentTerm[i]
    <3>1. votedFor[i] # i
      BY <1>1, <2>2, NodeAssumption DEF Peers
    <3>2. role[i] \in {"follower", "precandidate"}
      BY <3>1 DEF ElectionInv, CandidateBacksItself, TypeOK, Role
    <3> QED  BY <1>1, <2>2, <3>2 DEF TypeOK
  <2> QED  BY <1>1, <2>1, <2>2
<1>3. /\ \A k \in Peers(i) :
           /\ role'[k] = role[k] /\ currentTerm'[k] = currentTerm[k]
           /\ votedFor'[k] = votedFor[k] /\ votes'[k] = votes[k]
      /\ KeepsVote(i)
  BY <1>1, <1>2 DEF TypeOK, Peers, KeepsVote, NeverForgets
<1>4. ASSUME NEW v \in Node, NEW c \in Peers(v), NEW x, Voted(v, c, x)'
      PROVE  Voted(v, c, x) \/ (v = i /\ Grants(i, c, x))
  <2>1. CASE VoteUnderWay(v, c, x)'
    <3>1. PICK n \in DOMAIN net'[<<v, c>>] :
            LET m == net'[<<v, c>>][n]
            IN  m.kind = "VoteResp" /\ ~m.preVote /\ m.granted /\ m.term = x
      BY <2>1 DEF VoteUnderWay
    <3>2. <<v, c>> \in Channel
      BY DEF Channel, Peers
    <3>3. CASE \E o \in DOMAIN net[<<v, c>>] : net'[<<v, c>>][n] = net[<<v, c>>][o]
      BY <3>1, <3>3 DEF Voted, VoteUnderWay
    <3>4. CASE v = i /\ c = j /\ net'[<<v, c>>][n] = out[j]
      <4>1. x = t
        BY <3>1, <3>4 DEF VoteReply
      <4> QED  BY <1>1, <1>2, <3>4, <4>1 DEF Grants
    <3> QED  BY <3>2, <3>3, <3>4 DEF OnlySends
  <2>2. CASE VoteCounted(v, c, x)'
    BY <1>2, <1>3, <2>2 DEF Voted, VoteCounted, Peers
  <2> QED  BY <1>4, <2>1, <2>2 DEF Voted
<1>5. \A k \in Node : \A d \in Peers(k) : \A n \in DOMAIN net'[<<k, d>>] :
        \/ \E o \in DOMAIN net[<<k, d>>] : net'[<<k, d>>][n] = net[<<k, d>>][o]
        \/ net'[<<k, d>>][n].kind # "AppendReq"
        \/ k = i /\ Leads(i, net'[<<k, d>>][n].term)
  <2>1. \A k \in DOMAIN out : out[k].kind # "AppendReq"
    BY DEF VoteReply
  <2> QED  BY <2>1, AppendsStep
<1> QED  BY <1>1, <1>2, <1>3, <1>4, <1>5 DEF ElectionStep

\* A request for a vote handled: the vote granted is the first of its term.
LEMMA HandleVoteReqStep ==
  ASSUME TypeOK, ElectionInv, NeverForgets, NEW i \in Node, NEW j \in Peers(i), HandleVoteReq(i, j)
  PROVE  ElectionStep(i)
<1> DEFINE m == Head(net[<<j, i>>])
<1>1. net[<<j, i>>] # <<>> /\ m.kind = "VoteReq"
  BY DEF HandleVoteReq, Arrives
<1>2. votes' = votes /\ elected' = elected
  BY DEF HandleVoteReq, tallyVars
<1>3. m.term \in Nat /\ currentTerm[i] \in Nat
  <2>1. m \in Message
    BY <1>1, TakenType
  <2> QED  BY <2>1, <1>1 DEF Message, AppendReq, AppendResp, VoteReq, VoteResp, TypeOK
<1>4. AnswerPoll(i, j, m) \/ AnswerCampaign(i, j, m)
  BY DEF HandleVoteReq
<1> HIDE DEF m
<1>5. CASE AnswerPoll(i, j, m)
  <2>1. PICK granted : Reply(i, j, VoteReply(currentTerm[i], granted, TRUE))
    BY <1>5 DEF AnswerPoll
  <2> DEFINE out == [k \in {j} |-> VoteReply(currentTerm[i], granted, TRUE)]
  <2>2. OnlySends(i, out)
    BY <1>1, <2>1, HandlerSends DEF Reply
  <2>3. NoVoteIn(i, out)
    BY DEF NoVoteIn, VoteReply
  <2>4. UNCHANGED <<role, currentTerm, votedFor>>
    BY <1>5 DEF AnswerPoll, nodeVars
  <2> QED  BY <1>2, <2>2, <2>3, <2>4, QuietStep
<1>6. CASE AnswerCampaign(i, j, m)
  <2> DEFINE newer == m.term > currentTerm[i]
             granted == /\ m.term >= currentTerm[i]
                        /\ newer \/ votedFor[i] \in {None, j}
                        /\ UpToDate(log[i], m.lastTerm, m.lastIndex)
             term == IF newer THEN m.term ELSE currentTerm[i]
             out == [k \in {j} |-> VoteReply(term, granted, FALSE)]
  <2>1. /\ role' = [role EXCEPT ![i] = IF newer THEN "follower" ELSE @]
        /\ currentTerm' = [currentTerm EXCEPT ![i] = term]
        /\ votedFor' = [votedFor EXCEPT ![i] = IF granted THEN j
                                               ELSE IF newer THEN None ELSE @]
        /\ Reply(i, j, VoteReply(term, granted, FALSE))
    BY <1>6 DEF AnswerCampaign
  <2>2. OnlySends(i, out)
    BY <1>1, <2>1, HandlerSends DEF Reply
  <2>3. CASE granted
    <3>1. out[j] = VoteReply(term, TRUE, FALSE) /\ DOMAIN out = {j}
      BY <2>3
    <3>2. /\ term \in Nat /\ term >= currentTerm[i]
          /\ term > currentTerm[i] \/ votedFor[i] \in {None, j}
          /\ newer <=> term > currentTerm[i]
      BY <1>3, <2>3
    <3>3. role' = [role EXCEPT ![i] = IF term > currentTerm[i] THEN "follower" ELSE @]
      BY <2>1, <3>2
    <3>4. votedFor' = [votedFor EXCEPT ![i] = j]
      BY <2>1, <2>3
    <3>5. currentTerm' = [currentTerm EXCEPT ![i] = term]
      BY <2>1
    <3> HIDE DEF out, term, granted, newer
    <3> QED  BY <1>2, <2>2, <3>1, <3>2, <3>3, <3>4, <3>5, GrantStep
  <2>4. CASE ~granted
    <3>1. NoVoteIn(i, out)
      BY <2>4 DEF NoVoteIn, VoteReply
    <3>2. UNCHANGED <<role, currentTerm, votedFor>> \/ StandsDown(i)
      <4>1. CASE newer
        <5>1. /\ role' = [role EXCEPT ![i] = "follower"]
              /\ currentTerm' = [currentTerm EXCEPT ![i] = m.term]
              /\ votedFor' = [votedFor EXCEPT ![i] = None]
          BY <2>1, <2>4, <4>1
        <5>2. m.term >= currentTerm[i] /\ currentTerm'[i] # currentTerm[i]
          BY <1>3, <4>1, <5>1 DEF TypeOK
        <5> QED  BY <1>3, <5>1, <5>2 DEF StandsDown
      <4>2. CASE ~newer
        <5>1. /\ role' = [role EXCEPT ![i] = role[i]]
              /\ currentTerm' = [currentTerm EXCEPT ![i] = currentTerm[i]]
              /\ votedFor' = [votedFor EXCEPT ![i] = votedFor[i]]
          BY <2>1, <2>4, <4>2
        <5> QED  BY <5>1 DEF TypeOK
      <4> QED  BY <4>1, <4>2
    <3> QED  BY <1>2, <2>2, <3>1, <3>2, QuietStep
  <2> QED  BY <2>3, <2>4
<1> QED  BY <1>4, <1>5, <1>6

\* A vote that is counted had been cast: the message counted was under way.
LEMMA CountedWasCast ==
  ASSUME TypeOK, NEW i \in Node, NEW j \in Peers(i), net[<<j, i>>] # <<>>,
         Head(net[<<j, i>>]).kind = "VoteResp", ~Head(net[<<j, i>>]).preVote,
         Head(net[<<j, i>>]).granted
  PROVE  Voted(j, i, Head(net[<<j, i>>]).term)
<1>1. net[<<j, i>>] \in Seq(Message)
  BY DEF TypeOK, Channel, Peers
<1>2. 1 \in DOMAIN net[<<j, i>>] /\ Head(net[<<j, i>>]) = net[<<j, i>>][1]
  BY <1>1, EmptySeq, LenProperties
<1> QED  BY <1>2 DEF Voted, VoteUnderWay

\* A vote counted, and the election it may win.
LEMMA CountVoteStep ==
  ASSUME TypeOK, ElectionInv, NeverForgets, NEW i \in Node, NEW j \in Peers(i),
         net[<<j, i>>] # <<>>, NEW m, m = Head(net[<<j, i>>]), m.kind = "VoteResp",
         CountVote(i, j, m)
  PROVE  ElectionStep(i)
<1> DEFINE voters == votes[i] \cup {j}
<1>1. CASE /\ net' = Taken(i, j) /\ votes' = votes
           /\ UNCHANGED <<nodeVars, leaderVars, elected>>
  <2>1. OnlySends(i, Silent) /\ NoVoteIn(i, Silent)
    BY <1>1, SilentHandlerSends DEF NoVoteIn, Silent
  <2> QED  BY <1>1, <2>1, QuietStep DEF nodeVars
<1>2. CASE /\ role[i] = "candidate" /\ m.term = currentTerm[i] /\ m.granted
           /\ votes' = [votes EXCEPT ![i] = voters]
           /\ \/ IsQuorum(voters) /\ BecomeLeader(i, j, voters)
              \/ net' = Taken(i, j) /\ UNCHANGED <<nodeVars, elected>>
  <2>1. Voted(j, i, currentTerm[i])
    BY <1>2, CountedWasCast DEF CountVote
  <2>2. /\ votedFor[i] = i /\ i \in votes[i] /\ votes[i] \in SUBSET Node /\ j \in Node
        /\ currentTerm[i] \in Nat
    BY <1>2 DEF ElectionInv, CandidateBacksItself, TypeOK, Peers
  <2>3. \A v \in voters \ {i} : Voted(v, i, currentTerm[i])
    BY <1>2, <2>1 DEF Voted, VoteCounted
  <2>4. /\ currentTerm' = currentTerm /\ votedFor' = votedFor
        /\ votes'[i] = voters
        /\ \A k \in Peers(i) : role'[k] = role[k] /\ votes'[k] = votes[k]
        /\ role'[i] \in {"candidate", "leader"}
    BY <1>2 DEF BecomeLeader, nodeVars, TypeOK, Peers
  <2>5. PICK out : /\ OnlySends(i, out) /\ NoVoteIn(i, out)
    <3>1. CASE net' = Taken(i, j)
      BY <3>1, SilentHandlerSends DEF NoVoteIn, Silent
    <3>2. CASE BecomeLeader(i, j, voters)
      <4> DEFINE out == [k \in Peers(i) |-> AppendTo(i, k, currentTerm[i], Len(log[i]) + 1)]
      <4>1. OnlySends(i, out)
        BY <3>2, HandlerSends DEF BecomeLeader
      <4>2. role'[i] = "leader"
        BY <3>2 DEF BecomeLeader, TypeOK
      <4>3. NoVoteIn(i, out)
        BY <2>4, <4>2 DEF NoVoteIn, AppendTo, Leads
      <4> QED  BY <4>1, <4>3
    <3> QED  BY <1>2, <3>1, <3>2
  <2>6. ASSUME NEW v \in Node, NEW c \in Peers(v), NEW t, Voted(v, c, t)'
        PROVE  Voted(v, c, t)
    <3>1. CASE VoteUnderWay(v, c, t)'
      BY <2>5, <3>1, NoNewVotes DEF Voted
    <3>2. CASE VoteCounted(v, c, t)' /\ c # i
      BY <2>4, <3>2 DEF Voted, VoteCounted, Peers
    <3>3. CASE VoteCounted(v, c, t)' /\ c = i
      <4>1. t = currentTerm[i] /\ v \in voters \ {i}
        BY <2>4, <3>3 DEF VoteCounted, Peers
      <4> QED  BY <2>3, <3>3, <4>1
    <3> QED  BY <2>6, <3>1, <3>2, <3>3 DEF Voted
  <2>7. \A k \in Node : \A d \in Peers(k) : \A n \in DOMAIN net'[<<k, d>>] :
          \/ \E o \in DOMAIN net[<<k, d>>] : net'[<<k, d>>][n] = net[<<k, d>>][o]
          \/ net'[<<k, d>>][n].kind # "AppendReq"
          \/ k = i /\ Leads(i, net'[<<k, d>>][n].term)
    BY <2>5, AppendsStep DEF NoVoteIn
  <2>8. Wins(i) \/ (elected' = elected /\ role'[i] # "leader")
    <3>1. CASE IsQuorum(voters) /\ BecomeLeader(i, j, voters)
      <4>1. /\ role'[i] = "leader"
            /\ elected' = elected \cup
                 {[term |-> currentTerm[i], leader |-> i, voters |-> voters]}
        BY <3>1 DEF BecomeLeader, TypeOK
      <4>2. voters \in SUBSET Node /\ i \in voters
        BY <2>2
      <4> HIDE DEF voters
      <4> QED  BY <1>2, <2>3, <2>4, <3>1, <4>1, <4>2 DEF Wins
    <3>2. CASE UNCHANGED <<nodeVars, elected>>
      BY <1>2, <3>2 DEF nodeVars
    <3> QED  BY <1>2, <3>1, <3>2
  <2>9. /\ \A k \in Peers(i) :
             /\ role'[k] = role[k] /\ currentTerm'[k] = currentTerm[k]
             /\ votedFor'[k] = votedFor[k] /\ votes'[k] = votes[k]
        /\ currentTerm[i] <= currentTerm'[i]
        /\ role[i] = "candidate" /\ KeepsVote(i)
        /\ votedFor'[i] = i /\ i \in votes'[i]
    <3>1. role[i] = "candidate"
      BY <1>2
    <3>2. i \in voters
      BY <2>2
    <3> HIDE DEF voters
    <3> QED  BY <2>2, <2>4, <3>1, <3>2 DEF KeepsVote
  <2> QED  BY <2>6, <2>7, <2>8, <2>9 DEF ElectionStep
<1> QED  BY <1>1, <1>2 DEF CountVote

\* Any answer to a request for a vote handled.
LEMMA HandleVoteRespStep ==
  ASSUME TypeOK, ElectionInv, NeverForgets, NEW i \in Node, NEW j \in Peers(i), HandleVoteResp(i, j)
  PROVE  ElectionStep(i)
<1> DEFINE m == Head(net[<<j, i>>])
<1>1. net[<<j, i>>] # <<>> /\ m.kind = "VoteResp"
  BY DEF HandleVoteResp, Arrives
<1>2. m.term \in Nat /\ currentTerm[i] \in Nat
  <2>1. m \in Message
    BY <1>1, TakenType
  <2> QED  BY <2>1, <1>1 DEF Message, AppendReq, AppendResp, VoteReq, VoteResp, TypeOK
<1>3. net' = Taken(i, j) => OnlySends(i, Silent) /\ NoVoteIn(i, Silent)
  BY <1>1, SilentHandlerSends DEF NoVoteIn, Silent
<1>4. CASE CountPollAnswer(i, j, m)
  <2>1. CASE /\ Campaign(i)
             /\ Transmit(Taken(i, j), i,
                  [k \in Peers(i) |-> VoteRequest(i, currentTerm[i] + 1, FALSE)])
    <3>1. OnlySends(i, [k \in Peers(i) |-> VoteRequest(i, currentTerm[i] + 1, FALSE)])
      BY <1>1, <2>1, HandlerSends
    <3> QED  BY <1>4, <2>1, <3>1, CampaignStep DEF CountPollAnswer
  <2>2. CASE net' = Taken(i, j) /\ UNCHANGED <<nodeVars, votes>>
    BY <1>3, <1>4, <2>2, QuietStep DEF CountPollAnswer, nodeVars
  <2> QED  BY <1>4, <2>1, <2>2 DEF CountPollAnswer, tallyVars
<1>5. CASE CountVote(i, j, m)
  BY <1>1, <1>5, CountVoteStep
<1>6. CASE /\ m.term > currentTerm[i]
           /\ BecomeFollower(i, m.term, None)
           /\ net' = Taken(i, j)
           /\ UNCHANGED <<tallyVars, elected>>
  <2>1. StandsDown(i)
    <3> HIDE DEF m
    <3> QED  BY <1>2, <1>6, HigherTermStandsDown
  <2> QED  BY <1>3, <1>6, <2>1, QuietStep DEF tallyVars
<1> QED  BY <1>4, <1>5, <1>6 DEF HandleVoteResp

\* A step that touches no role, term, vote, tally or message.
LEMMA LocalStep ==
  ASSUME TypeOK, ElectionInv, NeverForgets, NEW i \in Node, net' = net, votes' = votes,
         elected' = elected, UNCHANGED <<role, currentTerm, votedFor>>
  PROVE  ElectionStep(i)
<1>1. OnlySends(i, Silent) /\ NoVoteIn(i, Silent)
  BY DEF OnlySends, NoVoteIn, Silent
<1> QED  BY <1>1, QuietStep

\* Every action is an ElectionStep of one node.
LEMMA EachActionIsElectionStep ==
  ASSUME TypeOK, ElectionInv, NeverForgets, Act
  PROVE  \E i \in Node : ElectionStep(i)
<1>1. ASSUME NEW i \in Node, BeginElection(i) \/ BeginPreVote(i) \/ LeaderTick(i)
      PROVE  ElectionStep(i)
  BY <1>1, BeginElectionStep, BeginPreVoteStep, LeaderTickStep
<1>2. ASSUME NEW i \in Node, NEW cmd \in Cmd, Propose(i, cmd)
      PROVE  ElectionStep(i)
  BY <1>2, LocalStep DEF Propose, nodeVars, tallyVars
<1>3. ASSUME NEW i \in Node, NEW j \in Peers(i),
             \/ HandleAppendReq(i, j) \/ HandleAppendResp(i, j)
             \/ HandleVoteReq(i, j) \/ HandleVoteResp(i, j) \/ ReceiveProbe(i, j)
      PROVE  ElectionStep(i)
  <2>1. ReceiveProbe(i, j) => ElectionStep(i)
    BY LocalStep DEF ReceiveProbe, nodeVars, tallyVars
  <2> QED  BY <1>3, <2>1, HandleAppendReqStep, HandleAppendRespStep, HandleVoteReqStep,
           HandleVoteRespStep
<1> QED  BY <1>1, <1>2, <1>3 DEF Act

\* In baseline mode no vote is forgotten in a step: who gave it to another node is a
\* follower, and a follower or leader keeps its vote.
LEMMA NeverForgetsStep ==
  ASSUME TypeOK, TypeOK', ElectionInv, NeverForgets, RecordForgotten,
         NEW i \in Node, ElectionStep(i)
  PROVE  NeverForgets'
<1> SUFFICES ASSUME Mode = "baseline"
             PROVE  forgotten' = {} /\ \A k \in Node : role'[k] # "precandidate"
  BY DEF NeverForgets
<1>1. forgotten = {} /\ \A k \in Node : role[k] # "precandidate"
  BY DEF NeverForgets
<1>2. ASSUME NEW k \in Node PROVE ~ForgetsVote(k) /\ role'[k] # "precandidate"
  <2>1. CASE k # i
    BY <1>1, <2>1 DEF ElectionStep, Peers, ForgetsVote
  <2>2. CASE k = i
    <3>1. role'[i] # "precandidate"
      BY DEF ElectionStep, KeepsVote
    <3>2. ASSUME currentTerm'[i] = currentTerm[i], role[i] = "leader" \/ votedFor[i] \notin {None, i}
          PROVE  votedFor'[i] = votedFor[i]
      <4>1. role[i] \in {"follower", "leader"} /\ votedFor[i] # None
        BY <1>1, <3>2, NodeAssumption DEF ElectionInv, CandidateBacksItself, TypeOK, Role
      <4> QED  BY <3>2, <4>1 DEF ElectionStep, KeepsVote
    <3> QED  BY <2>2, <3>1, <3>2 DEF ForgetsVote
  <2> QED  BY <2>1, <2>2
<1> QED  BY <1>1, <1>2 DEF RecordForgotten

\* No step leads out of ElectionInv, and none of baseline mode out of NeverForgets.
LEMMA ElectionInvNext ==
  ASSUME TypeOK, TypeOK', ElectionInv, NeverForgets, [Next]_vars
  PROVE  ElectionInv' /\ NeverForgets'
<1>1. CASE Next
  BY <1>1, EachActionIsElectionStep, ElectionStepPreserves, NeverForgetsStep DEF Next
<1>2. CASE UNCHANGED vars
  <2>1. UNCHANGED <<role, currentTerm, votedFor, votes, net, elected, forgotten>>
    BY <1>2 DEF vars, nodeVars, tallyVars
  <2>2. \A v, c, t : Voted(v, c, t)' <=> Voted(v, c, t)
    BY <2>1 DEF Voted, VoteCounted, VoteUnderWay
  <2>3. /\ \A v, c : VoteTerms(v, c)' = VoteTerms(v, c)
        /\ \A v, t : Remembers(v, t)' <=> Remembers(v, t)
    BY <2>1 DEF VoteTerms, Remembers
  <2>4. VoteBinds' /\ OneVote'
    BY <2>1, <2>2, <2>3 DEF ElectionInv, VoteBinds, OneVote
  <2>5. ElectionBinds'
    BY <2>1, <2>2, <2>3 DEF ElectionInv, ElectionBinds
  <2>6. CandidateBacksItself' /\ ElectedByQuorum' /\ OnlyForgottenVotesSplit' /\ WonOnce'
    BY <2>1 DEF ElectionInv, CandidateBacksItself, ElectedByQuorum,
                OnlyForgottenVotesSplit, WonOnce, IsQuorum
  <2>7. AppendsComeFromElected' /\ LeaderWasElected' /\ NeverForgets'
    BY <2>1 DEF ElectionInv, AppendsComeFromElected, LeaderWasElected, NeverForgets
  <2> QED  BY <2>4, <2>5, <2>6, <2>7 DEF ElectionInv
<1> QED  BY <1>1, <1>2

\* The cluster starts without campaigns, votes and elections.
LEMMA ElectionInvInit == Init => ElectionInv /\ NeverForgets
<1> SUFFICES ASSUME Init PROVE ElectionInv /\ NeverForgets
  OBVIOUS
<1>1. \A c \in Channel : net[c] = <<>> /\ DOMAIN net[c] = {}
  BY DEF Init
<1>2. \A v \in Node : \A c \in Peers(v) : \A t : ~Voted(v, c, t)
  <2> SUFFICES ASSUME NEW v \in Node, NEW c \in Peers(v), NEW t
               PROVE  ~Voted(v, c, t)
    OBVIOUS
  <2>1. DOMAIN net[<<v, c>>] = {}
    BY <1>1 DEF Channel, Peers
  <2>2. role[c] = "follower"
    BY DEF Init, Peers
  <2> QED  BY <2>1, <2>2 DEF Voted, VoteCounted, VoteUnderWay
<1>3. VoteBinds /\ OneVote
  BY <1>2 DEF VoteBinds, OneVote
<1>4. AppendsComeFromElected
  BY <1>1 DEF AppendsComeFromElected, Channel, Peers
<1>5. /\ CandidateBacksItself /\ ElectedByQuorum /\ ElectionBinds /\ WonOnce
      /\ LeaderWasElected /\ OnlyForgottenVotesSplit /\ NeverForgets
  BY DEF Init, CandidateBacksItself, ElectedByQuorum, ElectionBinds, WonOnce,
         LeaderWasElected, OnlyForgottenVotesSplit, NeverForgets
<1> QED  BY <1>3, <1>4, <1>5 DEF ElectionInv

\* The inductive invariant of elections, in every mode; in baseline mode, together
\* with it, that nobody forgets a vote.
THEOREM ElectionInvariant == Spec => [](ElectionInv /\ NeverForgets)
<1> DEFINE Inv == TypeOK /\ NextIndexSet /\ ElectionInv /\ NeverForgets
<1>1. Init => Inv
  <2>1. Init => NextIndexSet
    BY DEF Init, NextIndexSet
  <2> QED  BY <2>1, InitType, ElectionInvInit
<1>2. Inv /\ [Next]_vars => Inv'
  BY NextType, NextIndexStep, ElectionInvNext
<1>3. Inv => ElectionInv /\ NeverForgets
  OBVIOUS
<1> HIDE DEF Inv
<1> QED  BY <1>1, <1>2, <1>3, PTL DEF Spec

\* In every mode, for every cluster and any loss and delay: two leaders of one term
\* need a voter of both that forgot its vote within the term (becomeFollower).
THEOREM SplitNeedsForgottenVote == Spec => []OnlyForgottenVotesSplit
<1>1. ElectionInv => OnlyForgottenVotesSplit
  BY DEF ElectionInv
<1> QED  BY <1>1, ElectionInvariant, PTL

\* Baseline mode forgets no vote that counts, although becomeFollower clears it.
THEOREM BaselineNeverForgets == Spec => []NeverForgets
BY ElectionInvariant, PTL

\* In baseline mode no term ever has two elected leaders, for any cluster, any
\* logs and any loss and delay of messages (sim.Network.Leader: two nodes claiming
\* leadership in the same term would be a safety violation).
THEOREM BaselineElectionSafety == Mode = "baseline" /\ Spec => []ElectionSafety
<1>1. TypeOK /\ ElectionInv /\ NeverForgets => (Mode = "baseline" => ElectionSafety)
  BY OneWinner DEF NeverForgets
<1>2. Spec => [](Mode = "baseline" => ElectionSafety)
  BY <1>1, TypeCorrectness, ElectionInvariant, PTL
<1> QED
  <2>1. CASE Mode = "baseline"
    <3>1. (Mode = "baseline" => ElectionSafety) => ElectionSafety
      BY <2>1
    <3> QED  BY <1>2, <3>1, PTL
  <2>2. CASE Mode # "baseline"
    BY <2>2
  <2> QED  BY <2>1, <2>2

\* In baseline mode a vote for another node is kept while its term lasts, although
\* becomeFollower clears votedFor: only nodes that voted for themselves call it then.
THEOREM BaselineVoteIsKept == Mode = "baseline" /\ Spec => VoteIsKept
<1>1. NeverForgets' /\ Mode = "baseline" /\ [Next]_vars =>
        [\A i \in Node : currentTerm'[i] = currentTerm[i] /\ votedFor[i] \notin {None, i}
           => votedFor'[i] = votedFor[i]]_vars
  BY DEF NeverForgets, Next, RecordForgotten, ForgetsVote
<1> QED
  <2>1. CASE Mode = "baseline"
    <3>1. NeverForgets' /\ [Next]_vars =>
            [\A i \in Node : currentTerm'[i] = currentTerm[i] /\ votedFor[i] \notin {None, i}
               => votedFor'[i] = votedFor[i]]_vars
      BY <1>1, <2>1
    <3> QED  BY <3>1, ElectionInvariant, PTL DEF Spec, VoteIsKept
  <2>2. CASE Mode # "baseline"
    BY <2>2
  <2> QED  BY <2>1, <2>2
=============================================================================
