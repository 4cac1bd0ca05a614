--------------------------- MODULE ElectionTimer ---------------------------
(***************************************************************************)
(* The clock of one consensus node, tick by tick (node.go: Tick,              *)
(* resetElectionTimer), and the calls of Deliver that touch it.  Module Raft  *)
(* lets a timer expire whenever it likes; this module keeps the counters, and  *)
(* leaves out terms and logs: any message may carry a higher term, any vote    *)
(* may be granted, any poll may carry.                                        *)
(***************************************************************************)
EXTENDS Naturals, FiniteSets

CONSTANTS
  Mode,
  Peer,               \* the other members
  ElectionTimeout,    \* Config: base timeout T; the timer draws from [T, 2T)
  HeartbeatInterval,  \* Config
  MaxQuiet            \* bound: longer silences are not told apart

ASSUME ModeAssumption == Mode \in {"baseline", "prevote", "crossfault"}
ASSUME PeerAssumption == IsFiniteSet(Peer)
ASSUME ConfigAssumption ==
  /\ ElectionTimeout \in Nat \ {0} /\ HeartbeatInterval \in Nat \ {0}
  /\ MaxQuiet \in Nat /\ MaxQuiet >= 4 * ElectionTimeout

VARIABLES
  role, electionElapsed, electionTimeout, heartbeatElapsed,
  votes, heardFrom,  \* peers only: the node itself always counts
  quiet,             \* history: ticks since each peer was last heard
  ledFor             \* history: ticks since the node was last elected

timers == <<electionElapsed, electionTimeout, heartbeatElapsed>>
vars == <<role, timers, votes, heardFrom, quiet, ledFor>>

\* The node and the peers in S are a majority of the members.
IsQuorum(S) == Cardinality(S) + 1 >= ((Cardinality(Peer) + 1) \div 2) + 1

Timeouts == ElectionTimeout..(2 * ElectionTimeout - 1)

ResetElectionTimer ==
  /\ electionElapsed' = 0
  /\ electionTimeout' \in Timeouts

Init ==
  /\ role = "follower"
  /\ electionElapsed = 0
  /\ electionTimeout \in Timeouts
  /\ heartbeatElapsed = 0
  /\ votes = {}
  /\ heardFrom = {}
  /\ quiet = [p \in Peer |-> 0]
  /\ ledFor = 0

Longer(q) == IF q < MaxQuiet THEN q + 1 ELSE q

-----------------------------------------------------------------------------
\* The heartbeat of a leader's tick.
Heartbeat ==
  heartbeatElapsed' = IF heartbeatElapsed + 1 >= HeartbeatInterval
                      THEN 0 ELSE heartbeatElapsed + 1

\* Mutant of CheckQuorum: nobody is forgotten once heard.
CheckQuorumRemembering ==
  IF IsQuorum(heardFrom)
  THEN /\ electionElapsed' = 0
       /\ UNCHANGED <<role, electionTimeout, heardFrom>>
  ELSE /\ role' = "follower"
       /\ ResetElectionTimer
       /\ UNCHANGED heardFrom

\* CheckQuorum: the timeout drawn before the election keeps serving a leader.
CheckQuorum ==
  /\ heardFrom' = {}
  /\ IF IsQuorum(heardFrom)
     THEN electionElapsed' = 0 /\ UNCHANGED <<role, electionTimeout>>
     ELSE role' = "follower" /\ ResetElectionTimer

\* Mutant of LeaderTick: the check is due one tick late.
LeaderTickLate ==
  /\ role = "leader"
  /\ Heartbeat
  /\ IF Mode # "baseline" /\ electionElapsed + 1 > electionTimeout
     THEN CheckQuorum
     ELSE /\ electionElapsed' = electionElapsed + 1
          /\ UNCHANGED <<role, electionTimeout, heardFrom>>
  /\ UNCHANGED votes

LeaderTick ==
  /\ role = "leader"
  /\ Heartbeat
  /\ IF Mode # "baseline" /\ electionElapsed + 1 >= electionTimeout
     THEN CheckQuorum
     ELSE /\ electionElapsed' = electionElapsed + 1
          /\ UNCHANGED <<role, electionTimeout, heardFrom>>
  /\ UNCHANGED votes

\* beginElection.  In crossfault mode it may decline, which only restarts the
\* timer: a candidate that declines remains one, with the votes it has.
BeginElection ==
  /\ ResetElectionTimer
  /\ \/ Mode = "baseline" /\ role' = "candidate" /\ votes' = {}
     \/ Mode # "baseline" /\ role' = "precandidate" /\ UNCHANGED votes
     \/ Mode = "crossfault" /\ UNCHANGED <<role, votes>>

CampaignerTick ==
  /\ role # "leader"
  /\ IF electionElapsed + 1 >= electionTimeout
     THEN BeginElection
     ELSE /\ electionElapsed' = electionElapsed + 1
          /\ UNCHANGED <<role, electionTimeout, votes>>
  /\ UNCHANGED <<heartbeatElapsed, heardFrom>>

Tick ==
  /\ LeaderTick \/ CampaignerTick
  /\ quiet' = [p \in Peer |-> Longer(quiet[p])]
  /\ ledFor' = IF role = "leader" THEN Longer(ledFor) ELSE 0

-----------------------------------------------------------------------------
\* Deliver: a message of p's is verified, and then handled.
Hears(p) ==
  /\ heardFrom' = heardFrom \cup {p}
  /\ quiet' = [quiet EXCEPT ![p] = 0]

\* A higher term, or the AppendEntries of a leader this node accepts.
StandDown(p) ==
  /\ role' = "follower"
  /\ ResetElectionTimer
  /\ Hears(p)
  /\ UNCHANGED <<heartbeatElapsed, votes, ledFor>>

\* handleVoteReq grants; a candidate or a leader has voted for itself.
GrantVote(p) ==
  /\ role \in {"follower", "precandidate"}
  /\ ResetElectionTimer
  /\ Hears(p)
  /\ UNCHANGED <<role, heartbeatElapsed, votes, ledFor>>

\* handleVoteResp: the poll carries (promoteToCandidate).
PollCarries(p) ==
  /\ role = "precandidate"
  /\ role' = "candidate"
  /\ votes' = {}
  /\ ResetElectionTimer
  /\ Hears(p)
  /\ UNCHANGED <<heartbeatElapsed, ledFor>>

\* handleVoteResp: a vote is counted, and may elect the node.  becomeLeader
\* forgets who was heard but leaves the election timer running.
CountVote(p) ==
  /\ role = "candidate"
  /\ votes' = votes \cup {p}
  /\ quiet' = [quiet EXCEPT ![p] = 0]
  /\ IF IsQuorum(votes')
     THEN role' = "leader" /\ heartbeatElapsed' = 0 /\ heardFrom' = {} /\ ledFor' = 0
     ELSE heardFrom' = heardFrom \cup {p} /\ UNCHANGED <<role, heartbeatElapsed, ledFor>>
  /\ UNCHANGED <<electionElapsed, electionTimeout>>

\* Any message that leaves the role and the timer alone.
OtherMessage(p) ==
  /\ Hears(p)
  /\ UNCHANGED <<role, timers, votes, ledFor>>

Next ==
  \/ Tick
  \/ \E p \in Peer : \/ StandDown(p) \/ GrantVote(p) \/ PollCarries(p)
                     \/ CountVote(p) \/ OtherMessage(p)

Spec == Init /\ [][Next]_vars

-----------------------------------------------------------------------------
\* Between two calls no timer is due: the Tick that reaches a limit acts on it.
\* Hence electionElapsed < electionTimeout, the second half of
\* believesLeaderIsLive, is true of every node that answers a poll, however long
\* the leader has been silent.
NoTimerIsDue ==
  /\ role # "leader" \/ Mode # "baseline" => electionElapsed < electionTimeout
  /\ heartbeatElapsed < HeartbeatInterval

\* Outside baseline mode a node leads only while a majority of the members, with
\* itself, was heard in the last two election timeouts (the comment in Tick: a
\* leader that cannot hear a majority must step down).  The exception is the first
\* election timeout of a leader in crossfault mode, which may have been elected by
\* votes gathered over several timeouts at which it declined to campaign.
LeaderIsHeard ==
  /\ role = "leader" /\ Mode # "baseline"
  /\ Mode = "prevote" \/ ledFor >= electionTimeout
  => IsQuorum({p \in Peer : quiet[p] < 2 * electionTimeout})

\* The types, with the range of the randomised timeout.
TypeOK ==
  /\ role \in {"follower", "precandidate", "candidate", "leader"}
  /\ electionElapsed \in Nat /\ heartbeatElapsed \in Nat
  /\ electionTimeout \in Timeouts
  /\ votes \in SUBSET Peer /\ heardFrom \in SUBSET Peer
  /\ quiet \in [Peer -> Nat] /\ ledFor \in Nat

\* Why LeaderIsHeard holds: whoever voted in this campaign, or was heard since the
\* last check, was heard since the timer last started; a check needs a majority of
\* those, and so does an election unless the candidate has declined meanwhile.
HeardSince(t) == {p \in Peer : quiet[p] <= t}

TimerInv ==
  /\ TypeOK
  /\ NoTimerIsDue
  /\ role = "candidate" /\ Mode # "crossfault" => votes \subseteq HeardSince(electionElapsed)
  /\ role = "leader" /\ Mode # "baseline" =>
       /\ heardFrom \subseteq HeardSince(electionElapsed)
       /\ \/ IsQuorum(HeardSince(electionTimeout + electionElapsed))
          \/ Mode = "crossfault" /\ ledFor <= electionElapsed
=============================================================================
