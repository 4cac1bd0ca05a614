---------------------------- MODULE TimerProofs ----------------------------
(***************************************************************************)
(* The clock of a node for every timeout, heartbeat interval and cluster.     *)
(***************************************************************************)
EXTENDS ElectionTimer, FiniteSetTheorems, TLAPS

\* A larger set of peers is a quorum if a smaller one is.
LEMMA LargerQuorum ==
  ASSUME NEW S \in SUBSET Peer, NEW B \in SUBSET Peer, S \subseteq B, IsQuorum(S)
  PROVE  IsQuorum(B)
<1>1. IsFiniteSet(B) /\ IsFiniteSet(S)
  BY PeerAssumption, FS_Subset
<1>2. Cardinality(S) <= Cardinality(B)
  BY <1>1, FS_Subset
<1>3. Cardinality(S) \in Nat /\ Cardinality(B) \in Nat /\ Cardinality(Peer) \in Nat
  BY <1>1, PeerAssumption, FS_CardinalityType
<1> QED  BY <1>2, <1>3 DEF IsQuorum

\* No timeout is drawn outside [T, 2T), so none is zero.
LEMMA TimeoutRange ==
  \A t \in Timeouts : t \in Nat /\ t > 0 /\ 2 * t < MaxQuiet
BY ConfigAssumption DEF Timeouts

\* A tick or a message leaves every quiet time a natural number.
LEMMA QuietType ==
  ASSUME TypeOK
  PROVE  /\ [p \in Peer |-> Longer(quiet[p])] \in [Peer -> Nat]
         /\ \A p \in Peer : [quiet EXCEPT ![p] = 0] \in [Peer -> Nat]
         /\ Longer(ledFor) \in Nat
BY ConfigAssumption DEF TypeOK, Longer

\* Every call preserves the types.
LEMMA TimerTypes == TypeOK /\ [Next]_vars => TypeOK'
<1> SUFFICES ASSUME TypeOK, [Next]_vars PROVE TypeOK'
  OBVIOUS
<1>1. CASE Tick
  <2>1. quiet' \in [Peer -> Nat] /\ ledFor' \in Nat
    BY <1>1, QuietType DEF Tick
  <2>2. CASE LeaderTick
    BY <2>1, <2>2 DEF LeaderTick, Heartbeat, CheckQuorum, ResetElectionTimer, TypeOK
  <2>3. CASE CampaignerTick
    BY <2>1, <2>3 DEF CampaignerTick, BeginElection, ResetElectionTimer, TypeOK
  <2> QED  BY <1>1, <2>2, <2>3 DEF Tick
<1>2. ASSUME NEW p \in Peer,
             StandDown(p) \/ GrantVote(p) \/ PollCarries(p) \/ CountVote(p) \/ OtherMessage(p)
      PROVE  TypeOK'
  <2>1. quiet' = [quiet EXCEPT ![p] = 0] /\ quiet' \in [Peer -> Nat]
    BY <1>2, QuietType DEF StandDown, GrantVote, PollCarries, CountVote, OtherMessage, Hears
  <2>2. CASE StandDown(p)
    BY <2>1, <2>2 DEF StandDown, Hears, ResetElectionTimer, TypeOK
  <2>3. CASE GrantVote(p)
    BY <2>1, <2>3 DEF GrantVote, Hears, ResetElectionTimer, TypeOK
  <2>4. CASE PollCarries(p)
    BY <2>1, <2>4 DEF PollCarries, Hears, ResetElectionTimer, TypeOK
  <2>5. CASE CountVote(p)
    BY <2>1, <2>5 DEF CountVote, TypeOK
  <2>6. CASE OtherMessage(p)
    BY <2>1, <2>6 DEF OtherMessage, Hears, timers, TypeOK
  <2> QED  BY <1>2, <2>2, <2>3, <2>4, <2>5, <2>6
<1>3. CASE UNCHANGED vars
  BY <1>3 DEF vars, timers, TypeOK
<1> QED  BY <1>1, <1>2, <1>3 DEF Next

\* Those heard within t ticks, by the quiet times q.
HeardIn(q, t) == {p \in Peer : q[p] <= t}

\* Whoever was heard within t ticks was heard within t + 1 a tick later.
LEMMA HeardOneTickLater ==
  ASSUME TypeOK, Tick
  PROVE  \A t \in Nat : HeardIn(quiet, t) \subseteq HeardIn(quiet', t + 1)
BY ConfigAssumption DEF TypeOK, Tick, HeardIn, Longer

\* A message only adds to those heard within any time, and adds its sender.
LEMMA HeardByMessage ==
  ASSUME TypeOK, NEW p \in Peer, quiet' = [quiet EXCEPT ![p] = 0]
  PROVE  \A t \in Nat : HeardIn(quiet, t) \cup {p} \subseteq HeardIn(quiet', t)
BY DEF TypeOK, HeardIn

\* TimerInv in terms of HeardIn, before and after a step.
LEMMA TimerInvHeard ==
  /\ TimerInv <=>
       /\ TypeOK
       /\ NoTimerIsDue
       /\ role = "candidate" /\ Mode # "crossfault" =>
            votes \subseteq HeardIn(quiet, electionElapsed)
       /\ role = "leader" /\ Mode # "baseline" =>
            /\ heardFrom \subseteq HeardIn(quiet, electionElapsed)
            /\ \/ IsQuorum(HeardIn(quiet, electionTimeout + electionElapsed))
               \/ Mode = "crossfault" /\ ledFor <= electionElapsed
  /\ TimerInv' <=>
       /\ TypeOK'
       /\ NoTimerIsDue'
       /\ role' = "candidate" /\ Mode # "crossfault" =>
            votes' \subseteq HeardIn(quiet', electionElapsed')
       /\ role' = "leader" /\ Mode # "baseline" =>
            /\ heardFrom' \subseteq HeardIn(quiet', electionElapsed')
            /\ \/ IsQuorum(HeardIn(quiet', electionTimeout' + electionElapsed'))
               \/ Mode = "crossfault" /\ ledFor' <= electionElapsed'
BY DEF TimerInv, HeardSince, HeardIn, IsQuorum

\* The tick of a leader, which may find that a majority was heard since the last
\* check, or since the election.
LEMMA LeaderTickKeeps ==
  ASSUME TypeOK, TypeOK', TimerInv, Tick, LeaderTick
  PROVE  TimerInv'
<1>1. /\ electionElapsed \in Nat /\ electionTimeout \in Nat /\ electionTimeout > 0
      /\ electionTimeout' \in Nat /\ electionTimeout' > 0 /\ heartbeatElapsed \in Nat
      /\ ledFor \in Nat
  BY TimeoutRange DEF TypeOK
<1>2. heartbeatElapsed' < HeartbeatInterval
  BY <1>1, ConfigAssumption DEF LeaderTick, Heartbeat, TimerInv, NoTimerIsDue
<1>3. \A t \in Nat : HeardIn(quiet, t) \subseteq HeardIn(quiet', t + 1)
  BY HeardOneTickLater
<1>4. \A q, t : HeardIn(q, t) \in SUBSET Peer
  BY DEF HeardIn
<1>5. role = "leader"
  BY DEF LeaderTick
<1>6. CASE Mode # "baseline" /\ electionElapsed + 1 >= electionTimeout
  <2>1. heardFrom' = {} /\ electionElapsed' = 0
    BY <1>6 DEF LeaderTick, CheckQuorum, ResetElectionTimer
  <2>2. CASE IsQuorum(heardFrom)
    <3>1. role' = "leader" /\ electionTimeout' = electionTimeout
      BY <1>6, <2>2 DEF LeaderTick, CheckQuorum
    <3>2. electionElapsed + 1 = electionTimeout
      BY <1>1, <1>5, <1>6 DEF TimerInv, NoTimerIsDue
    <3>3. heardFrom \subseteq HeardIn(quiet', electionElapsed + 1)
      BY <1>1, <1>3, <1>5, <1>6, TimerInvHeard
    <3>4. electionTimeout' + electionElapsed' = electionElapsed + 1
      BY <1>1, <2>1, <3>1, <3>2
    <3>5. IsQuorum(HeardIn(quiet', electionTimeout' + electionElapsed'))
      BY <1>4, <2>2, <3>3, <3>4, LargerQuorum DEF TypeOK
    <3>6. NoTimerIsDue'
      BY <1>1, <1>2, <2>1 DEF NoTimerIsDue
    <3> QED  BY <2>1, <3>1, <3>5, <3>6, TimerInvHeard
  <2>3. CASE ~IsQuorum(heardFrom)
    <3>1. role' = "follower"
      BY <1>6, <2>3 DEF LeaderTick, CheckQuorum
    <3> QED  BY <1>1, <1>2, <2>1, <3>1 DEF TimerInv, NoTimerIsDue
  <2> QED  BY <2>2, <2>3
<1>7. CASE ~(Mode # "baseline" /\ electionElapsed + 1 >= electionTimeout)
  <2>1. /\ role' = "leader" /\ electionElapsed' = electionElapsed + 1
        /\ electionTimeout' = electionTimeout /\ heardFrom' = heardFrom
    BY <1>5, <1>7 DEF LeaderTick
  <2>2. NoTimerIsDue'
    BY <1>1, <1>2, <1>7, <2>1 DEF NoTimerIsDue
  <2>3. electionTimeout' + electionElapsed' = (electionTimeout + electionElapsed) + 1
    BY <1>1, <2>1
  <2>4. ASSUME Mode # "baseline"
        PROVE  /\ heardFrom' \subseteq HeardIn(quiet', electionElapsed')
               /\ \/ IsQuorum(HeardIn(quiet', electionTimeout' + electionElapsed'))
                  \/ Mode = "crossfault" /\ ledFor' <= electionElapsed'
    <3>1. heardFrom' \subseteq HeardIn(quiet', electionElapsed')
      BY <1>1, <1>3, <1>5, <2>1, <2>4, TimerInvHeard
    <3>2. CASE IsQuorum(HeardIn(quiet, electionTimeout + electionElapsed))
      <4>1. electionTimeout + electionElapsed \in Nat
        BY <1>1
      <4>2. HeardIn(quiet, electionTimeout + electionElapsed) \subseteq
              HeardIn(quiet', electionTimeout' + electionElapsed')
        BY <1>3, <2>3, <4>1
      <4> QED  BY <1>4, <3>2, <4>2, <3>1, LargerQuorum
    <3>3. CASE Mode = "crossfault" /\ ledFor <= electionElapsed
      BY <1>1, <1>5, <2>1, <3>1, <3>3 DEF Tick, Longer
    <3> QED  BY <1>5, <2>4, <3>2, <3>3, TimerInvHeard
  <2> QED  BY <2>1, <2>2, <2>4, TimerInvHeard
<1> QED  BY <1>6, <1>7

\* The tick of a node that does not lead: a campaign starts with no peer's vote.
LEMMA CampaignerTickKeeps ==
  ASSUME TypeOK, TypeOK', TimerInv, Tick, CampaignerTick
  PROVE  TimerInv'
<1>1. /\ electionElapsed \in Nat /\ electionTimeout \in Nat
      /\ electionTimeout' \in Nat /\ electionTimeout' > 0 /\ heartbeatElapsed \in Nat
  BY TimeoutRange DEF TypeOK
<1>2. heartbeatElapsed' < HeartbeatInterval /\ role # "leader"
  BY DEF CampaignerTick, TimerInv, NoTimerIsDue
<1>3. CASE electionElapsed + 1 >= electionTimeout
  <2>1. /\ electionElapsed' = 0 /\ role' # "leader"
        /\ role' = "candidate" /\ Mode # "crossfault" => votes' = {} 
    BY <1>2, <1>3 DEF CampaignerTick, BeginElection, ResetElectionTimer
  <2> QED  BY <1>1, <1>2, <2>1 DEF TimerInv, NoTimerIsDue
<1>4. CASE ~(electionElapsed + 1 >= electionTimeout)
  <2>1. /\ electionElapsed' = electionElapsed + 1 /\ electionTimeout' = electionTimeout
        /\ role' = role /\ votes' = votes
    BY <1>4 DEF CampaignerTick
  <2>2. NoTimerIsDue'
    BY <1>1, <1>2, <1>4, <2>1 DEF NoTimerIsDue
  <2>3. role = "candidate" /\ Mode # "crossfault" =>
          votes' \subseteq HeardIn(quiet', electionElapsed')
    BY <1>1, <2>1, HeardOneTickLater, TimerInvHeard
  <2> QED  BY <1>2, <2>1, <2>2, <2>3, TimerInvHeard
<1> QED  BY <1>3, <1>4

\* A message handled.
LEMMA DeliverKeeps ==
  ASSUME TypeOK, TypeOK', TimerInv, NEW p \in Peer,
         StandDown(p) \/ GrantVote(p) \/ PollCarries(p) \/ CountVote(p) \/ OtherMessage(p)
  PROVE  TimerInv'
<1>1. /\ electionElapsed \in Nat /\ electionTimeout \in Nat
      /\ electionTimeout' \in Nat /\ electionTimeout' > 0 /\ heartbeatElapsed \in Nat
  BY TimeoutRange DEF TypeOK
<1>2. \A t \in Nat : HeardIn(quiet, t) \cup {p} \subseteq HeardIn(quiet', t)
  <2>1. quiet' = [quiet EXCEPT ![p] = 0]
    BY DEF StandDown, GrantVote, PollCarries, CountVote, OtherMessage, Hears
  <2> QED  BY <2>1, HeardByMessage
<1>3. \A q, t : HeardIn(q, t) \in SUBSET Peer
  BY DEF HeardIn
<1>4. CASE StandDown(p) \/ GrantVote(p) \/ PollCarries(p)
  <2>1. /\ electionElapsed' = 0 /\ heartbeatElapsed' = heartbeatElapsed
        /\ role' # "leader" /\ (role' = "candidate" => votes' = {})
    BY <1>4 DEF StandDown, GrantVote, PollCarries, ResetElectionTimer
  <2> QED  BY <1>1, <2>1 DEF TimerInv, NoTimerIsDue
<1>5. CASE CountVote(p)
  <2>1. /\ role = "candidate" /\ votes' = votes \cup {p}
        /\ electionElapsed' = electionElapsed /\ electionTimeout' = electionTimeout
    BY <1>5 DEF CountVote
  <2>2. Mode # "crossfault" => votes' \subseteq HeardIn(quiet', electionElapsed')
    BY <1>1, <1>2, <2>1, TimerInvHeard
  <2>3. NoTimerIsDue'
    BY <1>1, <1>5, <2>1, ConfigAssumption DEF CountVote, TimerInv, NoTimerIsDue
  <2>4. CASE IsQuorum(votes')
    <3>1. role' = "leader" /\ heardFrom' = {} /\ ledFor' = 0
      BY <1>5, <2>4 DEF CountVote
    <3>2. HeardIn(quiet', electionElapsed') \subseteq
            HeardIn(quiet', electionTimeout' + electionElapsed')
      <4>1. \A k \in Peer : quiet'[k] \in Nat
        BY DEF TypeOK
      <4> QED  BY <1>1, <2>1, <4>1 DEF HeardIn
    <3>3. Mode # "crossfault" =>
            IsQuorum(HeardIn(quiet', electionTimeout' + electionElapsed'))
      <4>1. votes' \in SUBSET Peer
        BY DEF TypeOK
      <4>2. Mode # "crossfault" =>
              votes' \subseteq HeardIn(quiet', electionTimeout' + electionElapsed')
        BY <2>2, <3>2
      <4> QED  BY <1>3, <2>4, <4>1, <4>2, LargerQuorum
    <3>4. ledFor' <= electionElapsed'
      BY <1>1, <2>1, <3>1
    <3> QED  BY <2>3, <3>1, <3>3, <3>4, TimerInvHeard
  <2>5. CASE ~IsQuorum(votes')
    <3>1. role' = "candidate"
      BY <1>5, <2>1, <2>5 DEF CountVote
    <3> QED  BY <2>2, <2>3, <3>1, TimerInvHeard
  <2> QED  BY <2>4, <2>5
<1>6. CASE OtherMessage(p)
  <2>1. /\ role' = role /\ votes' = votes /\ heardFrom' = heardFrom \cup {p}
        /\ electionElapsed' = electionElapsed /\ electionTimeout' = electionTimeout
        /\ heartbeatElapsed' = heartbeatElapsed /\ ledFor' = ledFor
    BY <1>6 DEF OtherMessage, Hears, timers
  <2>2. NoTimerIsDue'
    BY <2>1 DEF TimerInv, NoTimerIsDue
  <2>3. /\ HeardIn(quiet, electionElapsed) \cup {p} \subseteq HeardIn(quiet', electionElapsed')
        /\ HeardIn(quiet, electionTimeout + electionElapsed) \subseteq
             HeardIn(quiet', electionTimeout' + electionElapsed')
    <3>1. electionTimeout + electionElapsed \in Nat
      BY <1>1
    <3> QED  BY <1>1, <1>2, <2>1, <3>1
  <2>4. IsQuorum(HeardIn(quiet, electionTimeout + electionElapsed)) =>
          IsQuorum(HeardIn(quiet', electionTimeout' + electionElapsed'))
    BY <1>3, <2>3, LargerQuorum
  <2> QED  BY <2>1, <2>2, <2>3, <2>4, TimerInvHeard
<1> QED  BY <1>4, <1>5, <1>6

\* The timers' inductive invariant.
THEOREM TimerInvariant == Spec => [](TypeOK /\ TimerInv)
<1>1. Init => TypeOK /\ TimerInv
  BY ConfigAssumption DEF Init, TypeOK, TimerInv, NoTimerIsDue, Timeouts
<1>2. TypeOK /\ TimerInv /\ [Next]_vars => (TypeOK /\ TimerInv)'
  <2> SUFFICES ASSUME TypeOK, TimerInv, [Next]_vars PROVE TypeOK' /\ TimerInv'
    OBVIOUS
  <2>1. TypeOK'
    BY TimerTypes
  <2>2. CASE Tick
    BY <2>1, <2>2, LeaderTickKeeps, CampaignerTickKeeps DEF Tick
  <2>3. CASE \E p \in Peer : \/ StandDown(p) \/ GrantVote(p) \/ PollCarries(p)
                             \/ CountVote(p) \/ OtherMessage(p)
    BY <2>1, <2>3, DeliverKeeps
  <2>4. CASE UNCHANGED vars
    BY <2>1, <2>4 DEF vars, timers, TimerInv, NoTimerIsDue, HeardSince, IsQuorum
  <2> QED  BY <2>1, <2>2, <2>3, <2>4 DEF Next
<1> QED  BY <1>1, <1>2, PTL DEF Spec

\* The types alone: the timeout that resetElectionTimer draws stays in its range.
THEOREM TimerTypesHold == Spec => []TypeOK
BY TimerInvariant, PTL

\* No timer is ever due between two calls, so a node that knows a leader refuses
\* every poll (believesLeaderIsLive).
THEOREM TimersNeverDue == Spec => []NoTimerIsDue
<1>1. TimerInv => NoTimerIsDue
  BY DEF TimerInv
<1> QED  BY <1>1, TimerInvariant, PTL

\* CheckQuorum's bound: two election timeouts, whatever they are and however many
\* members there are.
THEOREM LeaderHeardByMajority == Spec => []LeaderIsHeard
<1>1. TypeOK /\ TimerInv => LeaderIsHeard
  <2> SUFFICES ASSUME TypeOK, TimerInv, role = "leader", Mode # "baseline",
                      Mode = "prevote" \/ ledFor >= electionTimeout
               PROVE  IsQuorum({p \in Peer : quiet[p] < 2 * electionTimeout})
    BY DEF LeaderIsHeard
  <2>1. /\ electionElapsed \in Nat /\ electionTimeout \in Nat /\ ledFor \in Nat
        /\ electionElapsed < electionTimeout
    BY TimeoutRange DEF TypeOK, TimerInv, NoTimerIsDue
  <2>2. IsQuorum(HeardSince(electionTimeout + electionElapsed))
    BY <2>1 DEF TimerInv
  <2>3. HeardSince(electionTimeout + electionElapsed) \subseteq
          {p \in Peer : quiet[p] < 2 * electionTimeout}
    BY <2>1 DEF HeardSince, TypeOK
  <2>4. HeardSince(electionTimeout + electionElapsed) \in SUBSET Peer
    BY DEF HeardSince
  <2> QED  BY <2>2, <2>3, <2>4, LargerQuorum
<1> QED  BY <1>1, TimerInvariant, PTL
=============================================================================
