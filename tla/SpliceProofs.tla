---------------------------- MODULE SpliceProofs ----------------------------
(***************************************************************************)
(* The loop of AppendFromLeader computes what RaftLog says, for every log and *)
(* every batch.                                                               *)
(***************************************************************************)
EXTENDS SpliceLoop, TLAPS

\* The loop handles sequences of entries only.
LEMMA SpliceTypes == TypeOK /\ [Iterate]_vars => TypeOK'
<1> SUFFICES ASSUME TypeOK, [Iterate]_vars PROVE TypeOK'
  OBVIOUS
<1>1. CASE Iterate
  <2>1. entry \in Entry /\ idx \in Nat /\ idx >= 1
    BY <1>1 DEF Iterate, TypeOK, entry, idx, Log
  <2>2. log' \in Log
    <3>1. CASE AlreadyThere
      BY <3>1 DEF AlreadyThere, TypeOK
    <3>2. CASE LeaderWins
      BY <2>1, <3>2 DEF LeaderWins, TypeOK, Log
    <3>3. CASE Extends
      BY <2>1, <3>3 DEF Extends, TypeOK, Log
    <3> QED  BY <1>1, <3>1, <3>2, <3>3 DEF Iterate
  <2> QED  BY <1>1, <2>2 DEF Iterate, TypeOK, Log
<1>2. CASE UNCHANGED vars
  BY <1>2 DEF vars, TypeOK
<1> QED  BY <1>1, <1>2

\* The entries agree one further exactly if the next entry is already there.
LEMMA AgreesNext ==
  ASSUME TypeOK, done < Len(incoming)
  PROVE  AgreesThrough(before, prevIndex, incoming, idx) <=>
           /\ AgreedSoFar
           /\ idx \in DOMAIN before /\ before[idx].term = entry.term
<1>1. idx - prevIndex = done + 1 /\ idx \in Nat /\ prevIndex \in Nat /\ done \in Nat
  BY DEF TypeOK, idx, Log
<1>2. \A k : k \in (prevIndex + 1)..idx <=> k \in (prevIndex + 1)..(prevIndex + done) \/ k = idx
  BY <1>1 DEF idx
<1>3. idx \in DOMAIN before <=> idx <= Len(before)
  BY <1>1 DEF TypeOK, Log, idx
<1> QED  BY <1>1, <1>2, <1>3 DEF AgreesThrough, AgreedSoFar, entry

\* Every iteration keeps the loop invariant, and what it writes is at its index.
LEMMA SpliceStep ==
  ASSUME TypeOK, SpliceInv, Iterate
  PROVE  SpliceInv' /\ (log' # log => Len(log') = idx /\ log'[idx] = entry)
<1>1. /\ prevIndex' = prevIndex /\ before' = before /\ incoming' = incoming
      /\ done' = done + 1 /\ done < Len(incoming)
      /\ prevIndex' + done' = idx
  BY DEF Iterate, idx, TypeOK, Log
<1>2. /\ log \in Seq(Entry) /\ before \in Seq(Entry) /\ entry \in Entry
      /\ idx \in Nat \ {0} /\ idx = prevIndex + done + 1 /\ prevIndex \in Nat
      /\ idx - prevIndex = done + 1 /\ idx > prevIndex /\ Len(log) \in Nat
      /\ prevIndex + done \in Nat
  BY <1>1 DEF TypeOK, entry, idx, Log
<1>3. AgreedSoFar' <=> AgreesThrough(before, prevIndex, incoming, idx)
  BY <1>1 DEF AgreedSoFar
<1>4. CASE AlreadyThere
  <2>1. AgreedSoFar /\ log = before
    BY <1>2, <1>4 DEF AlreadyThere, SpliceInv
  <2>2. AgreedSoFar' /\ idx <= Len(log) /\ log' = log
    BY <1>1, <1>2, <1>3, <1>4, <2>1, AgreesNext DEF AlreadyThere
  <2> QED  BY <1>1, <2>1, <2>2 DEF SpliceInv
<1>5. CASE LeaderWins \/ Extends
  <2>1. Len(log') = idx /\ log'[idx] = entry
    <3>1. CASE LeaderWins
      BY <1>2, <3>1 DEF LeaderWins
    <3>2. CASE Extends
      <4>1. Len(log) = prevIndex + done
        BY <1>2, <3>2 DEF Extends, SpliceInv
      <4> QED  BY <1>2, <3>2, <4>1 DEF Extends
    <3> QED  BY <1>5, <3>1, <3>2
  <2>2. \A n \in 1..(prevIndex + done) : log'[n] = log[n]
    BY <1>2, <1>5 DEF LeaderWins, Extends, SpliceInv
  <2>3. ~AgreedSoFar'
    <3>1. CASE AgreedSoFar
      BY <1>1, <1>3, <1>5, <3>1, AgreesNext DEF SpliceInv, LeaderWins, Extends
    <3>2. CASE ~AgreedSoFar
      BY <1>1, <1>3, <3>2, AgreesNext
    <3> QED  BY <3>1, <3>2
  <2>4. ASSUME NEW n \in 1..idx
        PROVE  log'[n] = IF n <= prevIndex \/ AgreesThrough(before, prevIndex, incoming, n)
                         THEN before[n]
                         ELSE incoming[n - prevIndex]
    <3>1. CASE n = idx
      <4>1. ~AgreesThrough(before, prevIndex, incoming, n) /\ ~(n <= prevIndex)
        BY <1>2, <1>3, <2>3, <3>1
      <4> QED  BY <1>2, <2>1, <3>1, <4>1 DEF entry
    <3>2. CASE n # idx /\ AgreedSoFar
      <4>1. n \in 1..(prevIndex + done) /\ log = before
        BY <1>2, <3>2 DEF SpliceInv
      <4>2. n > prevIndex => AgreesThrough(before, prevIndex, incoming, n)
        BY <1>2, <3>2, <4>1 DEF AgreedSoFar, AgreesThrough
      <4> QED  BY <1>2, <2>2, <4>1, <4>2
    <3>3. CASE n # idx /\ ~AgreedSoFar
      <4>1. n \in 1..(prevIndex + done) /\ n \in DOMAIN log
        BY <1>2, <3>3 DEF SpliceInv
      <4> QED  BY <2>2, <3>3, <4>1 DEF SpliceInv
    <3> QED  BY <3>1, <3>2, <3>3
  <2>5. DOMAIN log' = 1..idx
    <3>1. log' \in Seq(Entry)
      BY SpliceTypes DEF TypeOK, Log
    <3> QED  BY <2>1, <3>1
  <2>6. SpliceInv'
    BY <1>1, <1>2, <2>1, <2>3, <2>4, <2>5 DEF SpliceInv
  <2> QED  BY <2>1, <2>6
<1> QED  BY <1>4, <1>5 DEF Iterate, AlreadyThere

\* The loop invariant holds from the call on.
LEMMA SpliceInit == Init => TypeOK /\ SpliceInv
<1> SUFFICES ASSUME Init PROVE TypeOK /\ SpliceInv
  OBVIOUS
<1>1. TypeOK
  BY InputAssumption DEF Init, TypeOK, Log
<1>2. prevIndex + done = prevIndex /\ prevIndex \in Nat /\ Len(before) \in Nat
  BY <1>1 DEF Init, TypeOK, Log
<1>3. AgreedSoFar
  BY <1>2 DEF AgreedSoFar, AgreesThrough
<1> QED  BY <1>1, <1>2, <1>3 DEF Init, SpliceInv, TypeOK

\* When the loop is over the invariant is RaftLog's closed form.
LEMMA SpliceEnd == TypeOK /\ SpliceInv => SpliceResult
<1> SUFFICES ASSUME TypeOK, SpliceInv, done = Len(incoming)
             PROVE  log = AppendFromLeader(before, prevIndex, incoming)
  BY DEF SpliceResult
<1> DEFINE last == prevIndex + Len(incoming)
<1>1. AgreedSoFar <=> AgreesThrough(before, prevIndex, incoming, last)
  BY DEF AgreedSoFar
<1>2. CASE AgreedSoFar
  BY <1>1, <1>2 DEF SpliceInv, AppendFromLeader
<1>3. CASE ~AgreedSoFar
  <2>1. log = [n \in 1..Len(log) |-> log[n]] /\ DOMAIN log = 1..Len(log)
    BY DEF TypeOK, Log
  <2>2. Len(log) = last
    BY <1>3 DEF SpliceInv
  <2> QED  BY <1>1, <1>3, <2>1, <2>2 DEF SpliceInv, AppendFromLeader
<1> QED  BY <1>2, <1>3

\* The loop invariant, for every log, previous index and batch.
THEOREM SpliceInvariant == Spec => [](TypeOK /\ SpliceInv)
<1>1. TypeOK /\ SpliceInv /\ [Iterate]_vars => (TypeOK /\ SpliceInv)'
  <2>1. TypeOK /\ SpliceInv /\ UNCHANGED vars => SpliceInv'
    BY DEF vars, SpliceInv, AgreedSoFar
  <2> QED  BY <2>1, SpliceTypes, SpliceStep
<1> QED  BY <1>1, SpliceInit, PTL DEF Spec

\* AppendFromLeader leaves behind the log that the consensus model takes it to
\* leave, whatever the follower held and whatever the leader sent.
THEOREM SpliceCorrect == Spec => []SpliceResult
BY SpliceInvariant, SpliceEnd, PTL

\* The Index of an entry written is its position in the log.
THEOREM SplicePositions == Spec => IndexIsPosition
<1>1. TypeOK /\ SpliceInv /\ [Iterate]_vars =>
        [log' # log => Len(log') = idx /\ log'[idx] = entry]_vars
  BY SpliceStep
<1> QED  BY <1>1, SpliceInvariant, PTL DEF Spec, IndexIsPosition
=============================================================================
