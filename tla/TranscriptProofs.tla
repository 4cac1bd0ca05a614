-------------------------- MODULE TranscriptProofs --------------------------
(***************************************************************************)
(* The transcript turns the fabric's edge into LossyFifo, for any number of   *)
(* messages and whatever the edge does to them.                               *)
(***************************************************************************)
EXTENDS Transcript, SequenceTheorems, FiniteSetTheorems, TLAPS

\* What is pending on the edge, in the refinement.
Pending == {env.seq : env \in {e \in wire : e.intact /\ e.seq > recvSeq}}

\* Sealing links the new envelope to the last one.
LEMMA SealedLink ==
  ASSUME TypeOK, Seal
  PROVE  /\ Sealed \in Envelope /\ Tampered \in Envelope
         /\ Sealed.seq = sendSeq + 1 /\ Sealed.prevHash = sendSeq /\ Sealed.intact
         /\ Tampered.seq = sendSeq + 1 /\ Tampered.prevHash = sendSeq /\ ~Tampered.intact
         /\ sendSeq' = sendSeq + 1 /\ sendHead' = sendSeq + 1
<1>1. sendSeq \in Nat /\ sendHead = sendSeq
  BY DEF TypeOK
<1>2. Sealed \in Envelope /\ Tampered \in Envelope
  BY <1>1 DEF Sealed, Tampered, Envelope
<1>3. Sealed.intact /\ ~Tampered.intact
  BY Zenon DEF Sealed, Tampered
<1>4. /\ Sealed.seq = sendSeq + 1 /\ Sealed.prevHash = sendSeq
      /\ Tampered.seq = sendSeq + 1 /\ Tampered.prevHash = sendSeq
  BY <1>1 DEF Sealed, Tampered
<1>5. sendSeq' = sendSeq + 1 /\ sendHead' = sendSeq + 1
  BY <1>4 DEF Seal, Hash
<1> QED  BY <1>2, <1>3, <1>4, <1>5

\* Every step keeps the two halves of the chain fitting.
LEMMA TranscriptTypes == TypeOK /\ [Next]_vars => TypeOK'
<1> SUFFICES ASSUME TypeOK, [Next]_vars PROVE TypeOK'
  OBVIOUS
<1>1. CASE Send \/ SendUncollected
  <2>1. Seal
    BY <1>1 DEF Send, SendUncollected
  <2>2. UNCHANGED <<recvSeq, recvHead, started, gaps, accepted>>
    BY <2>1 DEF Seal, receiver
  <2>3. wire' \subseteq wire \cup {Sealed, Tampered}
    BY <1>1 DEF Send, SendUncollected
  <2>4. given' \subseteq given \cup {sendSeq + 1}
    BY <1>1, <2>1, SealedLink DEF Send, SendUncollected
  <2>5. ASSUME NEW env \in wire'
        PROVE  env \in Envelope /\ env.seq <= sendSeq' /\ env.prevHash = env.seq - 1
    <3>1. CASE env \in wire
      BY <2>1, <3>1, SealedLink DEF TypeOK, Envelope
    <3>2. CASE env = Sealed
      BY <2>1, <3>2, SealedLink DEF TypeOK
    <3>3. CASE env = Tampered
      BY <2>1, <3>3, SealedLink DEF TypeOK
    <3> QED  BY <2>3, <3>1, <3>2, <3>3
  <2>6. sendSeq' \in Nat /\ sendHead' = sendSeq' /\ recvSeq \in 0..sendSeq'
    BY <2>1, SealedLink DEF TypeOK
  <2>7. given' \subseteq 1..sendSeq'
    BY <2>1, <2>4, SealedLink DEF TypeOK
  <2> QED  BY <2>2, <2>5, <2>6, <2>7 DEF TypeOK
<1>2. ASSUME NEW env \in wire, Deliver(env)
      PROVE  TypeOK'
  <2>1. /\ UNCHANGED <<sendSeq, sendHead, given>> /\ wire' \subseteq wire
    BY <1>2 DEF Deliver, sender
  <2>2. CASE Accept(env)
    <3>1. env.seq \in Nat \ {0} /\ env.seq <= sendSeq /\ env.seq > recvSeq
      BY <2>2 DEF Accept, TypeOK, Envelope
    <3>2. recvSeq' = env.seq /\ recvHead' = env.seq /\ started' = TRUE /\ gaps' \in Nat
      BY <2>2 DEF Accept, Hash, TypeOK
    <3>3. accepted' \in Seq(Nat) /\ \A k \in DOMAIN accepted' : accepted'[k] \in 1..recvSeq'
      <4>1. /\ accepted \in Seq(Nat) /\ accepted' = Append(accepted, env.seq)
            /\ \A k \in DOMAIN accepted : accepted[k] \in 1..env.seq
        BY <2>2, <3>1 DEF Accept, TypeOK
      <4> QED  BY <3>1, <3>2, <4>1
    <3> QED  BY <2>1, <3>1, <3>2, <3>3 DEF TypeOK
  <2>3. CASE Reject(env)
    BY <2>1, <2>3 DEF Reject, receiver, TypeOK
  <2> QED  BY <1>2, <2>2, <2>3 DEF Deliver
<1>3. CASE UNCHANGED vars
  BY <1>3 DEF vars, sender, receiver, TypeOK
<1> QED  BY <1>1, <1>2, <1>3 DEF Next

\* The chain's bookkeeping, for any number of envelopes.
THEOREM TranscriptTypeOK == Spec => []TypeOK
<1>1. Init => TypeOK
  <2> SUFFICES ASSUME Init PROVE TypeOK
    OBVIOUS
  <2>1. started \in BOOLEAN /\ ~started
    BY Zenon DEF Init
  <2>2. ~(recvSeq > 0) /\ recvSeq \in 0..sendSeq
    BY DEF Init
  <2>3. accepted \in Seq(Nat) /\ DOMAIN accepted = {}
    BY DEF Init
  <2> QED  BY <2>1, <2>2, <2>3 DEF Init, TypeOK
<1> QED  BY <1>1, TranscriptTypes, PTL DEF Spec

\* Every step of the transcript and the fabric is a step of LossyFifo, or none.
LEMMA TranscriptStep ==
  ASSUME TypeOK, [Next]_vars
  PROVE  [Edge!Next]_(Edge!vars)
<1>1. CASE Send \/ SendUncollected
  <2>1. Seal /\ UNCHANGED <<recvSeq, accepted>>
    BY <1>1 DEF Send, SendUncollected, Seal, receiver
  <2>2. recvSeq < sendSeq + 1
    BY DEF TypeOK
  <2>3. Pending' \in {Pending, Pending \cup {sendSeq + 1}}
    <3>1. CASE wire' = wire \cup {Sealed}
      BY <2>1, <2>2, <3>1, SealedLink DEF Pending
    <3>2. CASE wire' = wire \cup {Tampered}
      BY <2>1, <3>2, SealedLink DEF Pending
    <3>3. CASE wire' = wire
      BY <2>1, <3>3 DEF Pending
    <3> QED  BY <1>1, <3>1, <3>2, <3>3 DEF Send, SendUncollected
  <2> QED  BY <2>1, <2>3, SealedLink DEF Pending, Edge!Next, Edge!Send
<1>2. ASSUME NEW env \in wire, Deliver(env)
      PROVE  [Edge!Next]_(Edge!vars)
  <2>1. wire' = wire \ {env} /\ sendSeq' = sendSeq
    BY <1>2 DEF Deliver, sender
  <2>2. \A e \in wire : e.seq \in Nat
    BY DEF TypeOK, Envelope
  <2>3. CASE Accept(env)
    <3>1. env.intact /\ env.seq > recvSeq /\ recvSeq' = env.seq /\ recvSeq \in Nat
      BY <2>3 DEF Accept, TypeOK
    <3>2. env.seq \in Pending
      BY <3>1 DEF Pending
    <3>3. Pending' = {n \in Pending : n > env.seq}
      BY <2>1, <2>2, <3>1 DEF Pending
    <3>4. accepted' = Append(accepted, env.seq)
      BY <2>3 DEF Accept
    <3> QED  BY <2>1, <3>2, <3>3, <3>4 DEF Pending, Edge!Next, Edge!Arrive
  <2>4. CASE Reject(env)
    <3>1. accepted' = accepted /\ recvSeq' = recvSeq
      BY <2>4 DEF Reject, receiver
    <3>2. ~(env.intact /\ env.seq > recvSeq)
      BY <2>2, <2>4 DEF Reject, TypeOK
    <3>3. Pending' = Pending
      BY <2>1, <3>1, <3>2 DEF Pending
    <3> QED  BY <2>1, <3>1, <3>3 DEF Pending, Edge!vars
  <2> QED  BY <1>2, <2>3, <2>4 DEF Deliver
<1>3. CASE UNCHANGED vars
  BY <1>3 DEF vars, sender, receiver, Edge!vars
<1> QED  BY <1>1, <1>2, <1>3 DEF Next

\* The transcript implements the edge that module Raft is written over: what is
\* rewritten is never seen, what is overtaken is lost, the rest arrives in order.
THEOREM TranscriptImplements == Spec => Implements
<1>1. Init => Edge!Init
  BY DEF Init, Edge!Init
<1> QED  BY <1>1, TranscriptTypeOK, TranscriptStep, PTL DEF Spec, Implements, Edge!Spec

\* Nothing arrives twice, after something sent later, or without being sent.
THEOREM TranscriptInOrder == Spec => []InOrder
<1> DEFINE Increasing == \A k, l \in DOMAIN accepted : k < l => accepted[k] < accepted[l]
<1>1. Init => Increasing
  BY DEF Init
<1>2. TypeOK /\ Increasing /\ [Next]_vars => Increasing'
  <2> SUFFICES ASSUME TypeOK, Increasing, [Next]_vars PROVE Increasing'
    OBVIOUS
  <2>1. CASE accepted' = accepted
    BY <2>1
  <2>2. ASSUME NEW env \in wire, Accept(env)
        PROVE  Increasing'
    <3>1. accepted' = Append(accepted, env.seq) /\ env.seq > recvSeq /\ env.seq \in Nat
      BY <2>2 DEF Accept, TypeOK, Envelope
    <3>2. /\ accepted \in Seq(Nat) /\ recvSeq \in Nat
          /\ \A k \in DOMAIN accepted : accepted[k] <= recvSeq
      BY DEF TypeOK
    <3> QED  BY <3>1, <3>2
  <2>3. accepted' = accepted \/ \E env \in wire : Accept(env)
    BY DEF Next, Send, SendUncollected, Seal, Deliver, Reject, vars
  <2> QED  BY <2>1, <2>2, <2>3
<1>3. TypeOK /\ Increasing => InOrder
  BY DEF TypeOK, InOrder, Edge!InOrder
<1> QED  BY <1>1, <1>2, <1>3, TranscriptTypeOK, PTL DEF Spec

-----------------------------------------------------------------------------
\* Where what was accepted skips a number.
Breaks == {k \in 1..(Len(accepted) - 1) : accepted[k + 1] # accepted[k] + 1}

\* Before the first accepted envelope the chain has not started; after it recvSeq is
\* the last number accepted.
LastAccepted ==
  /\ started <=> accepted # <<>>
  /\ started => accepted[Len(accepted)] = recvSeq

\* An accepted envelope extends the breaks by at most one, and gaps with them.
LEMMA AcceptBreaks ==
  ASSUME TypeOK, LastAccepted, gaps = Cardinality(Breaks), NEW env \in wire, Accept(env)
  PROVE  LastAccepted' /\ gaps' = Cardinality(Breaks')
<1> DEFINE n == Len(accepted)
<1>1. /\ accepted \in Seq(Nat) /\ n \in Nat /\ env.seq \in Nat /\ recvSeq \in Nat
      /\ recvHead = recvSeq /\ env.prevHash = env.seq - 1 /\ env.seq > recvSeq
  BY LenProperties DEF TypeOK, Envelope, Accept
<1>2. /\ accepted' = Append(accepted, env.seq) /\ recvSeq' = env.seq /\ started' = TRUE
  BY DEF Accept
<1>3. /\ Len(accepted') = n + 1 /\ accepted'[n + 1] = env.seq
      /\ \A k \in 1..n : accepted'[k] = accepted[k]
  BY <1>1, <1>2
<1>4. LastAccepted'
  <2>1. accepted' # <<>>
    BY <1>1, <1>2
  <2> QED  BY <1>2, <1>3, <2>1 DEF LastAccepted
<1>5. IsFiniteSet(Breaks) /\ Cardinality(Breaks) \in Nat
  <2>1. IsFiniteSet(1..(n - 1))
    BY <1>1, FS_Interval
  <2> QED  BY <2>1, FS_Subset, FS_CardinalityType DEF Breaks
<1>6. CASE ~started
  <2>1. n = 0 /\ gaps' = gaps
    BY <1>6 DEF LastAccepted, Accept
  <2>2. Breaks = {} /\ Breaks' = {}
    BY <1>3, <2>1 DEF Breaks
  <2> QED  BY <1>4, <2>1, <2>2
<1>7. CASE started
  <2>1. n >= 1 /\ accepted[n] = recvSeq
    BY <1>1, <1>7 DEF LastAccepted
  <2>2. n \notin Breaks
    BY <1>1 DEF Breaks
  <2>3. CASE env.seq = recvSeq + 1
    <3>1. gaps' = gaps
      BY <1>1, <2>3 DEF Accept
    <3>2. Breaks' = Breaks
      <4>1. \A k \in 1..n : k = n \/ k \in 1..(n - 1)
        BY <1>1
      <4>2. n \notin Breaks'
        BY <1>1, <1>3, <2>1, <2>3 DEF Breaks
      <4>3. \A k \in 1..(n - 1) : k \in Breaks' <=> k \in Breaks
        BY <1>1, <1>3 DEF Breaks
      <4>4. Breaks \subseteq 1..(n - 1) /\ Breaks' \subseteq 1..n
        BY <1>1, <1>3 DEF Breaks
      <4> QED  BY <4>1, <4>2, <4>3, <4>4
    <3> QED  BY <1>4, <3>1, <3>2
  <2>4. CASE env.seq # recvSeq + 1
    <3>1. gaps' = gaps + 1
      BY <1>7, <2>4 DEF Accept
    <3>2. Breaks' = Breaks \cup {n}
      <4>1. \A k \in 1..n : k = n \/ k \in 1..(n - 1)
        BY <1>1
      <4>2. n \in Breaks'
        BY <1>1, <1>3, <2>1, <2>4 DEF Breaks
      <4>3. \A k \in 1..(n - 1) : k \in Breaks' <=> k \in Breaks
        BY <1>1, <1>3 DEF Breaks
      <4>4. Breaks \subseteq 1..(n - 1) /\ Breaks' \subseteq 1..n
        BY <1>1, <1>3 DEF Breaks
      <4> QED  BY <4>1, <4>2, <4>3, <4>4
    <3> QED  BY <1>4, <1>5, <2>2, <3>1, <3>2, FS_AddElement
  <2> QED  BY <2>3, <2>4
<1> QED  BY <1>6, <1>7

\* The gap count is exact, for any number of envelopes and whatever the edge does to
\* them, except for what was missed before the first one that arrived.
THEOREM TranscriptGaps == Spec => []GapsCountBreaks
<1> DEFINE Inv == LastAccepted /\ gaps = Cardinality(Breaks)
<1>1. Init => Inv
  <2> SUFFICES ASSUME Init PROVE Inv
    OBVIOUS
  <2>1. Breaks = {}
    BY DEF Init, Breaks
  <2>2. ~started /\ accepted = <<>> /\ gaps = 0
    BY Zenon DEF Init
  <2> QED  BY <2>1, <2>2, FS_EmptySet DEF LastAccepted
<1>2. TypeOK /\ Inv /\ [Next]_vars => Inv'
  <2> SUFFICES ASSUME TypeOK, Inv, [Next]_vars PROVE Inv'
    OBVIOUS
  <2>1. CASE UNCHANGED <<receiver, accepted>>
    BY <2>1 DEF receiver, LastAccepted, Breaks
  <2>2. ASSUME NEW env \in wire, Accept(env) PROVE Inv'
    BY <2>2, AcceptBreaks
  <2> QED  BY <2>1, <2>2 DEF Next, Send, SendUncollected, Seal, Deliver, Reject, vars
<1>3. Inv => GapsCountBreaks
  BY DEF GapsCountBreaks, Breaks
<1> HIDE DEF Inv
<1> QED  BY <1>1, <1>2, <1>3, TranscriptTypeOK, PTL DEF Spec
=============================================================================
