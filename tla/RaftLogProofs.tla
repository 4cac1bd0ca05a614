---------------------------- MODULE RaftLogProofs ----------------------------
(***************************************************************************)
(* Logs match as long as no term has two leaders: in every mode, for every     *)
(* cluster and any loss and delay.  In baseline mode no term ever has.         *)
(*                                                                           *)
(* The first part is about stretches of logs: a part of a stretch agrees with *)
(* what the whole agrees with, and so does what a splice or an append makes    *)
(* of stretches that agree.  The second part shows that a node only ever       *)
(* makes new stretches in these three ways.                                   *)
(***************************************************************************)
EXTENDS RaftProofs

IsStretch(s) == s.prevIndex \in Nat /\ s.prevTerm \in Nat /\ s.entries \in Log

\* s is a part of r, or has no entries.
Within(s, r) ==
  \A n \in Covered(s) :
    /\ r.prevIndex <= s.prevIndex
    /\ n \in Covered(r) /\ EntryAt(s, n) = EntryAt(r, n)
    /\ s.prevTerm = TermIn(r, s.prevIndex)

-----------------------------------------------------------------------------
\* Agreement is symmetric.
LEMMA AgreeSymmetric ==
  ASSUME NEW s, NEW t, Agree(s, t)
  PROVE  Agree(t, s)
BY DEF Agree

\* A stretch agrees with itself.
LEMMA AgreeReflexive ==
  ASSUME NEW s
  PROVE  Agree(s, s)
BY DEF Agree

\* A stretch is within itself.
LEMMA WithinReflexive ==
  ASSUME NEW s, IsStretch(s)
  PROVE  Within(s, s)
BY DEF Within, TermIn, IsStretch

\* The indexes of a stretch, one by one.
LEMMA CoveredIndex ==
  ASSUME NEW s, IsStretch(s)
  PROVE  /\ Len(s.entries) \in Nat
         /\ \A n : n \in Covered(s) <=>
              n \in Nat /\ n > s.prevIndex /\ n - s.prevIndex \in 1..Len(s.entries)
         /\ \A n \in Covered(s) : EntryAt(s, n) \in Entry
<1>1. Len(s.entries) \in Nat /\ s.prevIndex \in Nat
  BY LenProperties DEF IsStretch, Log
<1>2. \A n : n \in Covered(s) <=>
        n \in Nat /\ n > s.prevIndex /\ n - s.prevIndex \in 1..Len(s.entries)
  BY <1>1 DEF Covered
<1>3. ASSUME NEW n \in Covered(s) PROVE EntryAt(s, n) \in Entry
  BY <1>1, <1>2, ElementOfSeq DEF EntryAt, IsStretch, Log
<1> QED  BY <1>1, <1>2, <1>3

\* What a stretch covers reaches down to its first index.
LEMMA CoveredBelow ==
  ASSUME NEW s, IsStretch(s), NEW n \in Covered(s), NEW k \in 0..n, k > s.prevIndex
  PROVE  k \in Covered(s)
BY CoveredIndex DEF IsStretch

\* Parts of stretches that agree agree.
LEMMA WithinAgrees ==
  ASSUME NEW s, NEW t, NEW r, NEW q, IsStretch(s), IsStretch(t), IsStretch(r), IsStretch(q),
         Within(s, r), Within(t, q), Agree(r, q)
  PROVE  Agree(s, t)
<1> SUFFICES ASSUME NEW n \in Covered(s) \cap Covered(t),
                    EntryAt(s, n).term = EntryAt(t, n).term, NEW k \in 0..n
             PROVE  /\ k \in Covered(s) \cap Covered(t) => EntryAt(s, k) = EntryAt(t, k)
                    /\ k >= s.prevIndex /\ k >= t.prevIndex => TermIn(s, k) = TermIn(t, k)
  BY DEF Agree
<1>1. /\ n \in Covered(r) \cap Covered(q) /\ EntryAt(r, n).term = EntryAt(q, n).term
      /\ r.prevIndex <= s.prevIndex /\ q.prevIndex <= t.prevIndex
      /\ n \in Nat /\ s.prevIndex \in Nat /\ t.prevIndex \in Nat
      /\ r.prevIndex \in Nat /\ q.prevIndex \in Nat
  BY CoveredIndex DEF Within, IsStretch
<1>2. /\ k \in Covered(r) \cap Covered(q) => EntryAt(r, k) = EntryAt(q, k)
      /\ k >= r.prevIndex /\ k >= q.prevIndex => TermIn(r, k) = TermIn(q, k)
  BY <1>1 DEF Agree
<1>3. k \in Covered(s) => k \in Covered(r) /\ EntryAt(s, k) = EntryAt(r, k)
  BY DEF Within
<1>4. k \in Covered(t) => k \in Covered(q) /\ EntryAt(t, k) = EntryAt(q, k)
  BY DEF Within
<1>5. k >= s.prevIndex => TermIn(s, k) = TermIn(r, k)
  <2>1. CASE k = s.prevIndex
    BY <2>1 DEF Within, TermIn
  <2>2. CASE k > s.prevIndex
    <3>1. k \in Covered(s)
      BY <2>2, CoveredBelow
    <3>2. k # s.prevIndex /\ k # r.prevIndex
      BY <1>1, <2>2
    <3> QED  BY <1>3, <3>1, <3>2 DEF TermIn
  <2> QED  BY <1>1, <2>1, <2>2
<1>6. k >= t.prevIndex => TermIn(t, k) = TermIn(q, k)
  <2>1. CASE k = t.prevIndex
    BY <2>1 DEF Within, TermIn
  <2>2. CASE k > t.prevIndex
    <3>1. k \in Covered(t)
      BY <2>2, CoveredBelow
    <3>2. k # t.prevIndex /\ k # q.prevIndex
      BY <1>1, <2>2
    <3> QED  BY <1>4, <3>1, <3>2 DEF TermIn
  <2> QED  BY <1>1, <2>1, <2>2
<1> QED  BY <1>1, <1>2, <1>3, <1>4, <1>5, <1>6

-----------------------------------------------------------------------------
\* A log as a stretch.
LEMMA WholeLog ==
  ASSUME NEW l \in Log
  PROVE  /\ IsStretch(Whole(l)) /\ Whole(l).prevIndex = 0
         /\ Covered(Whole(l)) = 1..Len(l) /\ Len(l) \in Nat /\ DOMAIN l = 1..Len(l)
         /\ \A n \in 1..Len(l) : EntryAt(Whole(l), n) = l[n] /\ l[n] \in Entry
         /\ \A n \in 0..Len(l) : TermIn(Whole(l), n) = TermAt(l, n)
<1>1. Len(l) \in Nat /\ DOMAIN l = 1..Len(l) /\ \A n \in 1..Len(l) : l[n] \in Entry
  BY LenProperties, ElementOfSeq DEF Log
<1>2. Whole(l).prevIndex = 0 /\ Whole(l).prevTerm = 0 /\ Whole(l).entries = l
  BY DEF Whole
<1>3. IsStretch(Whole(l)) /\ Covered(Whole(l)) = 1..Len(l)
  BY <1>1, <1>2 DEF IsStretch, Covered
<1>4. \A n \in 1..Len(l) : EntryAt(Whole(l), n) = l[n]
  <2>1. \A n \in 1..Len(l) : n - 0 = n
    BY <1>1
  <2> QED  BY <1>2, <2>1 DEF EntryAt
<1>5. ASSUME NEW n \in 0..Len(l) PROVE TermIn(Whole(l), n) = TermAt(l, n)
  <2>1. CASE n = 0
    BY <1>1, <1>2, <2>1 DEF TermIn, TermAt
  <2>2. CASE n \in 1..Len(l)
    BY <1>1, <1>2, <1>4, <2>2 DEF TermIn, TermAt
  <2> QED  BY <1>1, <2>1, <2>2
<1> QED  BY <1>1, <1>2, <1>3, <1>4, <1>5

\* broadcastAppend sends a part of the leader's log, or no entries at all: a next
\* index may lie beyond the end of the log.
LEMMA AppendToWithin ==
  ASSUME NEW l \in Log, NEW next \in Nat, next # 0, NEW s,
         s.prevIndex = next - 1, s.prevTerm = TermAt(l, next - 1), s.entries = Slice(l, next)
  PROVE  IsStretch(s) /\ Within(s, Whole(l))
<1>1. next - 1 \in Nat /\ TermAt(l, next - 1) \in Nat /\ Slice(l, next) \in Log
  BY TermTypes, SliceType
<1>2. IsStretch(s)
  BY <1>1 DEF IsStretch
<1>3. Slice(l, next) = SubSeq(l, next, Len(l)) /\ Len(l) \in Nat
  BY WholeLog DEF Slice
<1>4. ASSUME NEW n \in Covered(s)
      PROVE  /\ Whole(l).prevIndex <= s.prevIndex
             /\ n \in Covered(Whole(l)) /\ EntryAt(s, n) = EntryAt(Whole(l), n)
             /\ s.prevTerm = TermIn(Whole(l), s.prevIndex)
  <2>1. n \in Nat /\ n > next - 1 /\ n - (next - 1) \in 1..Len(Slice(l, next))
    BY <1>2, <1>4, CoveredIndex
  <2>2. next <= Len(l)
    <3>1. \A k \in next..Len(l) : l[k] \in Entry
      BY WholeLog
    <3> QED  BY <1>3, <2>1, <3>1, SubSeqProperties DEF Log
  <2>3. /\ Len(Slice(l, next)) = Len(l) - next + 1
        /\ \A k \in 1..(Len(l) - next + 1) : Slice(l, next)[k] = l[next + k - 1]
    BY <1>3, <2>2, WholeLog, SubSeqProperties DEF Log
  <2>4. n \in 1..Len(l)
    BY <1>3, <2>1, <2>3
  <2>5. EntryAt(s, n) = l[n]
    <3>1. next + (n - (next - 1)) - 1 = n
      BY <2>1
    <3> QED  BY <2>1, <2>3, <3>1 DEF EntryAt
  <2>6. s.prevTerm = TermIn(Whole(l), s.prevIndex)
    BY <1>3, <2>2, WholeLog
  <2> QED  BY <1>1, <2>4, <2>5, <2>6, WholeLog
<1> QED  BY <1>2, <1>4 DEF Within

\* A log that agrees with the request it takes is left as it is, or becomes its own
\* part up to prevIndex with the request's entries after it.
LEMMA SpliceParts ==
  ASSUME NEW l \in Log, NEW m, IsStretch(m), m.prevIndex <= Len(l), Agree(Whole(l), m)
  PROVE  LET r == AppendFromLeader(l, m.prevIndex, m.entries)
         IN  \/ r = l
             \/ /\ Len(r) = m.prevIndex + Len(m.entries)
                /\ \A k \in 1..m.prevIndex : r[k] = l[k]
                /\ \A k \in 1..Len(r) : k > m.prevIndex =>
                     k \in Covered(m) /\ r[k] = EntryAt(m, k)
<1> DEFINE p == m.prevIndex
           es == m.entries
           last == p + Len(es)
           r == AppendFromLeader(l, p, es)
<1>1. p \in Nat /\ Len(es) \in Nat /\ last \in Nat /\ Len(l) \in Nat
  BY CoveredIndex, WholeLog DEF IsStretch
<1>2. CASE AgreesThrough(l, p, es, last)
  BY <1>2 DEF AppendFromLeader
<1>3. CASE ~AgreesThrough(l, p, es, last)
  <2>1. r = [n \in 1..last |-> IF n <= p \/ AgreesThrough(l, p, es, n)
                               THEN l[n] ELSE es[n - p]]
    BY <1>3 DEF AppendFromLeader
  <2>2. Len(r) = last
    BY <1>1, <2>1
  <2>3. \A k \in 1..p : r[k] = l[k]
    BY <1>1, <2>1
  <2>4. ASSUME NEW k \in 1..last, k > p
        PROVE  k \in Covered(m) /\ r[k] = EntryAt(m, k)
    <3>1. k \in Covered(m) /\ EntryAt(m, k) = es[k - p]
      BY <1>1, <2>4 DEF Covered, EntryAt
    <3>2. CASE AgreesThrough(l, p, es, k)
      <4>1. k <= Len(l) /\ l[k].term = es[k - p].term
        BY <1>1, <2>4, <3>2 DEF AgreesThrough
      <4>2. k \in Covered(Whole(l)) /\ EntryAt(Whole(l), k) = l[k]
        BY <1>1, <4>1, WholeLog
      <4>3. l[k] = es[k - p]
        BY <1>1, <3>1, <4>1, <4>2 DEF Agree
      <4> QED  BY <2>1, <3>1, <3>2, <4>3
    <3>3. CASE ~AgreesThrough(l, p, es, k)
      BY <1>1, <2>1, <2>4, <3>1, <3>3
    <3> QED  BY <3>2, <3>3
  <2> QED  BY <2>2, <2>3, <2>4
<1> QED  BY <1>2, <1>3

\* What a splice makes agrees with everything that both of its parts agree with.
LEMMA SpliceAgrees ==
  ASSUME NEW l \in Log, NEW m, IsStretch(m), Matches(l, m.prevIndex, m.prevTerm),
         Agree(Whole(l), m), NEW x, IsStretch(x), Agree(Whole(l), x), Agree(m, x)
  PROVE  Agree(Whole(AppendFromLeader(l, m.prevIndex, m.entries)), x)
<1> DEFINE p == m.prevIndex
           r == AppendFromLeader(l, p, m.entries)
<1>1. p \in Nat /\ x.prevIndex \in Nat /\ Len(l) \in Nat /\ p <= Len(l) /\ TermAt(l, p) = m.prevTerm
  BY WholeLog DEF IsStretch, Matches
<1>2. r \in Log
  BY <1>1, AppendFromLeaderType DEF IsStretch
<1>3. \/ r = l
      \/ /\ Len(r) = p + Len(m.entries)
         /\ \A k \in 1..p : r[k] = l[k]
         /\ \A k \in 1..Len(r) : k > p => k \in Covered(m) /\ r[k] = EntryAt(m, k)
  BY <1>1, SpliceParts
<1>4. Len(m.entries) \in Nat
  BY CoveredIndex
<1> HIDE DEF r
<1>5. CASE r = l
  BY <1>5 DEF r
<1>6. ASSUME Len(r) = p + Len(m.entries),
             \A k \in 1..p : r[k] = l[k],
             \A k \in 1..Len(r) : k > p => k \in Covered(m) /\ r[k] = EntryAt(m, k)
      PROVE  Agree(Whole(r), x)
  <2> SUFFICES ASSUME NEW n \in 1..Len(r), n \in Covered(x),
                      r[n].term = EntryAt(x, n).term, NEW k \in 0..n
               PROVE  /\ k # 0 /\ k \in Covered(x) => r[k] = EntryAt(x, k)
                      /\ k >= x.prevIndex => TermAt(r, k) = TermIn(x, k)
    <3>1. \A k, n : n \in 1..Len(r) /\ k \in 0..n =>
            /\ k \in 0..Len(r) /\ k >= 0
            /\ k \in 1..Len(r) <=> k # 0
      BY <1>1, <1>4, <1>6
    <3> QED  BY <1>2, <3>1, WholeLog DEF Agree
  <2>1. n \in Nat /\ k \in Nat /\ Len(r) \in Nat /\ Len(r) >= p
    BY <1>1, <1>4, <1>6
  <2>2. ASSUME NEW o \in 1..p, o \in Covered(x), l[o].term = EntryAt(x, o).term, NEW j \in 0..o
        PROVE  /\ j # 0 /\ j \in Covered(x) => r[j] = EntryAt(x, j)
               /\ j >= x.prevIndex => TermAt(r, j) = TermIn(x, j)
    <3>1. o \in 1..Len(l) /\ j \in 0..Len(l) /\ j \in 0..Len(r) /\ (j # 0 => j \in 1..p /\ j \in 1..Len(l))
      BY <1>1, <2>1
    <3>2. /\ j # 0 /\ j \in Covered(x) => l[j] = EntryAt(x, j)
          /\ j >= x.prevIndex => TermAt(l, j) = TermIn(x, j)
      BY <2>2, <3>1, WholeLog DEF Agree
    <3>3. j # 0 => r[j] = l[j]
      BY <1>6, <3>1
    <3>4. TermAt(r, j) = TermAt(l, j)
      <4>1. DOMAIN l = 1..Len(l) /\ DOMAIN r = 1..Len(r)
        BY <1>2, WholeLog
      <4>2. j # 0 => j \in 1..Len(l) /\ j \in 1..Len(r)
        BY <2>1, <3>1
      <4>3. j = 0 => j \notin 1..Len(l) /\ j \notin 1..Len(r)
        OBVIOUS
      <4> QED  BY <3>3, <4>1, <4>2, <4>3 DEF TermAt
    <3> QED  BY <3>2, <3>3, <3>4
  <2>3. CASE n <= p
    <3>1. n \in 1..p /\ r[n] = l[n]
      BY <1>6, <2>1, <2>3
    <3> QED  BY <2>2, <3>1
  <2>4. CASE n > p
    <3>1. n \in Covered(m) /\ EntryAt(m, n).term = EntryAt(x, n).term
      BY <1>6, <2>4
    <3>2. /\ k \in Covered(m) /\ k \in Covered(x) => EntryAt(m, k) = EntryAt(x, k)
          /\ k >= p /\ k >= x.prevIndex => TermIn(m, k) = TermIn(x, k)
      BY <3>1 DEF Agree
    <3>3. CASE k > p
      <4>1. k \in 1..Len(r) /\ k # p
        BY <1>1, <2>1, <3>3
      <4>2. k \in Covered(m) /\ r[k] = EntryAt(m, k)
        BY <1>6, <3>3, <4>1
      <4>3. TermAt(r, k) = TermIn(m, k)
        BY <1>2, <4>1, <4>2, WholeLog DEF TermAt, TermIn
      <4> QED  BY <1>1, <2>1, <3>2, <3>3, <4>2, <4>3
    <3>4. CASE k <= p /\ p > x.prevIndex
      <4>1. p \in 0..n
        BY <1>1, <2>1, <2>4
      <4>2. p \in Covered(x) /\ p \in 1..p
        BY <1>1, <3>4, <4>1, CoveredBelow
      <4>3. TermIn(m, p) = TermIn(x, p)
        BY <1>1, <3>1, <3>4, <4>1 DEF Agree
      <4>4. l[p].term = EntryAt(x, p).term
        <5>1. TermIn(m, p) = m.prevTerm /\ TermIn(x, p) = EntryAt(x, p).term
          BY <1>1, <3>4 DEF TermIn
        <5>2. TermAt(l, p) = l[p].term
          BY <1>1, <4>2, WholeLog DEF TermAt
        <5> QED  BY <1>1, <4>3, <5>1, <5>2
      <4>5. k \in 0..p
        BY <1>1, <2>1, <3>4
      <4> QED  BY <2>2, <4>2, <4>4, <4>5
    <3>5. CASE k <= p /\ p <= x.prevIndex
      <4>1. k \notin Covered(x)
        BY <1>1, <2>1, <3>5, CoveredIndex
      <4>2. ASSUME k >= x.prevIndex PROVE TermAt(r, k) = TermIn(x, k)
        <5>1. k = p
          BY <1>1, <2>1, <3>5, <4>2
        <5>2. TermIn(x, k) = m.prevTerm
          BY <1>1, <3>2, <4>2, <5>1 DEF TermIn
        <5>3. TermAt(r, p) = TermAt(l, p)
          <6>1. CASE p = 0
            BY <1>2, <6>1, WholeLog DEF TermAt
          <6>2. CASE p # 0
            <7>1. p \in 1..p /\ p \in 1..Len(l) /\ p \in 1..Len(r)
              BY <1>1, <2>1, <6>2
            <7>2. r[p] = l[p]
              BY <1>6, <7>1
            <7> QED  BY <1>2, <7>1, <7>2, WholeLog DEF TermAt
          <6> QED  BY <6>1, <6>2
        <5> QED  BY <1>1, <5>1, <5>2, <5>3
      <4> QED  BY <4>1, <4>2
    <3> QED  BY <1>1, <2>1, <3>3, <3>4, <3>5
  <2> QED  BY <1>1, <2>1, <2>3, <2>4
<1> QED  BY <1>3, <1>5, <1>6 DEF r

\* What a proposal makes agrees with every stretch that lacks its term at its index.
LEMMA ExtendAgrees ==
  ASSUME NEW l \in Log, NEW e \in Entry, NEW x, IsStretch(x), Agree(Whole(l), x),
         Len(l) + 1 \in Covered(x) => EntryAt(x, Len(l) + 1).term # e.term
  PROVE  Agree(Whole(Append(l, e)), x)
<1> DEFINE r == Append(l, e)
<1>1. /\ r \in Log /\ Len(r) = Len(l) + 1 /\ r[Len(l) + 1] = e
      /\ Len(l) \in Nat /\ \A k \in 1..Len(l) : r[k] = l[k]
  BY WholeLog DEF Log
<1> HIDE DEF r
<1> SUFFICES ASSUME NEW n \in 1..Len(r), n \in Covered(x),
                    r[n].term = EntryAt(x, n).term, NEW k \in 0..n
             PROVE  /\ k # 0 /\ k \in Covered(x) => r[k] = EntryAt(x, k)
                    /\ k >= x.prevIndex => TermAt(r, k) = TermIn(x, k)
  <2>1. \A k, n : n \in 1..Len(r) /\ k \in 0..n =>
          k \in 0..Len(r) /\ k >= 0 /\ (k \in 1..Len(r) <=> k # 0)
    BY <1>1
  <2> QED  BY <1>1, <2>1, WholeLog DEF Agree, r
<1>2. n \in 1..Len(l) /\ k \in 0..Len(l) /\ (k # 0 => k \in 1..Len(l) /\ k \in 1..Len(r))
  BY <1>1
<1>3. /\ k # 0 /\ k \in Covered(x) => l[k] = EntryAt(x, k)
      /\ k >= x.prevIndex => TermAt(l, k) = TermIn(x, k)
  BY <1>1, <1>2, WholeLog DEF Agree
<1>4. TermAt(r, k) = TermAt(l, k)
  BY <1>1, <1>2, WholeLog DEF TermAt
<1> QED  BY <1>1, <1>2, <1>3, <1>4

-----------------------------------------------------------------------------
\* The stretches of a state are stretches.
LEMMA StretchTypes == TypeOK => \A s \in Stretches : IsStretch(s)
<1> SUFFICES ASSUME TypeOK, NEW s \in Stretches PROVE IsStretch(s)
  OBVIOUS
<1>1. CASE \E i \in Node : s = Whole(log[i])
  BY <1>1, WholeLog DEF TypeOK
<1>2. CASE \E c \in Channel : \E n \in DOMAIN net[c] : s = net[c][n] /\ s.kind = "AppendReq"
  <2>0. PICK c \in Channel : \E n \in DOMAIN net[c] : s = net[c][n] /\ s.kind = "AppendReq"
    BY <1>2
  <2>1. PICK n \in DOMAIN net[c] : s = net[c][n] /\ s.kind = "AppendReq"
    BY <2>0
  <2>2. net[c] \in Seq(Message)
    BY DEF TypeOK
  <2>3. s \in Message
    BY <2>1, <2>2, ElementOfSeq, LenProperties
  <2> QED  BY <2>1, <2>3 DEF Message, AppendReq, AppendResp, VoteReq, VoteResp, IsStretch
<1> QED  BY <1>1, <1>2 DEF Stretches

\* So are those of the next state.
LEMMA NextStretchTypes == TypeOK' => \A s \in Stretches' : IsStretch(s)
<1>1. TypeOK' => (\A s \in Stretches : IsStretch(s))'
  BY StretchTypes, PTL
<1> QED  BY <1>1 DEF IsStretch

\* Some stretch has entry e at index n.
Held(n, e) == \E s \in Stretches : n \in Covered(s) /\ EntryAt(s, n) = e

\* i appends an entry of the term it leads.
Proposed(i, l, n) ==
  /\ UNCHANGED nodeVars /\ role[i] = "leader"
  /\ n = Len(l) /\ l[n].term = currentTerm[i]

\* A step of i that leaves it with log l and sends parts of its old log: l agrees
\* with what there is, its entries were there before or are proposed now, and who leads
\* a term before or after the step keeps what it has.
LogStep(i, l, out) ==
  /\ log' = [log EXCEPT ![i] = l]
  /\ OnlySends(i, out)
  /\ \A j \in DOMAIN out : out[j].kind = "AppendReq" => Within(out[j], Whole(log[i]))
  /\ \A s \in Stretches : Agree(Whole(l), s)
  /\ \A n \in 1..Len(l) : Held(n, l[n]) \/ Proposed(i, l, n)
  /\ Leads(i, currentTerm'[i]) =>
       Len(log[i]) <= Len(l) /\ \A n \in 1..Len(log[i]) : l[n] = log[i][n]

\* After such a step every stretch is a part of an old one or of the new log.
LEMMA StretchesComeFrom ==
  ASSUME TypeOK, TypeOK', NEW i \in Node, NEW l \in Log, NEW out, LogStep(i, l, out),
         NEW s \in Stretches'
  PROVE  \E r \in Stretches \cup {Whole(l)} : Within(s, r)
<1>1. IsStretch(s)
  BY NextStretchTypes
<1>2. CASE \E k \in Node : s = Whole(log'[k])
  <2>1. PICK k \in Node : s = Whole(log'[k])
    BY <1>2
  <2>2. log'[k] = IF k = i THEN l ELSE log[k]
    BY DEF LogStep, TypeOK
  <2>3. s \in Stretches \cup {Whole(l)}
    BY <2>1, <2>2 DEF Stretches
  <2> QED  BY <1>1, <2>3, WithinReflexive
<1>3. CASE \E c \in Channel : \E n \in DOMAIN net'[c] : s = net'[c][n] /\ s.kind = "AppendReq"
  <2>0. PICK c \in Channel : \E n \in DOMAIN net'[c] : s = net'[c][n] /\ s.kind = "AppendReq"
    BY <1>3
  <2>1. PICK n \in DOMAIN net'[c] : s = net'[c][n] /\ s.kind = "AppendReq"
    BY <2>0
  <2>2. CASE \E o \in DOMAIN net[c] : s = net[c][o]
    <3>1. s \in Stretches
      BY <2>1, <2>2 DEF Stretches
    <3> QED  BY <1>1, <3>1, WithinReflexive
  <2>3. CASE c[2] \in DOMAIN out /\ s = out[c[2]]
    <3>1. Within(s, Whole(log[i]))
      BY <2>1, <2>3 DEF LogStep
    <3>2. Whole(log[i]) \in Stretches
      BY DEF Stretches
    <3> QED  BY <3>1, <3>2
  <2> QED  BY <2>1, <2>2, <2>3 DEF LogStep, OnlySends
<1> QED  BY <1>2, <1>3 DEF Stretches

\* So all stretches still agree.
LEMMA StretchesAgreeStep ==
  ASSUME TypeOK, TypeOK', StretchesAgree, NEW i \in Node, NEW l \in Log, NEW out,
         LogStep(i, l, out)
  PROVE  StretchesAgree'
<1> SUFFICES ASSUME NEW s \in Stretches', NEW t \in Stretches' PROVE Agree(s, t)
  <2>1. StretchesAgree' <=> \A s, t \in Stretches' : Agree(s, t)
    BY DEF StretchesAgree, Agree, Covered, EntryAt, TermIn
  <2> QED  BY <2>1
<1>1. IsStretch(s) /\ IsStretch(t)
  BY NextStretchTypes
<1>2. PICK r \in Stretches \cup {Whole(l)} : Within(s, r)
  BY StretchesComeFrom
<1>3. PICK q \in Stretches \cup {Whole(l)} : Within(t, q)
  BY StretchesComeFrom
<1>4. IsStretch(r) /\ IsStretch(q)
  BY StretchTypes, WholeLog
<1>5. Agree(r, q)
  BY AgreeSymmetric, AgreeReflexive DEF StretchesAgree, LogStep
<1> QED  BY <1>1, <1>2, <1>3, <1>4, <1>5, WithinAgrees

\* And what their entries are was there before, or is proposed now.
LEMMA EntriesComeFrom ==
  ASSUME TypeOK, TypeOK', NEW i \in Node, NEW l \in Log, NEW out, LogStep(i, l, out),
         NEW s \in Stretches', NEW n \in Covered(s)
  PROVE  Held(n, EntryAt(s, n)) \/ (EntryAt(s, n) = l[n] /\ Proposed(i, l, n))
<1>1. PICK r \in Stretches \cup {Whole(l)} : Within(s, r)
  BY StretchesComeFrom
<1>2. n \in Covered(r) /\ EntryAt(s, n) = EntryAt(r, n)
  BY <1>1 DEF Within
<1>3. CASE r \in Stretches
  BY <1>2, <1>3 DEF Held
<1>4. CASE r = Whole(l)
  <2>1. n \in 1..Len(l) /\ EntryAt(r, n) = l[n]
    BY <1>2, <1>4, WholeLog
  <2> QED  BY <1>2, <2>1 DEF LogStep
<1> QED  BY <1>1, <1>3, <1>4

\* A node that wins is the first to lead its term: nobody else did, and it has not yet.
LEMMA WinnerIsFirst ==
  ASSUME TypeOK, ElectionInv, ElectionSafety', NEW i \in Node, Wins(i), NEW e \in elected
  PROVE  e.term # currentTerm[i]
<1> SUFFICES ASSUME e.term = currentTerm[i] PROVE FALSE
  OBVIOUS
<1>1. \E w \in elected' : w.leader = i /\ w.term = currentTerm[i]
  <2>1. PICK V \in SUBSET Node :
          elected' = elected \cup {[term |-> currentTerm[i], leader |-> i, voters |-> V]}
    BY DEF Wins
  <2> DEFINE w == [term |-> currentTerm[i], leader |-> i, voters |-> V]
  <2>2. w \in elected' /\ w.leader = i /\ w.term = currentTerm[i]
    BY <2>1
  <2> QED  BY <2>2
<1>2. e \in elected'
  BY DEF Wins
<1>3. e.leader = i
  BY <1>1, <1>2 DEF ElectionSafety
<1>4. role[i] # "candidate"
  BY <1>3 DEF ElectionInv, WonOnce
<1> QED  BY <1>4 DEF Wins

\* Such a step keeps the invariant.
LEMMA LogStepPreserves ==
  ASSUME TypeOK, TypeOK', ElectionInv, ElectionInv', ElectionSafety', LogInv,
         NEW i \in Node, ElectionStep(i), NEW l \in Log, NEW out, LogStep(i, l, out)
  PROVE  LogInv'
<1>1. StretchesAgree'
  BY StretchesAgreeStep DEF LogInv
<1>2. ASSUME NEW n, NEW e, Held(n, e)
      PROVE  /\ \E x \in elected : x.term = e.term
             /\ \A k \in Node : role[k] = "leader" /\ currentTerm[k] = e.term => n <= Len(log[k])
  BY <1>2 DEF Held, LogInv, EntriesElected, LeaderHoldsTerm
<1>3. elected \subseteq elected'
  BY DEF ElectionStep, Wins
<1>4. ASSUME NEW s \in Stretches', NEW n \in Covered(s)
      PROVE  \E e \in elected' : e.term = EntryAt(s, n).term
  <2>1. CASE Held(n, EntryAt(s, n))
    BY <1>2, <1>3, <2>1
  <2>2. CASE EntryAt(s, n) = l[n] /\ Proposed(i, l, n)
    BY <1>3, <2>2 DEF Proposed, ElectionInv, LeaderWasElected
  <2> QED  BY <1>4, <2>1, <2>2, EntriesComeFrom
<1>5. ASSUME NEW k \in Node, role'[k] = "leader", NEW s \in Stretches', NEW n \in Covered(s),
             EntryAt(s, n).term = currentTerm'[k]
      PROVE  n <= Len(log'[k])
  <2>1. /\ log'[k] = IF k = i THEN l ELSE log[k]
        /\ Len(l) \in Nat /\ Len(log[k]) \in Nat /\ Len(log[k]) <= Len(log'[k])
    BY <1>5, WholeLog DEF LogStep, Leads, TypeOK
  <2>2. CASE Held(n, EntryAt(s, n))
    <3>1. CASE role[k] = "leader" /\ currentTerm'[k] = currentTerm[k]
      <4>1. n <= Len(log[k])
        BY <1>2, <1>5, <2>2, <3>1
      <4>2. n \in Nat
        BY NextStretchTypes, CoveredIndex
      <4> QED  BY <2>1, <4>1, <4>2
    <3>2. CASE k = i /\ Wins(i)
      <4>1. currentTerm'[i] = currentTerm[i]
        BY <3>2 DEF Wins
      <4> QED  BY <1>2, <1>5, <2>2, <3>2, <4>1, WinnerIsFirst
    <3> QED  BY <1>5, <3>1, <3>2 DEF ElectionStep, Peers
  <2>3. CASE EntryAt(s, n) = l[n] /\ Proposed(i, l, n)
    <3>1. role'[i] = "leader" /\ currentTerm'[i] = currentTerm'[k]
      BY <1>5, <2>3 DEF Proposed, nodeVars
    <3>2. k = i
      BY <1>5, <3>1 DEF ElectionInv, LeaderWasElected, ElectionSafety
    <3> QED  BY <2>1, <2>3, <3>2 DEF Proposed
  <2> QED  BY <2>2, <2>3, EntriesComeFrom
<1>6. EntriesElected' /\ LeaderHoldsTerm'
  BY <1>4, <1>5 DEF EntriesElected, LeaderHoldsTerm, Covered, EntryAt
<1> QED  BY <1>1, <1>6 DEF LogInv

-----------------------------------------------------------------------------
\* Every action is such a step of its node.
MakesLogStep(i) == \E l \in Log : \E out : LogStep(i, l, out)

\* A node that leaves its log alone and sends only parts of it makes one.
LEMMA SameLogStep ==
  ASSUME TypeOK, LogInv, NEW i \in Node, log' = log, NEW out, OnlySends(i, out),
         \A j \in DOMAIN out : out[j].kind = "AppendReq" => Within(out[j], Whole(log[i]))
  PROVE  MakesLogStep(i)
<1>1. /\ log[i] \in Log /\ log' = [log EXCEPT ![i] = log[i]] /\ Len(log[i]) <= Len(log[i])
      /\ Whole(log[i]) \in Stretches
  BY WholeLog DEF TypeOK, Stretches
<1>2. \A s \in Stretches : Agree(Whole(log[i]), s)
  BY <1>1 DEF LogInv, StretchesAgree
<1>3. \A n \in 1..Len(log[i]) : Held(n, log[i][n])
  BY <1>1, WholeLog DEF Held
<1>4. LogStep(i, log[i], out)
  BY <1>1, <1>2, <1>3 DEF LogStep
<1> QED  BY <1>1, <1>4 DEF MakesLogStep

\* Heartbeats and the first broadcast of a leader carry parts of its log.
LEMMA AppendToIsPart ==
  ASSUME TypeOK, NEW i \in Node, NEW j, NEW t, NEW next \in Nat, next # 0
  PROVE  Within(AppendTo(i, j, t, next), Whole(log[i]))
<1>1. /\ AppendTo(i, j, t, next).prevIndex = next - 1
      /\ AppendTo(i, j, t, next).prevTerm = TermAt(log[i], next - 1)
      /\ AppendTo(i, j, t, next).entries = Slice(log[i], next)
      /\ log[i] \in Log
  BY DEF AppendTo, TypeOK
<1> QED  BY <1>1, AppendToWithin

\* The ticks.
LEMMA TickLogs ==
  ASSUME TypeOK, NextIndexSet, LogInv, NEW i \in Node,
         BeginElection(i) \/ BeginPreVote(i) \/ LeaderTick(i)
  PROVE  MakesLogStep(i)
<1>1. ASSUME BeginElection(i) \/ BeginPreVote(i) PROVE MakesLogStep(i)
  <2>0. PICK pre \in BOOLEAN :
          Transmit(net, i, [j \in Peers(i) |-> VoteRequest(i, currentTerm[i] + 1, pre)])
    BY <1>1 DEF BeginElection, BeginPreVote
  <2> DEFINE out == [j \in Peers(i) |-> VoteRequest(i, currentTerm[i] + 1, pre)]
  <2>1. OnlySends(i, out) /\ log' = log
    BY <1>1, <2>0, TransmitSends DEF BeginElection, BeginPreVote, logVars
  <2>2. \A j \in DOMAIN out : out[j].kind # "AppendReq"
    BY DEF VoteRequest
  <2> HIDE DEF out
  <2> QED  BY <2>1, <2>2, SameLogStep
<1>2. CASE LeaderTick(i)
  <2>1. PICK heartbeat \in BOOLEAN :
          Transmit(net, i, IF heartbeat
                           THEN [j \in Peers(i) |->
                                   AppendTo(i, j, currentTerm[i], nextIndex[i][j])]
                           ELSE Silent)
    BY <1>2 DEF LeaderTick
  <2> DEFINE out == IF heartbeat
                    THEN [j \in Peers(i) |-> AppendTo(i, j, currentTerm[i], nextIndex[i][j])]
                    ELSE Silent
  <2>2. OnlySends(i, out) /\ log' = log
    BY <1>2, <2>1, TransmitSends DEF LeaderTick, logVars
  <2>3. ASSUME NEW j \in DOMAIN out PROVE Within(out[j], Whole(log[i]))
    <3>1. heartbeat /\ j \in Peers(i) /\ out[j] = AppendTo(i, j, currentTerm[i], nextIndex[i][j])
      BY <2>3 DEF Silent
    <3>2. nextIndex[i][j] \in Nat /\ nextIndex[i][j] # 0
      BY <1>2, <3>1 DEF NextIndexSet, LeaderTick, TypeOK, Peers
    <3> QED  BY <3>1, <3>2, AppendToIsPart
  <2> HIDE DEF out
  <2> QED  BY <2>2, <2>3, SameLogStep
<1> QED  BY <1>1, <1>2

\* A node that answers one message and leaves its log alone.
LEMMA ReplyLogs ==
  ASSUME TypeOK, LogInv, NEW i \in Node, NEW j \in Peers(i), net[<<j, i>>] # <<>>,
         NEW resp, resp.kind # "AppendReq", Reply(i, j, resp), log' = log
  PROVE  MakesLogStep(i)
<1> DEFINE out == [k \in {j} |-> resp]
<1>1. OnlySends(i, out)
  BY HandlerSends DEF Reply
<1>2. \A k \in DOMAIN out : out[k].kind # "AppendReq"
  OBVIOUS
<1> HIDE DEF out
<1> QED  BY <1>1, <1>2, SameLogStep

\* A node that answers nothing and leaves its log alone.
LEMMA SilentLogs ==
  ASSUME TypeOK, LogInv, NEW i \in Node, OnlySends(i, Silent), log' = log
  PROVE  MakesLogStep(i)
<1>1. \A k \in DOMAIN Silent : Silent[k].kind # "AppendReq"
  BY DEF Silent
<1> QED  BY <1>1, SameLogStep

\* An AppendEntries handled: the splice.  It is of another node's leadership, so its
\* receiver leads no longer, and did not in that term.
LEMMA HandleAppendReqLogs ==
  ASSUME TypeOK, ElectionInv, ElectionSafety, LogInv, NEW i \in Node, NEW j \in Peers(i), HandleAppendReq(i, j)
  PROVE  MakesLogStep(i)
<1> DEFINE m == Head(net[<<j, i>>])
<1>1. net[<<j, i>>] # <<>> /\ m.kind = "AppendReq" /\ <<j, i>> \in Channel
  BY DEF HandleAppendReq, Arrives, Peers, Channel
<1>2. m \in Stretches
  <2>1. net[<<j, i>>] \in Seq(Message)
    BY <1>1 DEF TypeOK
  <2>2. 1 \in DOMAIN net[<<j, i>>] /\ m = net[<<j, i>>][1]
    BY <1>1, <2>1, EmptySeq, LenProperties
  <2> QED  BY <1>1, <2>2 DEF Stretches
<1>3. RejectStaleAppend(i, j, m) \/ FollowLeader(i, j, m)
  BY DEF HandleAppendReq
<1>7. m.term \in Nat /\ currentTerm[i] \in Nat
  <2>1. m \in Message
    BY <1>1, TakenType
  <2> QED  BY <2>1, <1>1 DEF Message, AppendReq, AppendResp, VoteReq, VoteResp, TypeOK
<1>8. \E e \in elected : e.leader = j /\ e.term = m.term
  <2>1. net[<<j, i>>] \in Seq(Message) /\ j \in Node /\ i \in Peers(j)
    BY <1>1 DEF TypeOK, Peers
  <2>2. 1 \in DOMAIN net[<<j, i>>] /\ m = net[<<j, i>>][1]
    BY <1>1, <2>1, EmptySeq, LenProperties
  <2> QED  BY <1>1, <2>1, <2>2 DEF ElectionInv, AppendsComeFromElected
<1> HIDE DEF m
<1>4. CASE RejectStaleAppend(i, j, m)
  <2>1. Reply(i, j, Refusal(currentTerm[i], 0)) /\ log' = log
    BY <1>4 DEF RejectStaleAppend, logVars
  <2>2. Refusal(currentTerm[i], 0).kind # "AppendReq"
    BY DEF Refusal
  <2> QED  BY <1>1, <2>1, <2>2, ReplyLogs
<1>5. CASE FollowLeader(i, j, m) /\ ~Matches(log[i], m.prevIndex, m.prevTerm)
  <2> DEFINE resp == Refusal(m.term, Min2(Len(log[i]) + 1, m.prevIndex))
  <2>1. Reply(i, j, resp) /\ log' = log
    BY <1>5 DEF FollowLeader, logVars
  <2>2. resp.kind # "AppendReq"
    BY DEF Refusal
  <2> HIDE DEF resp
  <2> QED  BY <1>1, <2>1, <2>2, ReplyLogs
<1>6. CASE FollowLeader(i, j, m) /\ Matches(log[i], m.prevIndex, m.prevTerm)
  <2> DEFINE l == AppendFromLeader(log[i], m.prevIndex, m.entries)
             out == [k \in {j} |-> Success(m.term, Len(l))]
  <2>1. log' = [log EXCEPT ![i] = l] /\ Reply(i, j, Success(m.term, Len(l)))
    BY <1>6 DEF FollowLeader
  <2>2. ~Leads(i, currentTerm'[i])
    <3>1. role'[i] # "leader" /\ currentTerm'[i] = m.term
      BY <1>6, <1>7 DEF FollowLeader, BecomeFollower, TypeOK
    <3>2. role[i] = "leader" => currentTerm[i] # m.term
      BY <1>8 DEF ElectionInv, LeaderWasElected, ElectionSafety, Peers
    <3> QED  BY <3>1, <3>2 DEF Leads
  <2>3. /\ IsStretch(m) /\ log[i] \in Log /\ Whole(log[i]) \in Stretches
        /\ m.prevIndex <= Len(log[i]) /\ m.prevIndex \in Nat
        /\ Agree(Whole(log[i]), m)
    <3>1. IsStretch(m) /\ log[i] \in Log /\ Whole(log[i]) \in Stretches
      BY <1>2, StretchTypes DEF Stretches, TypeOK
    <3>2. m.prevIndex \in {0} \cup DOMAIN log[i] /\ m.prevIndex \in Nat
      BY <1>6, <3>1 DEF Matches, IsStretch
    <3> QED  BY <1>2, <3>1, <3>2, WholeLog DEF LogInv, StretchesAgree
  <2>4. l \in Log
    BY <2>3, AppendFromLeaderType DEF IsStretch
  <2>5. OnlySends(i, out)
    BY <1>1, <2>1, HandlerSends DEF Reply
  <2>6. \A k \in DOMAIN out : out[k].kind # "AppendReq"
    BY DEF Success
  <2>7. ASSUME NEW s \in Stretches PROVE Agree(Whole(l), s)
    BY <1>2, <1>6, <2>3, StretchTypes, SpliceAgrees DEF LogInv, StretchesAgree
  <2>8. ASSUME NEW n \in 1..Len(l) PROVE Held(n, l[n])
    <3>1. CASE l = log[i]
      BY <2>3, <3>1, WholeLog DEF Held
    <3>2. CASE /\ \A k \in 1..m.prevIndex : l[k] = log[i][k]
               /\ \A k \in 1..Len(l) : k > m.prevIndex => k \in Covered(m) /\ l[k] = EntryAt(m, k)
      <4>1. CASE n > m.prevIndex
        BY <1>2, <3>2, <4>1 DEF Held
      <4>2. CASE n <= m.prevIndex
        <5>1. n \in 1..m.prevIndex /\ n \in 1..Len(log[i])
          BY <2>3, <2>4, <4>2, WholeLog
        <5> QED  BY <2>3, <3>2, <5>1, WholeLog DEF Held
      <4> QED  BY <2>3, <2>4, <4>1, <4>2, WholeLog
    <3> QED  BY <2>3, <3>1, <3>2, SpliceParts
  <2> HIDE DEF l, out
  <2>9. LogStep(i, l, out)
    BY <2>1, <2>2, <2>5, <2>6, <2>7, <2>8 DEF LogStep
  <2> QED  BY <2>4, <2>9 DEF MakesLogStep
<1> QED  BY <1>3, <1>4, <1>5, <1>6

\* The other three handlers leave the log alone.
LEMMA HandlerLogs ==
  ASSUME TypeOK, LogInv, NEW i \in Node, NEW j \in Peers(i),
         HandleAppendResp(i, j) \/ HandleVoteReq(i, j) \/ HandleVoteResp(i, j)
  PROVE  MakesLogStep(i)
<1> DEFINE m == Head(net[<<j, i>>])
<1>1. net[<<j, i>>] # <<>> /\ log' = log
  BY DEF HandleAppendResp, HandleVoteReq, HandleVoteResp, Arrives, logVars
<1>2. CASE net' = Taken(i, j)
  BY <1>1, <1>2, SilentHandlerSends, SilentLogs
<1>3. CASE HandleAppendResp(i, j)
  BY <1>2, <1>3 DEF HandleAppendResp
<1>4. CASE HandleVoteReq(i, j)
  <2>1. \E t, yes, pre : Reply(i, j, VoteReply(t, yes, pre))
    BY <1>4 DEF HandleVoteReq, AnswerPoll, AnswerCampaign
  <2>2. \A t, yes, pre : VoteReply(t, yes, pre).kind # "AppendReq"
    BY DEF VoteReply
  <2> QED  BY <1>1, <2>1, <2>2, ReplyLogs
<1>5. CASE HandleVoteResp(i, j)
  <2>1. CountPollAnswer(i, j, m) \/ CountVote(i, j, m) \/ net' = Taken(i, j)
    BY <1>5 DEF HandleVoteResp
  <2> HIDE DEF m
  <2>2. CASE CountPollAnswer(i, j, m)
    <3> DEFINE out == [k \in Peers(i) |-> VoteRequest(i, currentTerm[i] + 1, FALSE)]
    <3>1. Transmit(Taken(i, j), i, out) \/ net' = Taken(i, j)
      BY <2>2 DEF CountPollAnswer
    <3>2. \A k \in DOMAIN out : out[k].kind # "AppendReq"
      BY DEF VoteRequest
    <3> HIDE DEF out
    <3> QED  BY <1>1, <1>2, <3>1, <3>2, HandlerSends, SameLogStep
  <2>3. CASE CountVote(i, j, m)
    <3> DEFINE out == [k \in Peers(i) |-> AppendTo(i, k, currentTerm[i], Len(log[i]) + 1)]
    <3>1. Transmit(Taken(i, j), i, out) \/ net' = Taken(i, j)
      BY <2>3 DEF CountVote, BecomeLeader
    <3>2. Len(log[i]) + 1 \in Nat /\ Len(log[i]) + 1 # 0
      BY WholeLog DEF TypeOK
    <3>3. \A k \in DOMAIN out : Within(out[k], Whole(log[i]))
      BY <3>2, AppendToIsPart
    <3> HIDE DEF out
    <3> QED  BY <1>1, <1>2, <3>1, <3>3, HandlerSends, SameLogStep
  <2> QED  BY <1>2, <2>1, <2>2, <2>3
<1> QED  BY <1>3, <1>4, <1>5

\* A proposal extends the log by an entry of a term that nobody else has there.
LEMMA ProposeLogs ==
  ASSUME TypeOK, LogInv, NEW i \in Node, NEW cmd \in Cmd, Propose(i, cmd)
  PROVE  MakesLogStep(i)
<1> DEFINE e == [term |-> currentTerm[i], cmd |-> cmd]
           l == Append(log[i], e)
<1>1. /\ role[i] = "leader" /\ UNCHANGED nodeVars
      /\ log' = [log EXCEPT ![i] = l] /\ net' = net
  BY DEF Propose
<1>2. /\ e \in Entry /\ e.term = currentTerm[i] /\ log[i] \in Log /\ Len(log[i]) \in Nat
      /\ Whole(log[i]) \in Stretches
  BY WholeLog DEF TypeOK, Entry, Stretches
<1> HIDE DEF e
<1>3. /\ l \in Log /\ Len(l) = Len(log[i]) + 1 /\ l[Len(l)] = e
      /\ \A n \in 1..Len(log[i]) : l[n] = log[i][n]
  BY <1>2 DEF Log
<1>4. ASSUME NEW s \in Stretches PROVE Agree(Whole(l), s)
  <2>1. Len(log[i]) + 1 \in Covered(s) => EntryAt(s, Len(log[i]) + 1).term # e.term
    BY <1>1, <1>2 DEF LogInv, LeaderHoldsTerm
  <2> QED  BY <1>2, <2>1, StretchTypes, ExtendAgrees DEF LogInv, StretchesAgree
<1>5. ASSUME NEW n \in 1..Len(l) PROVE Held(n, l[n]) \/ Proposed(i, l, n)
  <2>1. CASE n = Len(l)
    BY <1>1, <1>2, <1>3, <2>1 DEF Proposed
  <2>2. CASE n # Len(l)
    <3>1. n \in 1..Len(log[i])
      BY <1>2, <1>3, <2>2
    <3> QED  BY <1>2, <1>3, <3>1, WholeLog DEF Held
  <2> QED  BY <2>1, <2>2
<1>6. OnlySends(i, Silent) /\ \A j \in DOMAIN Silent : Silent[j].kind # "AppendReq"
  BY <1>1 DEF OnlySends, Silent
<1>7. Len(log[i]) <= Len(l)
  BY <1>2, <1>3
<1> HIDE DEF l
<1>8. LogStep(i, l, Silent)
  BY <1>1, <1>3, <1>4, <1>5, <1>6, <1>7 DEF LogStep
<1> QED  BY <1>3, <1>8 DEF MakesLogStep

\* Every action is a step of one node on the elections and on the logs.
LEMMA EachActionIsLogStep ==
  ASSUME TypeOK, NextIndexSet, ElectionInv, NeverForgets, ElectionSafety, LogInv, Act
  PROVE  \E i \in Node : ElectionStep(i) /\ MakesLogStep(i)
<1>1. ASSUME NEW i \in Node, BeginElection(i) \/ BeginPreVote(i) \/ LeaderTick(i)
      PROVE  ElectionStep(i) /\ MakesLogStep(i)
  BY <1>1, BeginElectionStep, BeginPreVoteStep, LeaderTickStep, TickLogs
<1>2. ASSUME NEW i \in Node, NEW cmd \in Cmd, Propose(i, cmd)
      PROVE  ElectionStep(i) /\ MakesLogStep(i)
  BY <1>2, LocalStep, ProposeLogs DEF Propose, nodeVars, tallyVars
<1>3. ASSUME NEW i \in Node, NEW j \in Peers(i), ReceiveProbe(i, j)
      PROVE  ElectionStep(i) /\ MakesLogStep(i)
  <2>1. OnlySends(i, Silent) /\ log' = log
    BY <1>3 DEF ReceiveProbe, OnlySends, logVars
  <2> QED  BY <1>3, <2>1, LocalStep, SilentLogs DEF ReceiveProbe, nodeVars, tallyVars
<1>4. ASSUME NEW i \in Node, NEW j \in Peers(i),
             \/ HandleAppendReq(i, j) \/ HandleAppendResp(i, j)
             \/ HandleVoteReq(i, j) \/ HandleVoteResp(i, j)
      PROVE  ElectionStep(i) /\ MakesLogStep(i)
  BY <1>4, HandleAppendReqStep, HandleAppendRespStep, HandleVoteReqStep,
     HandleVoteRespStep, HandleAppendReqLogs, HandlerLogs
<1> QED  BY <1>1, <1>2, <1>3, <1>4 DEF Act

-----------------------------------------------------------------------------
\* Elections are remembered: while no term has two leaders, none had before.
LEMMA SafetyWasThere ==
  ASSUME TypeOK, ElectionInv, NeverForgets, [Next]_vars, ElectionSafety'
  PROVE  ElectionSafety
<1>1. elected \subseteq elected'
  <2>1. CASE Next
    BY <2>1, EachActionIsElectionStep DEF Next, ElectionStep, Wins
  <2>2. CASE UNCHANGED vars
    BY <2>2 DEF vars
  <2> QED  BY <2>1, <2>2
<1> QED  BY <1>1 DEF ElectionSafety

\* No action leads out of LogInv as long as no term has two leaders.
LEMMA LogInvNext ==
  ASSUME TypeOK, TypeOK', NextIndexSet, ElectionInv, ElectionInv', NeverForgets,
         ElectionSafety => LogInv, [Next]_vars, ElectionSafety'
  PROVE  LogInv'
<1>0. ElectionSafety /\ LogInv
  BY SafetyWasThere
<1>1. CASE Next
  <2>1. PICK i \in Node : ElectionStep(i) /\ MakesLogStep(i)
    BY <1>0, <1>1, EachActionIsLogStep DEF Next
  <2>2. PICK l \in Log : \E out : LogStep(i, l, out)
    BY <2>1 DEF MakesLogStep
  <2> QED  BY <1>0, <2>1, <2>2, LogStepPreserves
<1>2. CASE UNCHANGED vars
  <2>1. UNCHANGED <<role, currentTerm, log, net, elected>>
    BY <1>2 DEF vars, nodeVars, logVars
  <2>2. Stretches' = Stretches
    BY <2>1 DEF Stretches
  <2> QED  BY <1>0, <2>1, <2>2 DEF LogInv, StretchesAgree, EntriesElected, LeaderHoldsTerm,
                             Agree, Covered, EntryAt, TermIn
<1> QED  BY <1>1, <1>2

\* The cluster starts with empty logs and nothing under way.
LEMMA LogInvInit == Init => LogInv
<1> SUFFICES ASSUME Init PROVE LogInv
  OBVIOUS
<1>1. \A i \in Node : Covered(Whole(log[i])) = {}
  BY DEF Init, Whole, Covered
<1>2. Stretches = {Whole(log[i]) : i \in Node}
  BY DEF Init, Stretches
<1>3. \A s \in Stretches : Covered(s) = {}
  BY <1>1, <1>2
<1> QED  BY <1>3 DEF LogInv, StretchesAgree, Agree, EntriesElected, LeaderHoldsTerm

\* In every mode, as long as no term has two leaders, all stretches of logs match,
\* whether in a node or under way, and whoever leads a term has every entry of it.
THEOREM StretchesMatch == Spec => [](ElectionSafety => LogInv)
<1> DEFINE Inv == /\ TypeOK /\ NextIndexSet /\ ElectionInv /\ NeverForgets
                  /\ ElectionSafety => LogInv
<1>1. Init => Inv
  BY InitType, ElectionInvInit, LogInvInit DEF Init, NextIndexSet
<1>2. Inv /\ [Next]_vars => Inv'
  BY NextType, NextIndexStep, ElectionInvNext, LogInvNext
<1>3. Inv => (ElectionSafety => LogInv)
  OBVIOUS
<1> HIDE DEF Inv
<1> QED  BY <1>1, <1>2, <1>3, PTL DEF Spec

\* Nodes whose stretches match have matching logs.
LEMMA LogsMatch == TypeOK /\ LogInv => LogMatching
<1> SUFFICES ASSUME TypeOK, LogInv, NEW i \in Node, NEW j \in Node,
                    NEW n \in DOMAIN log[i] \cap DOMAIN log[j],
                    log[i][n].term = log[j][n].term
             PROVE  SubSeq(log[i], 1, n) = SubSeq(log[j], 1, n)
  BY DEF LogMatching
<1>1. log[i] \in Log /\ log[j] \in Log /\ Agree(Whole(log[i]), Whole(log[j]))
  <2>1. Whole(log[i]) \in Stretches /\ Whole(log[j]) \in Stretches
    BY DEF Stretches
  <2> QED  BY <2>1 DEF TypeOK, LogInv, StretchesAgree
<1>2. n \in 1..Len(log[i]) /\ n \in 1..Len(log[j]) /\ Len(log[i]) \in Nat /\ Len(log[j]) \in Nat
  BY <1>1, WholeLog
<1>3. ASSUME NEW k \in 1..n PROVE log[i][k] = log[j][k]
  <2>1. k \in 0..n /\ k \in 1..Len(log[i]) /\ k \in 1..Len(log[j])
    BY <1>2
  <2> QED  BY <1>1, <1>2, <2>1, WholeLog DEF Agree
<1>4. ASSUME NEW l \in Log, n \in 1..Len(l)
      PROVE  /\ SubSeq(l, 1, n) \in Seq(Entry) /\ Len(SubSeq(l, 1, n)) = n
             /\ \A k \in 1..n : SubSeq(l, 1, n)[k] = l[k]
  <2>1. n \in Nat /\ n >= 1 /\ \A k \in 1..n : l[k] \in Entry
    BY <1>4, WholeLog
  <2> QED  BY <2>1, SubSeqProperties
<1>5. /\ SubSeq(log[i], 1, n) \in Seq(Entry) /\ Len(SubSeq(log[i], 1, n)) = n
      /\ SubSeq(log[j], 1, n) \in Seq(Entry) /\ Len(SubSeq(log[j], 1, n)) = n
      /\ \A k \in 1..n : SubSeq(log[i], 1, n)[k] = SubSeq(log[j], 1, n)[k]
  <2>1. PICK a, b : a = log[i] /\ b = log[j]
    OBVIOUS
  <2>2. /\ SubSeq(a, 1, n) \in Seq(Entry) /\ Len(SubSeq(a, 1, n)) = n
        /\ \A k \in 1..n : SubSeq(a, 1, n)[k] = a[k]
    BY <1>1, <1>2, <1>4, <2>1
  <2>3. /\ SubSeq(b, 1, n) \in Seq(Entry) /\ Len(SubSeq(b, 1, n)) = n
        /\ \A k \in 1..n : SubSeq(b, 1, n)[k] = b[k]
    BY <1>1, <1>2, <1>4, <2>1
  <2> QED  BY <1>3, <2>1, <2>2, <2>3
<1> QED  BY <1>5, SeqEqual

\* In every mode, as long as no term has two leaders, logs with entries of one term at
\* one index are the same up to there, commands included (log.go, Entry), for any
\* cluster, loss and delay.
THEOREM LogsMatchUnlessSplit == Spec => [](ElectionSafety => LogMatching)
BY LogsMatch, TypeCorrectness, StretchesMatch, PTL

\* Who leads a term before a step and is in it afterwards keeps its log and only adds
\* to it.
LEMMA LeaderAppends ==
  ASSUME TypeOK, TypeOK', NextIndexSet, ElectionInv, NeverForgets, ElectionSafety, LogInv,
         Act, NEW k \in Node, role[k] = "leader", currentTerm'[k] = currentTerm[k]
  PROVE  Len(log[k]) <= Len(log'[k]) /\ SubSeq(log'[k], 1, Len(log[k])) = log[k]
<1>1. PICK i \in Node : ElectionStep(i) /\ MakesLogStep(i)
  BY EachActionIsLogStep
<1>2. PICK l \in Log : \E out : LogStep(i, l, out)
  BY <1>1 DEF MakesLogStep
<1>3. log[k] \in Log /\ log'[k] = IF k = i THEN l ELSE log[k]
  BY <1>2 DEF LogStep, TypeOK
<1>4. /\ log'[k] \in Log /\ Len(log[k]) <= Len(log'[k])
      /\ \A n \in 1..Len(log[k]) : log'[k][n] = log[k][n]
  <2>1. CASE k = i
    <3>1. Leads(i, currentTerm'[i])
      BY <2>1 DEF Leads
    <3> QED  BY <1>2, <1>3, <2>1, <3>1 DEF LogStep
  <2>2. CASE k # i
    BY <1>3, <2>2, WholeLog
  <2> QED  BY <2>1, <2>2
<1>5. Len(log[k]) \in Nat /\ Len(log'[k]) \in Nat /\ \A n \in 1..Len(log'[k]) : log'[k][n] \in Entry
  BY <1>3, <1>4, WholeLog
<1> QED  BY <1>3, <1>4, <1>5 DEF Log

\* In every mode, in a run in which no term has two leaders, a leader never drops or
\* rewrites an entry of its log while its term lasts.
THEOREM LeaderAppendsUnlessSplit == Spec /\ []ElectionSafety => LeaderAppendOnly
<1> DEFINE A == \A i \in Node : role[i] = "leader" /\ currentTerm'[i] = currentTerm[i] =>
                  /\ Len(log[i]) <= Len(log'[i])
                  /\ SubSeq(log'[i], 1, Len(log[i])) = log[i]
<1>1. /\ TypeOK /\ TypeOK' /\ NextIndexSet /\ ElectionInv /\ NeverForgets
      /\ ElectionSafety /\ LogInv /\ [Next]_vars
      => [A]_vars
  BY LeaderAppends DEF Next
<1> QED  BY <1>1, TypeCorrectness, ElectionInvariant, StretchesMatch, PTL
         DEF Spec, LeaderAppendOnly

-----------------------------------------------------------------------------
\* Baseline mode never has two leaders in a term, so there all this holds as it stands.

\* Logs match in baseline mode.
THEOREM BaselineLogMatching == Mode = "baseline" /\ Spec => []LogMatching
BY BaselineElectionSafety, LogsMatchUnlessSplit, PTL

\* In baseline mode a leader never drops or rewrites an entry of its log.
THEOREM BaselineLeaderAppendOnly == Mode = "baseline" /\ Spec => LeaderAppendOnly
BY BaselineElectionSafety, LeaderAppendsUnlessSplit, PTL
=============================================================================
