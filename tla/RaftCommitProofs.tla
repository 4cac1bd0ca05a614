--------------------------- MODULE RaftCommitProofs ---------------------------
(***************************************************************************)
(* What is committed stays committed and is agreed on, in every mode and      *)
(* cluster, with any loss and delay, as long as no term has two leaders and no *)
(* follower reports a match index beyond what the request covered.            *)
(*                                                                           *)
(* First, facts about ledgers and what was held: both only grow, so that what *)
(* was said of them stays said.  The one that carries the rest is              *)
(* LeadersHaveChosen: what a majority held in a term, every later leader has.  *)
(* Otherwise take the first leader that lacks it: one of its voters held the   *)
(* entry, and still had it when it voted.                                     *)
(*                                                                           *)
(* CommitStep says what a step of one node may do to logs, messages, matches   *)
(* and commit indexes, and SoundStep adds what is known before it.  A sound     *)
(* step preserves each conjunct of CommitFacts, and every action is one.       *)
(***************************************************************************)
EXTENDS RaftLogProofs, RaftCommit, WellFoundedInduction

\* Log r is log l with entries of term t after it.
Extends(l, r, t) ==
  /\ Len(l) <= Len(r)
  /\ \A n \in 1..Len(l) : r[n] = l[n]
  /\ \A n \in 1..Len(r) : n > Len(l) => r[n].term = t

\* The ledger new is the ledger old with what later terms and the leaders' proposals add.
LedgerGrows(old, new) ==
  /\ DOMAIN old \subseteq DOMAIN new
  /\ \A t \in DOMAIN old : /\ t \in Nat /\ old[t] \in Log /\ new[t] \in Log
                           /\ Extends(old[t], new[t], t)

-----------------------------------------------------------------------------
\* A majority and more is a majority.
LEMMA MoreIsQuorum ==
  ASSUME NEW S \in SUBSET Node, NEW T \in SUBSET Node, IsQuorum(S), S \subseteq T
  PROVE  IsQuorum(T)
<1>1. IsFiniteSet(Node) /\ IsFiniteSet(S) /\ IsFiniteSet(T)
  BY NodeAssumption, FS_Subset
<1>2. Cardinality(S) <= Cardinality(T) /\ Cardinality(S) \in Nat /\ Cardinality(T) \in Nat
      /\ Cardinality(Node) \in Nat
  BY <1>1, FS_Subset, FS_CardinalityType
<1> QED  BY <1>2 DEF IsQuorum

\* What is in a ledger stays in it, and what it lacks of other terms it lacks for good.
LEMMA HoldsStays ==
  ASSUME NEW old, NEW new, LedgerGrows(old, new), NEW w \in DOMAIN old, NEW n, NEW t
  PROVE  /\ Holds(old[w], n, t) => Holds(new[w], n, t)
         /\ t # w /\ Holds(new[w], n, t) => Holds(old[w], n, t)
<1>1. /\ old[w] \in Log /\ new[w] \in Log /\ Extends(old[w], new[w], w)
      /\ Len(old[w]) \in Nat /\ DOMAIN old[w] = 1..Len(old[w])
      /\ Len(new[w]) \in Nat /\ DOMAIN new[w] = 1..Len(new[w])
  BY LenProperties DEF LedgerGrows, Log
<1> QED  BY <1>1 DEF Holds, Extends

\* A later leader that lacked an entry lacks it for good.
LEMMA OverruledStays ==
  ASSUME NEW old, NEW new, LedgerGrows(old, new), NEW n, NEW t \in Nat, NEW u \in Nat,
         NEW z \in Nat, u <= z, Overruled(old, n, t, u)
  PROVE  Overruled(new, n, t, z)
<1>1. PICK w \in DOMAIN old : t < w /\ w <= u /\ ~Holds(old[w], n, t)
  BY DEF Overruled
<1>2. w \in DOMAIN new /\ w \in Nat
  BY DEF LedgerGrows
<1>3. ~Holds(new[w], n, t)
  BY <1>1, <1>2, HoldsStays
<1> QED  BY <1>1, <1>2, <1>3 DEF Overruled

\* What was chosen is chosen for good.
LEMMA ChosenStays ==
  ASSUME NEW old, NEW new, \A i \in Node : old[i] \subseteq new[i], NEW n, NEW t,
         Chosen(old, n, t)
  PROVE  Chosen(new, n, t)
<1>1. {i \in Node : <<n, t>> \in old[i]} \subseteq {i \in Node : <<n, t>> \in new[i]}
  OBVIOUS
<1> QED  BY <1>1, MoreIsQuorum DEF Chosen

\* A log that is from the ledger still is when the ledger has grown.
LEMMA FromLedgerStays ==
  ASSUME NEW old, NEW new, LedgerGrows(old, new), NEW l \in Log, NEW u \in Nat,
         NEW z \in Nat, u <= z, FromLedger(old, l, u)
  PROVE  FromLedger(new, l, z)
<1> SUFFICES ASSUME NEW n \in DOMAIN l
             PROVE  LET t == l[n].term
                    IN  /\ t \in DOMAIN new /\ t <= z
                        /\ n \in DOMAIN new[t] /\ \A k \in 1..n : l[k] = new[t][k]
  BY DEF FromLedger
<1> DEFINE t == l[n].term
<1>1. /\ t \in DOMAIN old /\ t <= u /\ n \in DOMAIN old[t]
      /\ \A k \in 1..n : l[k] = old[t][k]
  BY DEF FromLedger
<1>2. /\ t \in Nat /\ t \in DOMAIN new /\ Extends(old[t], new[t], t)
      /\ Len(old[t]) \in Nat /\ DOMAIN old[t] = 1..Len(old[t])
      /\ Len(new[t]) \in Nat /\ DOMAIN new[t] = 1..Len(new[t])
  BY <1>1, LenProperties DEF LedgerGrows, Log
<1> HIDE DEF t
<1>3. n \in DOMAIN new[t] /\ \A k \in 1..n : l[k] = new[t][k]
  BY <1>1, <1>2 DEF Extends
<1>4. t <= z
  BY <1>1, <1>2
<1> QED  BY <1>2, <1>3, <1>4 DEF t

\* What is committed stays so.
LEMMA CommittedStays ==
  ASSUME NEW led, NEW new, LedgerGrows(led, new), NEW had, NEW has,
         \A i \in Node : had[i] \subseteq has[i],
         NEW l, NEW c \in Nat, NEW u \in Nat, NEW z \in Nat, u <= z, Committed(led, had, l, c, u)
  PROVE  Committed(new, has, l, c, z)
<1>1. CASE c = 0
  BY <1>1 DEF Committed
<1>2. CASE c # 0
  <2>0. PICK t \in DOMAIN led : \E n \in DOMAIN led[t] :
          /\ t <= u /\ Chosen(had, n, t) /\ c <= n
          /\ c <= Len(l) /\ \A k \in 1..c : l[k] = led[t][k]
    BY <1>2 DEF Committed
  <2>1. PICK n \in DOMAIN led[t] :
          /\ t <= u /\ Chosen(had, n, t) /\ c <= n
          /\ c <= Len(l) /\ \A k \in 1..c : l[k] = led[t][k]
    BY <2>0
  <2>2. /\ t \in Nat /\ t \in DOMAIN new /\ Extends(led[t], new[t], t)
        /\ Len(led[t]) \in Nat /\ DOMAIN led[t] = 1..Len(led[t])
        /\ Len(new[t]) \in Nat /\ DOMAIN new[t] = 1..Len(new[t])
    BY LenProperties DEF LedgerGrows, Log
  <2>3. n \in DOMAIN new[t] /\ \A k \in 1..c : l[k] = new[t][k]
    BY <2>1, <2>2 DEF Extends
  <2>4. Chosen(has, n, t)
    BY <2>1, ChosenStays
  <2>5. t <= z
    BY <2>1, <2>2
  <2> QED  BY <2>1, <2>2, <2>3, <2>4, <2>5 DEF Committed
<1> QED  BY <1>1, <1>2

\* A request that is from the ledger still is when the ledger has grown.
LEMMA RequestStays ==
  ASSUME NEW led, NEW new, LedgerGrows(led, new), NEW had, NEW has,
         \A i \in Node : had[i] \subseteq has[i],
         NEW m \in AppendReq, RequestFromLedger(led, had, m)
  PROVE  RequestFromLedger(new, has, m)
<1>1. /\ m.term \in Nat /\ m.prevIndex \in Nat /\ m.prevTerm \in Nat /\ m.leaderCommit \in Nat
      /\ Len(m.entries) \in Nat /\ DOMAIN m.entries = 1..Len(m.entries)
  BY LenProperties DEF AppendReq, Log
<1>2. m.term \in DOMAIN led /\ m.term \in DOMAIN new
  BY DEF LedgerGrows, RequestFromLedger
<1>3. PICK l, r : l = led[m.term] /\ r = new[m.term]
  OBVIOUS
<1>4. /\ Len(l) \in Nat /\ DOMAIN l = 1..Len(l) /\ Len(r) \in Nat /\ DOMAIN r = 1..Len(r)
      /\ Len(l) <= Len(r) /\ \A n \in 1..Len(l) : r[n] = l[n]
  BY <1>2, <1>3, LenProperties DEF LedgerGrows, Log, Extends
<1>5. CASE m.prevIndex > 0 /\ m.prevTerm = 0
  BY <1>2, <1>5 DEF RequestFromLedger
<1>6. CASE /\ m.prevIndex <= Len(l) /\ m.prevTerm = TermAt(l, m.prevIndex)
           /\ \A k \in DOMAIN m.entries :
                m.prevIndex + k \in DOMAIN l /\ m.entries[k] = l[m.prevIndex + k]
           /\ m.leaderCommit <= m.prevIndex + Len(m.entries)
           /\ Committed(led, had, l, m.leaderCommit, m.term)
  <2>1. m.prevIndex <= Len(r) /\ m.prevTerm = TermAt(r, m.prevIndex)
    BY <1>1, <1>4, <1>6 DEF TermAt
  <2>2. ASSUME NEW k \in DOMAIN m.entries
        PROVE  m.prevIndex + k \in DOMAIN r /\ m.entries[k] = r[m.prevIndex + k]
    <3>1. m.prevIndex + k \in 1..Len(l) /\ m.entries[k] = l[m.prevIndex + k]
      BY <1>4, <1>6
    <3> QED  BY <1>4, <3>1
  <2>3. Committed(new, has, l, m.leaderCommit, m.term)
    <3>1. m.term <= m.term
      BY <1>1
    <3> QED  BY <1>1, <1>6, <3>1, CommittedStays
  <2>4. Committed(new, has, r, m.leaderCommit, m.term)
    BY <1>1, <1>4, <2>3 DEF Committed
  <2> QED  BY <1>2, <1>3, <1>6, <2>1, <2>2, <2>4 DEF RequestFromLedger
<1> QED  BY <1>3, <1>5, <1>6 DEF RequestFromLedger

\* Two logs from the ledger that have the same term at an index are the same up to there.
LEMMA SameUpTo ==
  ASSUME NEW led, NEW l, NEW r, NEW u, NEW z, FromLedger(led, l, u), FromLedger(led, r, z),
         NEW n \in DOMAIN l, n \in DOMAIN r, l[n].term = r[n].term, NEW k \in 1..n
  PROVE  l[k] = r[k]
<1>1. l[k] = led[l[n].term][k]
  BY DEF FromLedger
<1>2. r[k] = led[r[n].term][k]
  BY DEF FromLedger
<1> QED  BY <1>1, <1>2

\* The beginning of a log from the ledger is from the ledger.
LEMMA PrefixFromLedger ==
  ASSUME NEW led, NEW l \in Log, NEW r \in Log, NEW u, FromLedger(led, l, u),
         Len(r) <= Len(l), \A k \in 1..Len(r) : r[k] = l[k]
  PROVE  FromLedger(led, r, u)
<1>1. /\ Len(l) \in Nat /\ DOMAIN l = 1..Len(l)
      /\ Len(r) \in Nat /\ DOMAIN r = 1..Len(r)
  BY LenProperties DEF Log
<1>2. ASSUME NEW n \in DOMAIN r
      PROVE  LET t == r[n].term
             IN  /\ t \in DOMAIN led /\ t <= u
                 /\ n \in DOMAIN led[t] /\ \A k \in 1..n : r[k] = led[t][k]
  <2>1. n \in DOMAIN l /\ r[n] = l[n] /\ \A k \in 1..n : r[k] = l[k]
    BY <1>1
  <2> QED  BY <2>1 DEF FromLedger
<1> QED  BY <1>2 DEF FromLedger

\* What AppendFromLeader makes of a log and a part of another one, b: b as far as the
\* part goes, and either the log itself or not a bit more.
LEMMA SpliceOf ==
  ASSUME NEW l \in Log, NEW b \in Log, NEW p \in Nat, NEW es \in Log,
         p <= Len(l), p <= Len(b), p = 0 \/ l[p].term = b[p].term,
         \A k \in DOMAIN es : p + k \in DOMAIN b /\ es[k] = b[p + k],
         \A n \in DOMAIN l : n \in DOMAIN b /\ l[n].term = b[n].term
                               => \A k \in 1..n : l[k] = b[k]
  PROVE  LET r == AppendFromLeader(l, p, es)
             last == p + Len(es)
         IN  /\ last <= Len(b) /\ last <= Len(r) /\ \A k \in 1..last : r[k] = b[k]
             /\ \/ r = l
                \/ Len(r) = last /\ \E n \in 1..last : n > Len(l) \/ l[n] # b[n]
<1> DEFINE last == p + Len(es)
           r == AppendFromLeader(l, p, es)
<1>1. /\ Len(l) \in Nat /\ DOMAIN l = 1..Len(l)
      /\ Len(b) \in Nat /\ DOMAIN b = 1..Len(b)
      /\ Len(es) \in Nat /\ DOMAIN es = 1..Len(es) /\ last \in Nat
  BY LenProperties DEF Log
<1>2. \A k \in 1..p : l[k] = b[k]
  BY <1>1
<1>3. last <= Len(b)
  <2>1. CASE Len(es) = 0
    BY <1>1, <2>1
  <2>2. CASE Len(es) # 0
    <3>1. Len(es) \in DOMAIN es
      BY <1>1, <2>2
    <3>2. p + Len(es) \in DOMAIN b
      BY <3>1
    <3> QED  BY <1>1, <3>2
  <2> QED  BY <2>1, <2>2
<1>4. ASSUME NEW n \in (p + 1)..last
      PROVE  n - p \in DOMAIN es /\ n \in 1..Len(b) /\ es[n - p] = b[n]
  <2>1. n - p \in DOMAIN es /\ p + (n - p) = n
    BY <1>1
  <2> QED  BY <1>1, <2>1
<1>5. CASE AgreesThrough(l, p, es, last)
  <2>1. r = l
    BY <1>5 DEF AppendFromLeader
  <2>2. CASE Len(es) = 0
    BY <1>1, <1>2, <1>3, <2>1, <2>2
  <2>3. CASE Len(es) # 0
    <3>1. last \in (p + 1)..last
      BY <1>1, <2>3
    <3>2. last <= Len(l) /\ l[last].term = es[last - p].term
      BY <1>5, <3>1 DEF AgreesThrough
    <3>3. last \in DOMAIN l /\ last \in DOMAIN b /\ l[last].term = b[last].term
      BY <1>1, <1>3, <1>4, <3>1, <3>2
    <3> QED  BY <1>1, <1>3, <2>1, <3>2, <3>3
  <2> QED  BY <2>2, <2>3
<1>6. CASE ~AgreesThrough(l, p, es, last)
  <2>1. r = [n \in 1..last |-> IF n <= p \/ AgreesThrough(l, p, es, n)
                               THEN l[n] ELSE es[n - p]]
    BY <1>6 DEF AppendFromLeader
  <2>2. Len(r) = last
    BY <1>1, <2>1
  <2>3. PICK n \in (p + 1)..last : ~(n <= Len(l) /\ l[n].term = es[n - p].term)
    BY <1>6 DEF AgreesThrough
  <2>4. n \in 1..last /\ (n > Len(l) \/ l[n] # b[n])
    BY <1>1, <1>4, <2>3
  <2>5. ASSUME NEW k \in 1..last PROVE r[k] = b[k]
    <3>1. CASE k <= p
      BY <1>1, <1>2, <2>1, <3>1
    <3>2. CASE k > p /\ AgreesThrough(l, p, es, k)
      <4>1. k \in (p + 1)..k /\ k \in (p + 1)..last
        BY <1>1, <3>2
      <4>2. k <= Len(l) /\ l[k].term = es[k - p].term
        BY <3>2, <4>1 DEF AgreesThrough
      <4>3. k \in DOMAIN l /\ k \in DOMAIN b /\ l[k].term = b[k].term /\ k \in 1..k
        BY <1>1, <1>4, <4>1, <4>2
      <4>4. l[k] = b[k]
        BY <4>3
      <4> QED  BY <2>1, <3>2, <4>4
    <3>3. CASE k > p /\ ~AgreesThrough(l, p, es, k)
      BY <1>1, <1>4, <2>1, <3>3
    <3> QED  BY <1>1, <3>1, <3>2, <3>3
  <2> QED  BY <1>3, <2>2, <2>4, <2>5
<1> QED  BY <1>5, <1>6

\* Every log of the ledger is itself from the ledger.
IsLedger(led) ==
  \A t \in DOMAIN led : t \in Nat /\ t > 0 /\ led[t] \in Log /\ FromLedger(led, led[t], t)

\* The last term of a log names the ledger that the whole log is from.
LEMMA LastNamesLedger ==
  ASSUME NEW led, IsLedger(led), NEW l \in Log, l # <<>>, NEW u, FromLedger(led, l, u)
  PROVE  LET t == LastTerm(l)
         IN  /\ t \in DOMAIN led /\ t <= u /\ Len(l) <= Len(led[t])
             /\ \A n \in 1..Len(l) : l[n] = led[t][n] /\ l[n].term <= t
<1>1. Len(l) \in Nat /\ DOMAIN l = 1..Len(l) /\ Len(l) \in 1..Len(l)
      /\ LastTerm(l) = l[Len(l)].term
  BY EmptySeq, LenProperties DEF Log, LastTerm
<1>2. PICK t : t = LastTerm(l)
  OBVIOUS
<1>3. /\ t \in DOMAIN led /\ t <= u /\ Len(l) \in DOMAIN led[t]
      /\ \A k \in 1..Len(l) : l[k] = led[t][k]
  BY <1>1, <1>2 DEF FromLedger
<1>4. /\ FromLedger(led, led[t], t) /\ Len(led[t]) \in Nat
      /\ DOMAIN led[t] = 1..Len(led[t])
  BY <1>3, LenProperties DEF IsLedger, Log
<1>5. ASSUME NEW n \in 1..Len(l) PROVE l[n].term <= t
  <2>1. n \in DOMAIN led[t] /\ l[n] = led[t][n]
    BY <1>1, <1>3, <1>4
  <2> QED  BY <1>4, <2>1 DEF FromLedger
<1> QED  BY <1>1, <1>2, <1>3, <1>4, <1>5

\* Whoever's log is at least as up to date as another (UpToDate) has what that one has,
\* unless a leader in between lacked it.
LEMMA UpToDateCovers ==
  ASSUME NEW led, IsLedger(led), NEW l \in Log, NEW q \in Log, NEW z, NEW u \in Nat,
         FromLedger(led, l, z), FromLedger(led, q, u),
         UpToDate(l, LastTerm(q), Len(q)), NEW n, NEW t, Holds(l, n, t)
  PROVE  Holds(q, n, t) \/ Overruled(led, n, t, u)
<1>1. /\ Len(l) \in Nat /\ DOMAIN l = 1..Len(l) /\ n \in 1..Len(l) /\ l[n].term = t
      /\ Len(q) \in Nat /\ DOMAIN q = 1..Len(q) /\ l # <<>> /\ n \in Nat
  BY LenProperties DEF Log, Holds
<1>2. PICK a : a = LastTerm(l)
  OBVIOUS
<1>3. /\ a \in DOMAIN led /\ a \in Nat /\ a > 0 /\ Len(l) <= Len(led[a])
      /\ l[n] = led[a][n] /\ t <= a /\ t \in Nat /\ led[a] \in Log
  <2>1. t \in Nat
    <3>1. l[n] \in Entry
      BY <1>1, ElementOfSeq DEF Log
    <3> QED  BY <1>1, <3>1 DEF Entry
  <2> QED  BY <1>1, <1>2, <2>1, LastNamesLedger DEF IsLedger
<1>4. q # <<>>
  BY <1>1, <1>2, <1>3 DEF UpToDate, LastTerm
<1>5. PICK c : c = LastTerm(q)
  OBVIOUS
<1>6. /\ c \in DOMAIN led /\ c \in Nat /\ c <= u /\ Len(q) <= Len(led[c]) /\ led[c] \in Log
      /\ \A k \in 1..Len(q) : q[k] = led[c][k]
      /\ Len(q) \in 1..Len(q) /\ q[Len(q)].term = c
  BY <1>1, <1>4, <1>5, LastNamesLedger DEF IsLedger, LastTerm
<1>7. CASE c = a
  <2>1. Len(q) >= Len(l)
    BY <1>1, <1>2, <1>3, <1>5, <1>7 DEF UpToDate
  <2>2. n \in 1..Len(q)
    BY <1>1, <2>1
  <2> QED  BY <1>1, <1>3, <1>6, <1>7, <2>2 DEF Holds
<1>8. CASE c > a /\ ~Holds(led[c], n, t)
  BY <1>3, <1>6, <1>8 DEF Overruled
<1>9. CASE c > a /\ Holds(led[c], n, t)
  <2>0. Len(led[c]) \in Nat /\ DOMAIN led[c] = 1..Len(led[c])
    BY <1>6, LenProperties DEF Log
  <2>1. n <= Len(q)
    <3> SUFFICES ASSUME n > Len(q) PROVE FALSE
      BY <1>1
    <3>1. n \in DOMAIN led[c] /\ led[c][n].term = t /\ FromLedger(led, led[c], c)
      BY <1>6, <1>9 DEF Holds, IsLedger
    <3>2. t \in DOMAIN led /\ n \in DOMAIN led[t] /\ \A k \in 1..n : led[c][k] = led[t][k]
      BY <3>1 DEF FromLedger
    <3>3. Len(q) \in 1..n
      BY <1>1, <1>6
    <3>4. led[t][Len(q)].term = c /\ Len(q) \in DOMAIN led[t]
      <4>1. Len(led[t]) \in Nat /\ DOMAIN led[t] = 1..Len(led[t])
        BY <3>2, LenProperties DEF Log, IsLedger
      <4> QED  BY <1>1, <1>6, <3>2, <3>3, <4>1
    <3>5. FromLedger(led, led[t], t)
      BY <3>2 DEF IsLedger
    <3>6. c <= t
      BY <3>4, <3>5 DEF FromLedger
    <3> QED  BY <1>3, <1>6, <1>9, <3>6
  <2>2. n \in 1..Len(q)
    BY <1>1, <2>1
  <2> QED  BY <1>1, <1>6, <1>9, <2>2 DEF Holds
<1>10. c >= a
  <2>1. LastTerm(q) >= a
    BY <1>2, <1>3, <1>5, <1>6 DEF UpToDate
  <2> QED  BY <1>5, <2>1
<1> QED  BY <1>3, <1>6, <1>7, <1>8, <1>9, <1>10

\* Elections are won in terms.
LEMMA WonTerms == TypeOK => Won \subseteq Nat
<1>1. TypeOK => \A e \in elected : e.term \in Nat
  BY DEF TypeOK, Election
<1> QED  BY <1>1 DEF Won

\* Of the majority that had a chosen entry, one voted for any later leader, and so that
\* leader has the entry: the first leader without it would have had a voter with it.
LEMMA LeadersHaveChosen ==
  ASSUME TypeOK, ElectedByQuorum, HistoryTypes, LedgerIsLeaders, VotersCovered,
         NEW n, NEW t \in Nat, Chosen(held, n, t), NEW w \in DOMAIN ledger, t < w
  PROVE  Holds(ledger[w], n, t)
<1> DEFINE Lacking == {u \in Nat : u \in DOMAIN ledger /\ t < u /\ ~Holds(ledger[u], n, t)}
<1>0. DOMAIN ledger = Won /\ Won \subseteq Nat
  BY WonTerms DEF HistoryTypes
<1> SUFFICES ASSUME ~Holds(ledger[w], n, t) PROVE FALSE
  OBVIOUS
<1>1. w \in Lacking /\ Lacking \subseteq Nat
  BY <1>0
<1>2. PICK u \in Lacking : \A y \in Lacking : ~(y < u)
  <2>1. IsWellFoundedOn(OpToRel(<, Nat), Nat)
    BY NatLessThanWellFounded
  <2>2. \E x \in Lacking : \A y \in Lacking : ~(<<y, x>> \in OpToRel(<, Nat))
    BY <1>1, <2>1, WFMin
  <2> QED  BY <1>1, <2>2 DEF OpToRel
<1>3. u \in Won /\ u \in Nat /\ t < u /\ ~Holds(ledger[u], n, t)
  BY <1>0
<1>4. PICK e \in elected : e.term = u
  BY <1>3 DEF Won
<1>5. PICK v \in Node : v \in e.voters /\ <<n, t>> \in held[v]
  <2>1. e.voters \in SUBSET Node /\ IsQuorum(e.voters)
    BY DEF TypeOK, Election, ElectedByQuorum
  <2> QED  BY <2>1, QuorumsMeet DEF Chosen
<1>6. Overruled(ledger, n, t, u - 1)
  BY <1>3, <1>4, <1>5 DEF VotersCovered
<1>7. PICK y \in DOMAIN ledger : t < y /\ y <= u - 1 /\ ~Holds(ledger[y], n, t)
  BY <1>6 DEF Overruled
<1>8. y \in Lacking /\ y < u
  <2>1. y \in Nat
    BY <1>0
  <2> QED  BY <1>3, <1>7, <2>1
<1> QED  BY <1>2, <1>8

-----------------------------------------------------------------------------
\* m is on its way from j to i.
Sent(j, i, m) == \E n \in DOMAIN net[<<j, i>>] : net[<<j, i>>][n] = m

\* i, asked by j with m, splices and follows, and claims no more than it may.
Splices(i, j, m) ==
  /\ m \in AppendReq /\ Sent(j, i, m)
  /\ m.term >= currentTerm[i] /\ currentTerm'[i] = m.term /\ role'[i] = "follower"
  /\ Matches(log[i], m.prevIndex, m.prevTerm)
  /\ log' = [log EXCEPT ![i] = AppendFromLeader(log[i], m.prevIndex, m.entries)]
  /\ commitIndex'[i] = IF m.leaderCommit > commitIndex[i]
                       THEN Min2(m.leaderCommit, Len(log'[i])) ELSE commitIndex[i]
  /\ ~overclaimed' => \/ Len(log'[i]) <= m.prevIndex + Len(m.entries)
                      \/ LastTerm(log'[i]) = m.term

\* i leads throughout the step, in one term.
StaysLeader(i) ==
  role[i] = "leader" /\ role'[i] = "leader" /\ currentTerm'[i] = currentTerm[i]

\* What a step of i does to logs and commit indexes.
LogEffect(i) ==
  \/ log' = log /\ commitIndex' = commitIndex
  \/ /\ StaysLeader(i) /\ log' = log
     /\ commitIndex'[i] \in Committable(i, matchIndex'[i])
  \/ /\ StaysLeader(i) /\ commitIndex' = commitIndex
     /\ \E e \in Entry : /\ e.term = currentTerm[i]
                         /\ log' = [log EXCEPT ![i] = Append(log[i], e)]
  \/ \E j \in Peers(i) : \E m : Splices(i, j, m)

\* i sends x to j.
Sends(i, j, x) ==
  /\ x.kind = "AppendReq" =>
       /\ Leads(i, currentTerm[i]) /\ log' = log
       /\ \E next \in Nat \ {0} : x = AppendTo(i, j, currentTerm[i], next)
  /\ x.kind = "VoteReq" /\ ~x.preVote =>
       /\ x.term > currentTerm[i] /\ x.term = currentTerm'[i] /\ log' = log
       /\ x.lastIndex = Len(log[i]) /\ x.lastTerm = LastTerm(log[i])
  /\ x.kind = "AppendResp" /\ x.success =>
       \E m : Splices(i, j, m) /\ x.term = m.term /\ x.matchIndex = Len(log'[i])

\* i votes for c in term t, asked for it.
VotesFor(i, c, t) ==
  /\ log' = log /\ currentTerm[i] <= t /\ currentTerm'[i] = t
  /\ \E m : /\ Sent(c, i, m) /\ m.kind = "VoteReq" /\ ~m.preVote /\ m.term = t
            /\ UpToDate(log[i], m.lastTerm, m.lastIndex)

\* What k's match index is when i leads: nothing yet, what it was, or what k reported.
Learns(i, k) ==
  \/ matchIndex'[i][k] = 0
  \/ StaysLeader(i) /\ matchIndex'[i][k] = matchIndex[i][k]
  \/ /\ StaysLeader(i)
     /\ \E m : /\ Sent(k, i, m) /\ m.kind = "AppendResp" /\ m.success
               /\ m.term = currentTerm[i] /\ matchIndex'[i][k] = m.matchIndex

CommitStep(i) ==
  /\ ElectionStep(i)
  /\ \A k \in Peers(i) : /\ log'[k] = log[k] /\ commitIndex'[k] = commitIndex[k]
                         /\ matchIndex'[k] = matchIndex[k]
  /\ LogEffect(i)
  /\ role'[i] = "leader" => \A k \in Peers(i) : Learns(i, k)
  /\ \A c \in Channel : \A n \in DOMAIN net'[c] :
       \/ Sent(c[1], c[2], net'[c][n])
       \/ c[1] = i /\ Sends(i, c[2], net'[c][n])
  /\ \A v \in Node : \A c \in Peers(v) : \A t :
       Voted(v, c, t)' => Voted(v, c, t) \/ (v = i /\ VotesFor(i, c, t))

\* Held entries stay on record, and new ones are of the holder's term.
HeldGrows ==
  \A k \in Node :
    /\ held[k] \subseteq held'[k]
    /\ \A n \in DOMAIN log'[k] :
         log'[k][n].term = currentTerm'[k] => <<n, currentTerm'[k]>> \in held'[k]
    /\ \A h \in held'[k] : h \notin held[k] => h[2] = currentTerm'[k] /\ Holds(log'[k], h[1], h[2])

\* A step of i as long as no defect has struck, with what it does to the history.
SoundStep(i) ==
  /\ TypeOK /\ TypeOK' /\ ElectionInv /\ ElectionInv' /\ ElectionSafety /\ ElectionSafety'
  /\ ~overclaimed'
  /\ HistoryTypes /\ HistoryTypes' /\ CommitFacts
  /\ CommitStep(i)
  /\ LedgerGrows(ledger, ledger') /\ HeldGrows
  /\ \A k \in Node : role'[k] = "leader" =>
       currentTerm'[k] \in Won' /\ ledger'[currentTerm'[k]] = log'[k]
  /\ \A t \in Won' : \/ t \in Won /\ ledger'[t] = ledger[t]
                     \/ \E k \in Node : role'[k] = "leader" /\ currentTerm'[k] = t

-----------------------------------------------------------------------------
\* What a step of i does to the history.

\* An election won in a step is i's, and there was none in its term.
LEMMA NewlyWon ==
  ASSUME TypeOK, ElectionInv, NEW i \in Node, ElectionStep(i)
  PROVE  /\ Won \subseteq Won'
         /\ \A t \in Won' : t \in Won \/ (Wins(i) /\ t = currentTerm[i])
         /\ Wins(i) /\ ElectionSafety' => currentTerm[i] \notin Won
<1>1. CASE elected' = elected /\ ~Wins(i)
  BY <1>1 DEF Won
<1>2. CASE Wins(i)
  <2>1. PICK V \in SUBSET Node :
          elected' = elected \cup {[term |-> currentTerm[i], leader |-> i, voters |-> V]}
    BY <1>2 DEF Wins
  <2> DEFINE w == [term |-> currentTerm[i], leader |-> i, voters |-> V]
  <2>2. w.term = currentTerm[i]
    OBVIOUS
  <2>3. \A e \in elected' : e \in elected \/ e = w
    BY <2>1
  <2> HIDE DEF w
  <2>4. Won \subseteq Won' /\ \A t \in Won' : t \in Won \/ t = currentTerm[i]
    BY <2>1, <2>2, <2>3 DEF Won
  <2>5. ElectionSafety' => currentTerm[i] \notin Won
    BY <1>2, WinnerIsFirst DEF Won
  <2> QED  BY <1>2, <2>4, <2>5
<1> QED  BY <1>1, <1>2 DEF ElectionStep

\* The ledger of a term that is led is the log of whoever leads it.
LEMMA LedgerOfLeader ==
  ASSUME ElectionInv', ElectionSafety', RecordCommit, NEW k \in Node, role'[k] = "leader"
  PROVE  currentTerm'[k] \in Won' /\ ledger'[currentTerm'[k]] = log'[k]
<1>0. PICK t : t = currentTerm'[k]
  OBVIOUS
<1>1. PICK e \in elected' : e.leader = k /\ e.term = t
  BY <1>0 DEF ElectionInv, LeaderWasElected
<1>2. t \in Won'
  BY <1>1 DEF Won
<1>3. ASSUME NEW j \in Node, Leading(j, t)'
      PROVE  j = k
  <2>1. role'[j] = "leader" /\ currentTerm'[j] = t
    BY <1>3 DEF Leading
  <2>2. \E f \in elected' : f.leader = j /\ f.term = t
    BY <2>1 DEF ElectionInv, LeaderWasElected
  <2> QED  BY <1>1, <2>2 DEF ElectionSafety
<1>4. Leading(k, t)'
  BY <1>0 DEF Leading
<1>5. (CHOOSE j \in Node : Leading(j, t)') = k
  BY <1>3, <1>4
<1>6. ledger'[t] = log'[k]
  BY <1>2, <1>4, <1>5 DEF RecordCommit
<1> QED  BY <1>0, <1>2, <1>6

\* The history keeps its types, whatever happens.
LEMMA HistoryTypesStep ==
  ASSUME TypeOK, TypeOK', ElectionInv, HistoryTypes, RecordCommit,
         NEW i \in Node, ElectionStep(i)
  PROVE  HistoryTypes'
<1>1. ASSUME NEW t \in Won'
      PROVE  (IF \E k \in Node : Leading(k, t)'
              THEN log'[CHOOSE k \in Node : Leading(k, t)']
              ELSE ledger[t]) \in Log
  <2>1. CASE \E k \in Node : Leading(k, t)'
    <3>1. (CHOOSE k \in Node : Leading(k, t)') \in Node
      BY <2>1
    <3> QED  BY <2>1, <3>1 DEF TypeOK
  <2>2. CASE ~\E k \in Node : Leading(k, t)'
    <3>1. t \in Won
      <4>1. Wins(i) /\ t = currentTerm[i] => Leading(i, t)'
        BY DEF Wins, Leading
      <4> QED  BY <2>2, <4>1, NewlyWon
    <3> QED  BY <2>2, <3>1 DEF HistoryTypes
  <2> QED  BY <2>1, <2>2
<1>2. ledger' \in [Won' -> Log]
  BY <1>1 DEF RecordCommit
<1>3. ASSUME NEW k \in Node
      PROVE  held'[k] \in SUBSET (Nat \X Nat)
  <2>1. held[k] \in SUBSET (Nat \X Nat) /\ currentTerm'[k] \in Nat
        /\ DOMAIN log'[k] \subseteq Nat
    <3>1. log'[k] \in Log
      BY DEF TypeOK
    <3>2. DOMAIN log'[k] \subseteq Nat
      BY <3>1, LenProperties DEF Log
    <3> QED  BY <3>2 DEF TypeOK, HistoryTypes
  <2> QED  BY <2>1 DEF RecordCommit
<1>4. held' \in [Node -> SUBSET (Nat \X Nat)]
  BY <1>3 DEF RecordCommit
<1>5. overclaimed' \in BOOLEAN
  BY DEF RecordCommit, HistoryTypes
<1> QED  BY <1>2, <1>4, <1>5 DEF HistoryTypes

\* What was held is on record for good.
LEMMA HeldGrowsStep ==
  ASSUME RecordCommit
  PROVE  HeldGrows
BY DEF RecordCommit, HeldGrows, Holds

\* A log extends itself.
LEMMA ExtendsItself ==
  ASSUME NEW l \in Log, NEW t
  PROVE  Extends(l, l, t)
BY LenProperties DEF Extends, Log

\* Leaders append to their logs and others do not lead: the ledger grows.
LEMMA LedgerGrowsStep ==
  ASSUME TypeOK, TypeOK', ElectionInv, ElectionInv', ElectionSafety', HistoryTypes,
         HistoryTypes', LedgerIsLeaders, RecordCommit, NEW i \in Node, CommitStep(i)
  PROVE  LedgerGrows(ledger, ledger')
<1>0. ElectionStep(i)
  BY DEF CommitStep
<1>1. DOMAIN ledger = Won /\ DOMAIN ledger' = Won' /\ Won \subseteq Won' /\ Won \subseteq Nat
  <2>1. DOMAIN ledger = Won /\ DOMAIN ledger' = Won'
    BY DEF HistoryTypes
  <2>2. Won \subseteq Nat
    BY WonTerms
  <2> QED  BY <1>0, <2>1, <2>2, NewlyWon
<1> SUFFICES ASSUME NEW t \in Won PROVE Extends(ledger[t], ledger'[t], t)
  BY <1>1 DEF LedgerGrows, HistoryTypes
<1>2. CASE \E k \in Node : Leading(k, t)'
  <2>1. PICK k \in Node : role'[k] = "leader" /\ currentTerm'[k] = t
    BY <1>2 DEF Leading
  <2>2. ledger'[t] = log'[k]
    BY <2>1, LedgerOfLeader
  <2>3. role[k] = "leader" /\ currentTerm[k] = t
    <3>1. CASE k # i
      BY <1>0, <2>1, <3>1 DEF ElectionStep, Peers
    <3>2. CASE k = i /\ Wins(i)
      BY <1>0, <2>1, <3>2, NewlyWon DEF Wins
    <3>3. CASE k = i /\ ~Wins(i)
      BY <1>0, <2>1, <3>3 DEF ElectionStep
    <3> QED  BY <3>1, <3>2, <3>3
  <2>4. ledger[t] = log[k] /\ log[k] \in Log
    BY <2>3 DEF LedgerIsLeaders, TypeOK
  <2>5. Extends(log[k], log'[k], t)
    <3>1. CASE log'[k] = log[k]
      BY <2>4, <3>1, ExtendsItself
    <3>2. CASE k = i /\ \E e \in Entry : /\ e.term = currentTerm[i]
                                         /\ log' = [log EXCEPT ![i] = Append(log[i], e)]
      <4>1. PICK e \in Entry : e.term = t /\ log'[k] = Append(log[k], e)
        BY <2>3, <3>2 DEF TypeOK
      <4> QED  BY <2>4, <4>1, AppendProperties, LenProperties DEF Extends, Log
    <3>3. CASE k = i /\ \E j \in Peers(i) : \E m : Splices(i, j, m)
      BY <2>1, <3>3 DEF Splices
    <3> QED  BY <3>1, <3>2, <3>3 DEF CommitStep, LogEffect, Peers
  <2> QED  BY <2>2, <2>4, <2>5
<1>3. CASE ~\E k \in Node : Leading(k, t)'
  <2>1. ledger'[t] = ledger[t]
    BY <1>1, <1>3 DEF RecordCommit
  <2> QED  BY <2>1, ExtendsItself DEF HistoryTypes
<1> QED  BY <1>2, <1>3

-----------------------------------------------------------------------------
\* What a sound step preserves, one conjunct of CommitFacts at a time.

\* The ledger of a sound step is one, and what leads to it.
LEMMA SoundLedger ==
  ASSUME NEW i \in Node, SoundStep(i)
  PROVE  /\ IsLedger(ledger) /\ DOMAIN ledger = Won /\ DOMAIN ledger' = Won'
         /\ \A t \in DOMAIN ledger : t \in DOMAIN ledger' /\ ledger'[t] \in Log
         /\ \A k \in Node : log[k] \in Log /\ log'[k] \in Log
                            /\ currentTerm[k] \in Nat /\ currentTerm'[k] \in Nat
                            /\ currentTerm[k] <= currentTerm'[k]
<1>1. DOMAIN ledger = Won /\ DOMAIN ledger' = Won' /\ Won \subseteq Nat
  BY WonTerms DEF SoundStep, HistoryTypes
<1>2. IsLedger(ledger)
  BY <1>1 DEF IsLedger, SoundStep, CommitFacts, LedgerIsLeaders, LogsFromLedger, HistoryTypes
<1>3. \A t \in DOMAIN ledger : t \in DOMAIN ledger' /\ ledger'[t] \in Log
  BY DEF SoundStep, LedgerGrows
<1>4. \A k \in Node : log[k] \in Log /\ log'[k] \in Log
                      /\ currentTerm[k] \in Nat /\ currentTerm'[k] \in Nat
  BY DEF SoundStep, TypeOK
<1>5. ASSUME NEW k \in Node PROVE currentTerm[k] <= currentTerm'[k]
  BY <1>4 DEF SoundStep, CommitStep, ElectionStep, Peers
<1> QED  BY <1>1, <1>2, <1>3, <1>4, <1>5

\* Who leads has the ledger's log.
LEMMA LedgerIsLeadersStep ==
  ASSUME NEW i \in Node, SoundStep(i)
  PROVE  LedgerIsLeaders'
<1>1. ElectionStep(i) /\ TypeOK /\ ElectionInv /\ LedgerIsLeaders
  BY DEF SoundStep, CommitStep, CommitFacts
<1>2. ASSUME NEW t \in Won' PROVE t > 0
  <2>1. t \in Won \/ (role[i] = "candidate" /\ t = currentTerm[i])
    BY <1>1, NewlyWon DEF Wins
  <2> QED  BY <1>1, <2>1 DEF LedgerIsLeaders
<1>3. \A k \in Node : role'[k] = "leader" => log'[k] = ledger'[currentTerm'[k]]
  BY DEF SoundStep
<1>4. ASSUME NEW k \in Node, role'[k] = "candidate" PROVE currentTerm'[k] > 0
  <2>1. CASE k # i
    BY <1>1, <1>4, <2>1 DEF ElectionStep, LedgerIsLeaders, Peers
  <2>2. CASE k = i /\ currentTerm'[i] = currentTerm[i]
    BY <1>1, <1>4, <2>2 DEF ElectionStep, LedgerIsLeaders
  <2>3. CASE k = i /\ currentTerm'[i] # currentTerm[i]
    BY <1>4, <2>3, SoundLedger
  <2> QED  BY <2>1, <2>2, <2>3
<1> QED  BY <1>2, <1>3, <1>4 DEF LedgerIsLeaders

\* What i has after a splice: the request's ledger as far as the request goes, and
\* nothing more unless its log was there already.
LEMMA SpliceFacts ==
  ASSUME NEW i \in Node, SoundStep(i), NEW j \in Peers(i), NEW m, Splices(i, j, m)
  PROVE  LET b == ledger[m.term]
             l == log[i]
             r == log'[i]
             last == m.prevIndex + Len(m.entries)
         IN  /\ m.term \in DOMAIN ledger /\ m.term \in Nat /\ b \in Log /\ last \in Nat
             /\ r = AppendFromLeader(l, m.prevIndex, m.entries)
             /\ last <= Len(b) /\ last <= Len(r) /\ \A k \in 1..last : r[k] = b[k]
             /\ \/ r = l
                \/ Len(r) = last /\ \E n \in 1..last : n > Len(l) \/ l[n] # b[n]
             /\ m.leaderCommit \in Nat /\ m.leaderCommit <= last
             /\ Committed(ledger, held, b, m.leaderCommit, m.term)
<1>1. /\ m.term \in Nat /\ m.prevIndex \in Nat /\ m.prevTerm \in Nat /\ m.leaderCommit \in Nat
      /\ m.entries \in Log /\ Len(m.entries) \in Nat /\ m.kind = "AppendReq"
  BY LenProperties DEF Splices, AppendReq, Log
<1>2. RequestFromLedger(ledger, held, m)
  <2>1. <<j, i>> \in Channel
    BY DEF Channel, Peers
  <2> QED  BY <1>1, <2>1 DEF Splices, Sent, SoundStep, CommitFacts, RequestsFromLedger
<1>3. PICK b, l : b = ledger[m.term] /\ l = log[i]
  OBVIOUS
<1>4. /\ m.term \in DOMAIN ledger /\ b \in Log /\ l \in Log
      /\ FromLedger(ledger, b, m.term) /\ FromLedger(ledger, l, currentTerm[i])
      /\ Len(l) \in Nat /\ DOMAIN l = 1..Len(l) /\ Len(b) \in Nat /\ DOMAIN b = 1..Len(b)
  <2>1. m.term \in DOMAIN ledger
    BY <1>2 DEF RequestFromLedger
  <2>2. b \in Log /\ FromLedger(ledger, b, m.term)
    BY <1>3, <2>1, SoundLedger DEF IsLedger
  <2>3. l \in Log /\ FromLedger(ledger, l, currentTerm[i])
    BY <1>3, SoundLedger DEF SoundStep, CommitFacts, LogsFromLedger
  <2> QED  BY <2>1, <2>2, <2>3, LenProperties DEF Log
<1>5. m.prevIndex \in {0} \cup DOMAIN l /\ TermAt(l, m.prevIndex) = m.prevTerm
  BY <1>3 DEF Splices, Matches
<1>6. ~(m.prevIndex > 0 /\ m.prevTerm = 0)
  <2> SUFFICES ASSUME m.prevIndex > 0, m.prevTerm = 0 PROVE FALSE
    OBVIOUS
  <2>1. m.prevIndex \in DOMAIN l /\ l[m.prevIndex].term = 0
    BY <1>1, <1>5 DEF TermAt
  <2>2. 0 \in DOMAIN ledger
    BY <1>4, <2>1 DEF FromLedger
  <2> QED  BY <2>2, SoundLedger DEF IsLedger
<1>7. /\ m.prevIndex <= Len(b) /\ m.prevTerm = TermAt(b, m.prevIndex)
      /\ \A k \in DOMAIN m.entries :
           m.prevIndex + k \in DOMAIN b /\ m.entries[k] = b[m.prevIndex + k]
      /\ m.leaderCommit <= m.prevIndex + Len(m.entries)
      /\ Committed(ledger, held, b, m.leaderCommit, m.term)
  BY <1>2, <1>3, <1>6 DEF RequestFromLedger
<1>8. m.prevIndex = 0 \/ l[m.prevIndex].term = b[m.prevIndex].term
  BY <1>1, <1>4, <1>5, <1>7 DEF TermAt
<1>9. \A n \in DOMAIN l : n \in DOMAIN b /\ l[n].term = b[n].term
                            => \A k \in 1..n : l[k] = b[k]
  BY <1>4, SameUpTo
<1>10. m.prevIndex <= Len(l)
  BY <1>1, <1>4, <1>5
<1>11. LET r == AppendFromLeader(l, m.prevIndex, m.entries)
           last == m.prevIndex + Len(m.entries)
       IN  /\ last <= Len(b) /\ last <= Len(r) /\ \A k \in 1..last : r[k] = b[k]
           /\ \/ r = l
              \/ Len(r) = last /\ \E n \in 1..last : n > Len(l) \/ l[n] # b[n]
  <2>1. PICK p, es : p = m.prevIndex /\ es = m.entries
    OBVIOUS
  <2>2. /\ p \in Nat /\ es \in Log /\ p <= Len(l) /\ p <= Len(b)
        /\ p = 0 \/ l[p].term = b[p].term
    BY <1>1, <1>7, <1>8, <1>10, <2>1
  <2>3. \A k \in DOMAIN es : p + k \in DOMAIN b /\ es[k] = b[p + k]
    BY <1>7, <2>1
  <2>4. l \in Log /\ b \in Log
    BY <1>4
  <2>5. LET r == AppendFromLeader(l, p, es)
            last == p + Len(es)
        IN  /\ last <= Len(b) /\ last <= Len(r) /\ \A k \in 1..last : r[k] = b[k]
            /\ \/ r = l
               \/ Len(r) = last /\ \E n \in 1..last : n > Len(l) \/ l[n] # b[n]
    BY <2>2, <2>3, <2>4, <1>9, SpliceOf
  <2> QED  BY <2>1, <2>5
<1>12. log'[i] = AppendFromLeader(l, m.prevIndex, m.entries)
  BY <1>3 DEF Splices, SoundStep, TypeOK
<1>13. m.prevIndex + Len(m.entries) \in Nat
  BY <1>1
<1> QED  BY <1>1, <1>3, <1>4, <1>7, <1>11, <1>12, <1>13

\* Logs and ledgers are from the ledger.
LEMMA LogsFromLedgerStep ==
  ASSUME NEW i \in Node, SoundStep(i)
  PROVE  LogsFromLedger'
<1>0. /\ LogsFromLedger /\ LedgerGrows(ledger, ledger') /\ CommitStep(i) /\ ElectionStep(i)
      /\ IsLedger(ledger) /\ TypeOK /\ ElectionInv
  BY SoundLedger DEF SoundStep, CommitFacts, CommitStep
<1>1. ASSUME NEW k \in Node, log'[k] = log[k]
      PROVE  FromLedger(ledger', log'[k], currentTerm'[k])
  <2>1. FromLedger(ledger, log[k], currentTerm[k])
    BY <1>0 DEF LogsFromLedger
  <2> QED  BY <1>0, <1>1, <2>1, SoundLedger, FromLedgerStays
<1>2. ASSUME NEW e \in Entry, e.term = currentTerm[i], StaysLeader(i),
             log' = [log EXCEPT ![i] = Append(log[i], e)]
      PROVE  FromLedger(ledger', log'[i], currentTerm'[i])
  <2>1. PICK l, r, t : l = log[i] /\ r = log'[i] /\ t = currentTerm[i]
    OBVIOUS
  <2>2. /\ l \in Log /\ r \in Log /\ r = Append(l, e) /\ t = currentTerm'[i] /\ t \in Nat
        /\ t \in DOMAIN ledger' /\ ledger'[t] = r
    BY <1>2, <2>1, SoundLedger DEF StaysLeader, SoundStep, TypeOK
  <2>3. FromLedger(ledger', l, t)
    <3>1. FromLedger(ledger, l, t)
      BY <1>0, <2>1 DEF LogsFromLedger
    <3>2. t <= t
      BY <2>2
    <3> QED  BY <1>0, <2>2, <3>1, <3>2, FromLedgerStays
  <2>4. /\ Len(l) \in Nat /\ DOMAIN l = 1..Len(l) /\ Len(r) = Len(l) + 1
        /\ DOMAIN r = 1..(Len(l) + 1) /\ r[Len(l) + 1] = e
        /\ \A n \in 1..Len(l) : r[n] = l[n]
    BY <2>2, LenProperties, AppendProperties DEF Log
  <2>5. ASSUME NEW n \in DOMAIN r
        PROVE  LET x == r[n].term
               IN  /\ x \in DOMAIN ledger' /\ x <= t
                   /\ n \in DOMAIN ledger'[x] /\ \A k \in 1..n : r[k] = ledger'[x][k]
    <3>1. CASE n = Len(l) + 1
      <4>1. r[n].term = t /\ t <= t
        BY <1>2, <2>1, <2>2, <2>4, <3>1
      <4> QED  BY <2>2, <4>1
    <3>2. CASE n \in 1..Len(l)
      <4>1. \A k \in 1..n : r[k] = l[k]
        BY <2>4, <3>2
      <4> QED  BY <2>3, <2>4, <3>2, <4>1 DEF FromLedger
    <3> QED  BY <2>4, <3>1, <3>2
  <2>6. FromLedger(ledger', r, t)
    BY <2>5 DEF FromLedger
  <2> QED  BY <2>1, <2>2, <2>6
<1>3. ASSUME NEW j \in Peers(i), NEW m, Splices(i, j, m)
      PROVE  FromLedger(ledger', log'[i], currentTerm'[i])
  <2>1. PICK b, l, r : b = ledger[m.term] /\ l = log[i] /\ r = log'[i]
    OBVIOUS
  <2>2. /\ m.term \in DOMAIN ledger /\ m.term \in Nat /\ b \in Log /\ l \in Log /\ r \in Log
        /\ currentTerm'[i] = m.term /\ currentTerm[i] <= m.term
        /\ currentTerm[i] \in Nat /\ FromLedger(ledger, l, currentTerm[i])
        /\ FromLedger(ledger, b, m.term) /\ m.term <= m.term
    <3>1. /\ m.term \in DOMAIN ledger /\ m.term \in Nat /\ b \in Log
      BY <1>3, <2>1, SpliceFacts
    <3>2. currentTerm'[i] = m.term /\ m.term >= currentTerm[i]
      BY <1>3 DEF Splices
    <3>3. l \in Log /\ r \in Log /\ currentTerm[i] \in Nat
      BY <2>1, SoundLedger
    <3>4. FromLedger(ledger, l, currentTerm[i]) /\ FromLedger(ledger, b, m.term)
      BY <1>0, <2>1, <3>1 DEF LogsFromLedger
    <3> QED  BY <3>1, <3>2, <3>3, <3>4
  <2>3. \/ r = l
        \/ Len(r) <= Len(b) /\ \A k \in 1..Len(r) : r[k] = b[k]
    BY <1>3, <2>1, SpliceFacts
  <2>4. CASE r = l
    BY <1>0, <2>1, <2>2, <2>4, FromLedgerStays
  <2>5. CASE Len(r) <= Len(b) /\ \A k \in 1..Len(r) : r[k] = b[k]
    <3>1. FromLedger(ledger, r, m.term)
      BY <2>2, <2>5, PrefixFromLedger
    <3> QED  BY <1>0, <2>1, <2>2, <3>1, FromLedgerStays
  <2> QED  BY <2>3, <2>4, <2>5
<1>4. ASSUME NEW k \in Node PROVE FromLedger(ledger', log'[k], currentTerm'[k])
  BY <1>0, <1>1, <1>2, <1>3 DEF CommitStep, LogEffect, Peers
<1>5. ASSUME NEW w \in DOMAIN ledger'
      PROVE  FromLedger(ledger', ledger'[w], w)
  <2>1. CASE \E k \in Node : role'[k] = "leader" /\ currentTerm'[k] = w
    BY <1>4, <2>1 DEF SoundStep
  <2>2. CASE ~\E k \in Node : role'[k] = "leader" /\ currentTerm'[k] = w
    <3>1. w \in DOMAIN ledger /\ ledger'[w] = ledger[w]
      BY <2>2, SoundLedger DEF SoundStep
    <3>2. w \in Nat /\ w <= w /\ ledger[w] \in Log /\ FromLedger(ledger, ledger[w], w)
      BY <1>0, <3>1 DEF IsLedger
    <3> QED  BY <1>0, <3>1, <3>2, FromLedgerStays
  <2> QED  BY <2>1, <2>2
<1> QED  BY <1>4, <1>5 DEF LogsFromLedger

\* What a leader sends of its log is from the ledger of its term.
LEMMA PartFromLedger ==
  ASSUME NEW led, NEW had, NEW l \in Log, NEW b \in Log, NEW m \in AppendReq,
         m.term \in DOMAIN led, b = led[m.term], Extends(l, b, m.term),
         NEW next \in Nat, next # 0, m.prevIndex = next - 1,
         m.prevTerm = TermAt(l, next - 1), m.entries = Slice(l, next),
         Committed(led, had, l, m.leaderCommit, m.term)
  PROVE  RequestFromLedger(led, had, m)
<1>1. /\ Len(l) \in Nat /\ DOMAIN l = 1..Len(l) /\ Len(b) \in Nat /\ DOMAIN b = 1..Len(b)
      /\ Len(l) <= Len(b) /\ \A k \in 1..Len(l) : b[k] = l[k]
      /\ \A k \in next..Len(l) : l[k] \in Entry
  BY LenProperties, ElementOfSeq DEF Log, Extends
<1>2. m.leaderCommit \in Nat /\ m.prevIndex \in Nat
  BY DEF AppendReq
<1>3. CASE next > Len(l) + 1
  <2>1. m.prevIndex > 0 /\ m.prevTerm = 0
    BY <1>1, <1>3 DEF TermAt
  <2> QED  BY <2>1 DEF RequestFromLedger
<1>4. CASE next <= Len(l) + 1
  <2>1. /\ Len(m.entries) = Len(l) - next + 1 /\ DOMAIN m.entries = 1..(Len(l) - next + 1)
        /\ \A k \in 1..(Len(l) - next + 1) : m.entries[k] = l[next + k - 1]
    BY <1>1, <1>4, SubSeqProperties, LenProperties DEF Slice, Log, AppendReq
  <2>2. m.prevIndex + Len(m.entries) = Len(l)
    BY <1>1, <1>4, <2>1
  <2>3. ASSUME NEW k \in DOMAIN m.entries
        PROVE  m.prevIndex + k \in DOMAIN b /\ m.entries[k] = b[m.prevIndex + k]
    <3>0. k \in 1..(Len(l) - next + 1) /\ m.prevIndex = next - 1
      BY <2>1
    <3>1. m.prevIndex + k \in 1..Len(l) /\ m.prevIndex + k = next + k - 1
      BY <1>1, <3>0
    <3>2. m.entries[k] = l[m.prevIndex + k]
      BY <2>1, <3>0, <3>1
    <3> QED  BY <1>1, <3>1, <3>2
  <2>4. m.prevIndex <= Len(b) /\ m.prevTerm = TermAt(b, m.prevIndex)
    BY <1>1, <1>4 DEF TermAt
  <2>5. m.leaderCommit <= Len(l)
    BY <1>1 DEF Committed
  <2>6. Committed(led, had, b, m.leaderCommit, m.term)
    BY <1>1, <1>2, <2>5 DEF Committed
  <2> QED  BY <2>2, <2>3, <2>4, <2>5, <2>6 DEF RequestFromLedger
<1> QED  BY <1>1, <1>3, <1>4

\* Whoever leads before or after the step extends its log in the ledger.
LEMMA LeaderExtends ==
  ASSUME NEW i \in Node, SoundStep(i), Leads(i, currentTerm[i]), log' = log
  PROVE  /\ currentTerm[i] \in DOMAIN ledger' /\ ledger'[currentTerm[i]] \in Log
         /\ Extends(log[i], ledger'[currentTerm[i]], currentTerm[i])
<1>1. CASE role[i] = "leader"
  <2>1. currentTerm[i] \in DOMAIN ledger /\ ledger[currentTerm[i]] = log[i]
    <3>1. \E e \in elected : e.term = currentTerm[i]
      BY <1>1 DEF SoundStep, ElectionInv, LeaderWasElected
    <3> QED  BY <1>1, <3>1, SoundLedger DEF SoundStep, CommitFacts, LedgerIsLeaders, Won
  <2> QED  BY <2>1, SoundLedger DEF SoundStep, LedgerGrows
<1>2. CASE role'[i] = "leader" /\ currentTerm'[i] = currentTerm[i]
  <2>1. currentTerm[i] \in Won' /\ ledger'[currentTerm[i]] = log[i]
    BY <1>2 DEF SoundStep
  <2> QED  BY <2>1, SoundLedger, ExtendsItself
<1> QED  BY <1>1, <1>2 DEF Leads

\* Requests for entries are from the ledger.
LEMMA RequestsFromLedgerStep ==
  ASSUME NEW i \in Node, SoundStep(i)
  PROVE  RequestsFromLedger'
<1> SUFFICES ASSUME NEW c \in Channel, NEW n \in DOMAIN net'[c],
                    net'[c][n].kind = "AppendReq"
             PROVE  RequestFromLedger(ledger', held', net'[c][n])
  BY DEF RequestsFromLedger
<1>1. PICK x : x = net'[c][n]
  OBVIOUS
<1>2. x \in AppendReq
  <2>1. net'[c] \in Seq(Message)
    BY DEF SoundStep, TypeOK
  <2>2. x \in Message
    BY <1>1, <2>1, ElementOfSeq, LenProperties
  <2> QED  BY <1>1, <2>2 DEF Message, AppendReq, AppendResp, VoteReq, VoteResp
<1>3. LedgerGrows(ledger, ledger') /\ \A k \in Node : held[k] \subseteq held'[k]
  BY DEF SoundStep, HeldGrows
<1>4. CASE Sent(c[1], c[2], x)
  <2>1. c = <<c[1], c[2]>>
    BY DEF Channel
  <2>2. RequestFromLedger(ledger, held, x)
    BY <1>1, <1>4, <2>1 DEF Sent, SoundStep, CommitFacts, RequestsFromLedger
  <2>3. RequestFromLedger(ledger', held', x)
    BY <1>2, <1>3, <2>2, RequestStays
  <2> QED  BY <1>1, <2>3
<1>5. CASE c[1] = i /\ Sends(i, c[2], x)
  <2>1. PICK next \in Nat \ {0} : x = AppendTo(i, c[2], currentTerm[i], next)
    BY <1>1, <1>5 DEF Sends
  <2>2. Leads(i, currentTerm[i]) /\ log' = log
    BY <1>1, <1>5 DEF Sends
  <2>3. PICK l, t, b : l = log[i] /\ t = currentTerm[i] /\ b = ledger'[t]
    OBVIOUS
  <2>4. t \in DOMAIN ledger' /\ b \in Log /\ Extends(l, b, t)
    BY <2>2, <2>3, LeaderExtends
  <2>5. /\ l \in Log /\ t \in Nat /\ x.term = t /\ x.prevIndex = next - 1
        /\ x.prevTerm = TermAt(l, next - 1) /\ x.entries = Slice(l, next)
        /\ x.leaderCommit = commitIndex[i] /\ x.leaderCommit \in Nat
    BY <1>2, <2>1, <2>3, SoundLedger DEF AppendTo, AppendReq
  <2>6. Committed(ledger', held', l, x.leaderCommit, t)
    <3>1. Committed(ledger, held, l, x.leaderCommit, t)
      BY <2>3, <2>5 DEF SoundStep, CommitFacts, CommitsChosen
    <3>2. t <= t
      BY <2>5
    <3> QED  BY <1>3, <2>5, <3>1, <3>2, CommittedStays
  <2>7. RequestFromLedger(ledger', held', x)
    BY <1>2, <2>3, <2>4, <2>5, <2>6, PartFromLedger
  <2> QED  BY <1>1, <2>7
<1> QED  BY <1>1, <1>4, <1>5 DEF SoundStep, CommitStep

\* What was held stays in the log of who held it, unless a later leader lacks it.
LEMMA HeldStaysStep ==
  ASSUME NEW i \in Node, SoundStep(i), LogsFromLedger'
  PROVE  HeldStays'
<1>0. /\ LedgerGrows(ledger, ledger') /\ HeldGrows /\ IsLedger(ledger) /\ HeldStays
      /\ LogsFromLedger /\ HistoryTypes'
  BY SoundLedger DEF SoundStep, CommitFacts
<1> SUFFICES ASSUME NEW k \in Node, NEW h \in held'[k]
             PROVE  /\ h[2] \in DOMAIN ledger' /\ h[2] <= currentTerm'[k]
                    /\ Holds(ledger'[h[2]], h[1], h[2])
                    /\ \/ Holds(log'[k], h[1], h[2])
                       \/ Overruled(ledger', h[1], h[2], currentTerm'[k])
  BY <1>0 DEF HeldStays, HeldGrows
<1>1. PICK n \in Nat, t \in Nat : h = <<n, t>>
  BY <1>0 DEF HistoryTypes
<1>2. PICK u, z, l, r : /\ u = currentTerm[k] /\ z = currentTerm'[k]
                        /\ l = log[k] /\ r = log'[k]
  OBVIOUS
<1>3. u \in Nat /\ z \in Nat /\ u <= z /\ l \in Log /\ r \in Log
  BY <1>2, SoundLedger
<1>4. CASE h \notin held[k]
  <2>1. t = z /\ n \in DOMAIN r /\ r[n].term = t
    BY <1>0, <1>1, <1>2, <1>4 DEF HeldGrows, Holds
  <2>2. t \in DOMAIN ledger' /\ n \in DOMAIN ledger'[t] /\ r[n] = ledger'[t][n]
    <3>1. n \in 1..n
      BY <1>1, <1>3, <2>1, LenProperties DEF Log
    <3> QED  BY <1>2, <2>1, <3>1 DEF LogsFromLedger, FromLedger
  <2> QED  BY <1>1, <1>2, <1>3, <2>1, <2>2 DEF Holds
<1>5. CASE h \in held[k]
  <2>1. /\ t \in DOMAIN ledger /\ t <= u /\ Holds(ledger[t], n, t)
        /\ Holds(l, n, t) \/ Overruled(ledger, n, t, u)
    BY <1>0, <1>1, <1>2, <1>5 DEF HeldStays
  <2>2. t \in DOMAIN ledger' /\ t <= z /\ Holds(ledger'[t], n, t)
    BY <1>0, <1>1, <1>3, <2>1, HoldsStays, SoundLedger
  <2>3. CASE Overruled(ledger, n, t, u)
    BY <1>0, <1>1, <1>2, <1>3, <2>2, <2>3, OverruledStays
  <2>4. CASE Holds(l, n, t) /\ r = l
    BY <1>1, <1>2, <2>2, <2>4
  <2>5. ASSUME Holds(l, n, t), NEW e \in Entry, r = Append(l, e)
        PROVE  Holds(r, n, t)
    BY <1>3, <2>5, AppendProperties, LenProperties DEF Holds, Log
  <2>6. ASSUME Holds(l, n, t), k = i, NEW j \in Peers(i), NEW m, Splices(i, j, m)
        PROVE  Holds(r, n, t) \/ Overruled(ledger, n, t, z)
    <3>1. PICK b, last : b = ledger[m.term] /\ last = m.prevIndex + Len(m.entries)
      OBVIOUS
    <3>2. /\ m.term = z /\ z \in DOMAIN ledger /\ b \in Log /\ last \in Nat
          /\ last <= Len(b) /\ last <= Len(r) /\ \A x \in 1..last : r[x] = b[x]
          /\ \/ r = l
             \/ Len(r) = last /\ \E x \in 1..last : x > Len(l) \/ l[x] # b[x]
      <4>1. m.term = z
        BY <1>2, <2>6 DEF Splices
      <4>2. LET x == log'[i]
            IN  /\ m.term \in DOMAIN ledger /\ b \in Log /\ last \in Nat
                /\ last <= Len(b) /\ last <= Len(x) /\ \A y \in 1..last : x[y] = b[y]
                /\ \/ x = log[i]
                   \/ Len(x) = last /\ \E y \in 1..last : y > Len(log[i]) \/ log[i][y] # b[y]
        BY <2>6, <3>1, SpliceFacts
      <4> QED  BY <1>2, <2>6, <4>1, <4>2
    <3>3. /\ Len(l) \in Nat /\ DOMAIN l = 1..Len(l) /\ Len(b) \in Nat
          /\ DOMAIN b = 1..Len(b) /\ Len(r) \in Nat /\ DOMAIN r = 1..Len(r)
      BY <1>3, <3>2, LenProperties DEF Log
    <3>4. n \in 1..Len(l) /\ l[n].term = t
      BY <2>6, <3>3 DEF Holds
    <3>5. CASE ~Holds(b, n, t)
      <4>1. t # z
        <5>1. t = z => Holds(b, n, t)
          BY <2>1, <3>1, <3>2
        <5> QED  BY <3>5, <5>1
      <4>2. t < z
        BY <1>1, <1>3, <2>1, <4>1
      <4> QED  BY <1>3, <3>1, <3>2, <3>5, <4>2 DEF Overruled
    <3>6. CASE Holds(b, n, t)
      <4>1. \A x \in 1..n : l[x] = b[x]
        <5>1. FromLedger(ledger, l, u) /\ FromLedger(ledger, b, z)
          BY <1>0, <1>2, <3>1, <3>2 DEF LogsFromLedger
        <5>2. n \in DOMAIN l /\ n \in DOMAIN b /\ l[n].term = b[n].term
          BY <3>3, <3>4, <3>6 DEF Holds
        <5> QED  BY <5>1, <5>2, SameUpTo
      <4>2. CASE r = l
        BY <2>6, <4>2
      <4>3. CASE Len(r) = last /\ \E x \in 1..last : x > Len(l) \/ l[x] # b[x]
        <5>1. PICK x \in 1..last : x > Len(l) \/ l[x] # b[x]
          BY <4>3
        <5>2. n < x
          <6>1. x \in 1..n => l[x] = b[x] /\ x <= Len(l)
            BY <3>3, <3>4, <4>1
          <6>2. x \in Nat /\ x >= 1
            BY <3>2
          <6>3. n \in Nat /\ (x <= n => x \in 1..n)
            BY <3>4, <6>2
          <6>4. x \notin 1..n
            BY <3>3, <5>1, <6>1, <6>2
          <6> QED  BY <6>2, <6>3, <6>4
        <5>3. n \in 1..last /\ n \in DOMAIN r
          <6>1. /\ last \in Nat /\ x \in Nat /\ x <= last /\ n \in Nat /\ n >= 1
                /\ Len(r) = last /\ DOMAIN r = 1..Len(r)
            BY <3>2, <3>3, <3>4, <4>3
          <6> QED  BY <5>2, <6>1
        <5>4. r[n] = b[n]
          BY <3>2, <5>3
        <5> QED  BY <3>6, <5>3, <5>4 DEF Holds
      <4> QED  BY <3>2, <4>2, <4>3
    <3> QED  BY <3>5, <3>6
  <2>7. CASE Holds(l, n, t)
    <3>1. \/ r = l
          \/ \E e \in Entry : r = Append(l, e)
          \/ k = i /\ \E j \in Peers(i) : \E m : Splices(i, j, m)
      BY <1>2, <1>3 DEF SoundStep, CommitStep, LogEffect, Peers, TypeOK
    <3>2. Holds(r, n, t) \/ Overruled(ledger, n, t, z)
      BY <2>5, <2>6, <2>7, <3>1
    <3>3. Overruled(ledger, n, t, z) => Overruled(ledger', n, t, z)
      <4>1. z <= z
        BY <1>3
      <4> QED  BY <1>0, <1>1, <1>3, <4>1, OverruledStays
    <3> QED  BY <1>1, <1>2, <2>2, <3>2, <3>3
  <2> QED  BY <2>1, <2>3, <2>7
<1> QED  BY <1>4, <1>5

\* Who is a candidate after a step and was in its term before was one then, and has
\* kept its log.
LEMMA CandidateKeepsLog ==
  ASSUME NEW i \in Node, SoundStep(i), NEW k \in Node, role'[k] = "candidate",
         currentTerm'[k] = currentTerm[k]
  PROVE  role[k] = "candidate" /\ log'[k] = log[k]
<1>1. CASE k # i
  BY <1>1 DEF SoundStep, CommitStep, ElectionStep, Peers
<1>2. CASE k = i
  <2>1. role[k] = "candidate"
    BY <1>2 DEF SoundStep, CommitStep, ElectionStep
  <2>2. log' = log
    BY <1>2 DEF SoundStep, CommitStep, LogEffect, StaysLeader, Splices
  <2> QED  BY <2>1, <2>2
<1> QED  BY <1>1, <1>2

\* Candidates keep their logs, so requests for votes stay true.
LEMMA VoteRequestsCurrentStep ==
  ASSUME NEW i \in Node, SoundStep(i)
  PROVE  VoteRequestsCurrent'
<1> SUFFICES ASSUME NEW c \in Channel, NEW n \in DOMAIN net'[c],
                    net'[c][n].kind = "VoteReq", ~net'[c][n].preVote
             PROVE  /\ net'[c][n].term <= currentTerm'[c[1]]
                    /\ role'[c[1]] = "candidate" /\ net'[c][n].term = currentTerm'[c[1]] =>
                         /\ net'[c][n].lastIndex = Len(log'[c[1]])
                         /\ net'[c][n].lastTerm = LastTerm(log'[c[1]])
  BY DEF VoteRequestsCurrent
<1>1. PICK x, k : x = net'[c][n] /\ k = c[1]
  OBVIOUS
<1>2. x.term \in Nat /\ k \in Node
  <2>1. net'[c] \in Seq(Message)
    BY DEF SoundStep, TypeOK
  <2>2. x \in Message
    BY <1>1, <2>1, ElementOfSeq, LenProperties
  <2> QED  BY <1>1, <2>2 DEF Message, AppendReq, AppendResp, VoteReq, VoteResp, Channel
<1>3. CASE Sent(c[1], c[2], x)
  <2>1. c = <<c[1], c[2]>>
    BY DEF Channel
  <2>2. /\ x.term <= currentTerm[k]
        /\ role[k] = "candidate" /\ x.term = currentTerm[k] =>
             x.lastIndex = Len(log[k]) /\ x.lastTerm = LastTerm(log[k])
    BY <1>1, <1>3, <2>1 DEF Sent, SoundStep, CommitFacts, VoteRequestsCurrent
  <2>3. x.term <= currentTerm'[k]
    BY <1>2, <2>2, SoundLedger
  <2>4. ASSUME role'[k] = "candidate", x.term = currentTerm'[k]
        PROVE  role[k] = "candidate" /\ x.term = currentTerm[k] /\ log'[k] = log[k]
    <3>1. x.term = currentTerm[k] /\ currentTerm'[k] = currentTerm[k]
      BY <1>2, <2>2, <2>4, SoundLedger
    <3> QED  BY <1>2, <2>4, <3>1, CandidateKeepsLog
  <2> QED  BY <1>1, <2>2, <2>3, <2>4
<1>4. CASE c[1] = i /\ Sends(i, c[2], x)
  BY <1>1, <1>2, <1>4 DEF Sends
<1> QED  BY <1>1, <1>3, <1>4 DEF SoundStep, CommitStep

\* What is newly held is of the term the holder is in.
LEMMA NewlyHeld ==
  ASSUME NEW i \in Node, SoundStep(i), NEW v \in Node, NEW h \in held'[v],
         NEW u \in Nat, h[2] < u, u <= currentTerm'[v]
  PROVE  h \in held[v] /\ \E n \in Nat, t \in Nat : h = <<n, t>>
<1>1. PICK n \in Nat, t \in Nat : h = <<n, t>>
  BY DEF SoundStep, HistoryTypes
<1>2. h[2] # currentTerm'[v]
  BY <1>1, SoundLedger
<1> QED  BY <1>1, <1>2 DEF SoundStep, HeldGrows

\* Whoever a vote is for has what the voter held.
LEMMA VotesUpToDateStep ==
  ASSUME NEW i \in Node, SoundStep(i)
  PROVE  VotesUpToDate'
<1> SUFFICES ASSUME NEW v \in Node, NEW c \in Peers(v), NEW t, Voted(v, c, t)'
             PROVE  /\ t <= currentTerm'[c]
                    /\ role'[c] = "candidate" /\ t = currentTerm'[c] =>
                         Covers(ledger', held'[v], log'[c], t)
  BY DEF VotesUpToDate
<1>0. /\ LedgerGrows(ledger, ledger') /\ c \in Node /\ IsLedger(ledger)
      /\ currentTerm[c] \in Nat /\ currentTerm'[c] \in Nat
      /\ currentTerm[c] <= currentTerm'[c] /\ currentTerm[v] \in Nat
      /\ currentTerm'[v] \in Nat /\ currentTerm[v] <= currentTerm'[v]
  BY SoundLedger DEF SoundStep, Peers
<1>1. CASE Voted(v, c, t)
  <2>1. t \in Nat /\ t <= currentTerm[v]
    BY <1>1, VotedNat, VoteBindsAt DEF SoundStep, ElectionInv
  <2>2. /\ t <= currentTerm[c]
        /\ role[c] = "candidate" /\ t = currentTerm[c] => Covers(ledger, held[v], log[c], t)
    BY <1>1, VotedTerm DEF SoundStep, CommitFacts, VotesUpToDate
  <2>3. ASSUME role'[c] = "candidate", t = currentTerm'[c]
        PROVE  Covers(ledger', held'[v], log'[c], t)
    <3>1. currentTerm'[c] = currentTerm[c]
      BY <1>0, <2>1, <2>2, <2>3
    <3>2. Covers(ledger, held[v], log[c], t) /\ log'[c] = log[c]
      BY <1>0, <2>2, <2>3, <3>1, CandidateKeepsLog
    <3> SUFFICES ASSUME NEW h \in held'[v], h[2] < t
                 PROVE  Holds(log'[c], h[1], h[2]) \/ Overruled(ledger', h[1], h[2], t)
      BY DEF Covers
    <3>3. PICK n \in Nat, x \in Nat : h = <<n, x>> /\ h \in held[v]
      BY <1>0, <2>1, NewlyHeld
    <3>4. Holds(log[c], n, x) \/ Overruled(ledger, n, x, t)
      BY <3>2, <3>3 DEF Covers
    <3>5. Overruled(ledger, n, x, t) => Overruled(ledger', n, x, t)
      <4>1. t <= t
        BY <2>1
      <4> QED  BY <1>0, <2>1, <3>3, <4>1, OverruledStays
    <3> QED  BY <3>2, <3>3, <3>4, <3>5
  <2>4. t <= currentTerm'[c]
    BY <1>0, <2>1, <2>2
  <2> QED  BY <2>3, <2>4
<1>2. CASE v = i /\ VotesFor(i, c, t)
  <2>1. currentTerm[i] <= t /\ currentTerm'[i] = t /\ log' = log /\ t \in Nat
    BY <1>0, <1>2 DEF VotesFor
  <2>2. PICK m : /\ Sent(c, i, m) /\ m.kind = "VoteReq" /\ ~m.preVote /\ m.term = t
                 /\ UpToDate(log[i], m.lastTerm, m.lastIndex)
    BY <1>2 DEF VotesFor
  <2>3. currentTerm'[c] = currentTerm[c] /\ role'[c] = role[c]
    BY <1>2 DEF SoundStep, CommitStep, ElectionStep, Peers
  <2>4. /\ t <= currentTerm[c]
        /\ role[c] = "candidate" /\ t = currentTerm[c] =>
             m.lastIndex = Len(log[c]) /\ m.lastTerm = LastTerm(log[c])
    <3>1. <<c, i>> \in Channel /\ <<c, i>>[1] = c
      BY <1>2 DEF Channel, Peers
    <3>2. PICK n \in DOMAIN net[<<c, i>>] : net[<<c, i>>][n] = m
      BY <2>2 DEF Sent
    <3> QED  BY <2>2, <3>1, <3>2 DEF SoundStep, CommitFacts, VoteRequestsCurrent
  <2>5. ASSUME role'[c] = "candidate", t = currentTerm'[c], NEW h \in held'[i], h[2] < t
        PROVE  Holds(log[c], h[1], h[2]) \/ Overruled(ledger', h[1], h[2], t)
    <3>1. PICK n \in Nat, x \in Nat : h = <<n, x>> /\ h \in held[i]
      <4>1. t <= currentTerm'[i]
        BY <2>1
      <4> QED  BY <2>1, <2>5, <4>1, NewlyHeld
    <3>2. Holds(log[i], n, x) \/ Overruled(ledger, n, x, currentTerm[i])
      BY <3>1 DEF SoundStep, CommitFacts, HeldStays
    <3>3. Overruled(ledger, n, x, currentTerm[i]) => Overruled(ledger', n, x, t)
      BY <1>0, <1>2, <2>1, <3>1, OverruledStays
    <3>4. Overruled(ledger, n, x, t) => Overruled(ledger', n, x, t)
      <4>1. t <= t
        BY <2>1
      <4> QED  BY <1>0, <2>1, <3>1, <4>1, OverruledStays
    <3>5. ASSUME Holds(log[i], n, x)
          PROVE  Holds(log[c], n, x) \/ Overruled(ledger, n, x, t)
      <4>1. PICK l, q, z : l = log[i] /\ q = log[c] /\ z = currentTerm[i]
        OBVIOUS
      <4>2. l \in Log /\ q \in Log /\ FromLedger(ledger, l, z) /\ FromLedger(ledger, q, t)
        BY <1>0, <2>3, <2>5, <4>1, SoundLedger DEF SoundStep, CommitFacts, LogsFromLedger
      <4>3. UpToDate(l, LastTerm(q), Len(q))
        BY <2>2, <2>3, <2>4, <2>5, <4>1
      <4> QED  BY <1>0, <2>1, <3>5, <4>1, <4>2, <4>3, UpToDateCovers
    <3> QED  BY <3>1, <3>2, <3>3, <3>4, <3>5
  <2> QED  BY <1>2, <2>1, <2>3, <2>4, <2>5 DEF Covers
<1> QED  BY <1>1, <1>2 DEF SoundStep, CommitStep

\* A leader has what its voters held before.
LEMMA VotersCoveredStep ==
  ASSUME NEW i \in Node, SoundStep(i)
  PROVE  VotersCovered'
<1> SUFFICES ASSUME NEW e \in elected', NEW v \in e.voters, NEW h \in held'[v],
                    h[2] < e.term
             PROVE  \/ Holds(ledger'[e.term], h[1], h[2])
                    \/ Overruled(ledger', h[1], h[2], e.term - 1)
  BY DEF VotersCovered
<1>0. /\ LedgerGrows(ledger, ledger') /\ e.term \in Nat /\ e.term > 0 /\ v \in Node
      /\ e.term - 1 \in Nat
  <2>1. e.term \in Nat /\ v \in Node
    BY DEF SoundStep, TypeOK, Election
  <2>2. e.term \in Won'
    BY DEF Won
  <2>3. e.term > 0
    BY <2>2, LedgerIsLeadersStep DEF LedgerIsLeaders
  <2> QED  BY <2>1, <2>3 DEF SoundStep
<1>1. PICK u : u = e.term
  OBVIOUS
<1>2. CASE e \in elected
  <2>1. u <= currentTerm[v]
    BY <1>1, <1>2 DEF SoundStep, ElectionInv, ElectionBinds
  <2>2. PICK n \in Nat, t \in Nat : h = <<n, t>> /\ h \in held[v]
    <3>1. u <= currentTerm'[v]
      BY <1>0, <1>1, <2>1, SoundLedger
    <3> QED  BY <1>0, <1>1, <3>1, NewlyHeld
  <2>3. Holds(ledger[u], n, t) \/ Overruled(ledger, n, t, u - 1)
    BY <1>1, <1>2, <2>2 DEF SoundStep, CommitFacts, VotersCovered
  <2>4. u \in DOMAIN ledger
    BY <1>1, <1>2, SoundLedger DEF Won
  <2>5. Overruled(ledger, n, t, u - 1) => Overruled(ledger', n, t, u - 1)
    <3>1. u - 1 \in Nat /\ u - 1 <= u - 1
      BY <1>0, <1>1
    <3> QED  BY <1>0, <2>2, <3>1, OverruledStays
  <2> QED  BY <1>0, <1>1, <2>2, <2>3, <2>4, <2>5, HoldsStays
<1>3. CASE e \notin elected
  <2>1. Wins(i)
    BY <1>3 DEF SoundStep, CommitStep, ElectionStep
  <2>2. PICK V \in SUBSET Node :
          /\ \A x \in V \ {i} : Voted(x, i, currentTerm[i])
          /\ elected' = elected \cup {[term |-> currentTerm[i], leader |-> i, voters |-> V]}
    BY <2>1 DEF Wins
  <2>3. e = [term |-> currentTerm[i], leader |-> i, voters |-> V]
    BY <1>3, <2>2
  <2>4. u = currentTerm[i] /\ v \in V /\ currentTerm'[i] = u /\ role'[i] = "leader"
        /\ role[i] = "candidate" /\ u \in Nat /\ u > 0
    BY <1>0, <1>1, <2>1, <2>3 DEF Wins
  <2>5. log' = log /\ ledger'[u] = log[i] /\ u \notin Won
    <3>1. log' = log
      BY <2>4 DEF SoundStep, CommitStep, LogEffect, StaysLeader, Splices
    <3>2. ledger'[u] = log'[i]
      BY <2>4 DEF SoundStep
    <3>3. u \notin Won
      BY <2>1, <2>4, NewlyWon DEF SoundStep, CommitStep
    <3> QED  BY <3>1, <3>2, <3>3
  <2>6. \A n, t : Overruled(ledger, n, t, u) => Overruled(ledger, n, t, u - 1)
    <3>1. \A w \in DOMAIN ledger : w \in Nat /\ w # u
      BY <2>5, SoundLedger DEF IsLedger
    <3>2. \A w \in DOMAIN ledger : w <= u => w <= u - 1
      BY <2>4, <3>1
    <3> QED  BY <3>2 DEF Overruled
  <2>7. PICK n \in Nat, t \in Nat : h = <<n, t>> /\ h \in held[v]
    <3>1. u <= currentTerm'[v]
      <4>1. CASE v = i
        BY <2>4, <4>1
      <4>2. CASE v # i
        <5>1. Voted(v, i, u) /\ i \in Peers(v)
          BY <2>2, <2>4, <4>2 DEF Peers
        <5>2. u <= currentTerm[v]
          BY <1>0, <5>1, VoteBindsAt DEF SoundStep, ElectionInv
        <5> QED  BY <1>0, <2>4, <5>2, SoundLedger
      <4> QED  BY <4>1, <4>2
    <3> QED  BY <1>0, <1>1, <3>1, NewlyHeld
  <2>8. Holds(log[i], n, t) \/ Overruled(ledger, n, t, u)
    <3>1. CASE v = i
      BY <2>4, <2>7, <3>1 DEF SoundStep, CommitFacts, HeldStays
    <3>2. CASE v # i
      <4>1. Voted(v, i, u) /\ i \in Peers(v)
        BY <2>2, <2>4, <3>2 DEF Peers
      <4>2. Covers(ledger, held[v], log[i], u)
        BY <1>0, <2>4, <4>1, VotedTerm DEF SoundStep, CommitFacts, VotesUpToDate
      <4> QED  BY <1>1, <2>7, <4>2 DEF Covers
    <3> QED  BY <3>1, <3>2
  <2>9. Overruled(ledger, n, t, u - 1) => Overruled(ledger', n, t, u - 1)
    <3>1. u - 1 \in Nat /\ u - 1 <= u - 1
      BY <1>0, <1>1
    <3> QED  BY <1>0, <2>7, <3>1, OverruledStays
  <2> QED  BY <1>1, <2>5, <2>6, <2>7, <2>8, <2>9
<1> QED  BY <1>2, <1>3

\* A match index that is backed is backed for good.
LEMMA BackedStays ==
  ASSUME NEW old, NEW new, LedgerGrows(old, new), NEW hs, NEW more, hs \subseteq more,
         NEW match \in Nat, NEW t \in DOMAIN old, Backed(old, hs, match, t)
  PROVE  Backed(new, more, match, t)
<1>1. /\ Len(old[t]) \in Nat /\ Len(new[t]) \in Nat /\ Len(old[t]) <= Len(new[t])
      /\ \A n \in 1..Len(old[t]) : new[t][n] = old[t][n]
  BY LenProperties DEF LedgerGrows, Extends, Log
<1>2. \A n \in 1..match : n \in 1..Len(old[t])
  BY <1>1 DEF Backed
<1> QED  BY <1>1, <1>2 DEF Backed

\* The match index that a follower claims is backed.
LEMMA ClaimIsBacked ==
  ASSUME NEW i \in Node, SoundStep(i), NEW j \in Peers(i), NEW m, Splices(i, j, m)
  PROVE  /\ \E e \in elected : e.leader = j /\ e.term = m.term
         /\ m.term \in DOMAIN ledger
         /\ Backed(ledger, held'[i], Len(log'[i]), m.term)
<1>1. \E e \in elected : e.leader = j /\ e.term = m.term
  <2>1. PICK n \in DOMAIN net[<<j, i>>] : net[<<j, i>>][n] = m
    BY DEF Splices, Sent
  <2>2. m.kind = "AppendReq"
    BY DEF Splices, AppendReq
  <2>3. j \in Node /\ i \in Peers(j)
    BY DEF Peers
  <2> QED  BY <2>1, <2>2, <2>3 DEF SoundStep, ElectionInv, AppendsComeFromElected
<1>2. PICK b, l, r, t, last : /\ b = ledger[m.term] /\ l = log[i] /\ r = log'[i]
                              /\ t = m.term /\ last = m.prevIndex + Len(m.entries)
  OBVIOUS
<1>3. LET x == log'[i]
      IN  /\ m.term \in DOMAIN ledger /\ b \in Log /\ last \in Nat
          /\ last <= Len(b) /\ last <= Len(x) /\ \A y \in 1..last : x[y] = b[y]
          /\ \/ x = log[i]
             \/ Len(x) = last /\ \E y \in 1..last : y > Len(log[i]) \/ log[i][y] # b[y]
  BY <1>2, SpliceFacts
<1>4. /\ t \in DOMAIN ledger /\ b \in Log /\ last \in Nat /\ last <= Len(b)
      /\ last <= Len(r) /\ \A y \in 1..last : r[y] = b[y]
      /\ r = l \/ Len(r) = last
  BY <1>2, <1>3
<1>5. l \in Log /\ r \in Log /\ Len(r) \in Nat /\ Len(b) \in Nat /\ DOMAIN r = 1..Len(r)
  BY <1>2, <1>4, SoundLedger, LenProperties DEF Log
<1>6. Len(r) <= Len(b) /\ \A y \in 1..Len(r) : r[y] = b[y]
  <2>0. last \in Nat /\ Len(r) \in Nat /\ last <= Len(r)
    BY <1>4, <1>5
  <2>1. CASE Len(r) <= last
    <3>1. Len(r) = last
      BY <2>0, <2>1
    <3> QED  BY <1>4, <3>1
  <2>2. CASE Len(r) > last
    <3>1. r = l /\ LastTerm(r) = t
      BY <1>2, <1>4, <1>5, <2>2 DEF Splices, SoundStep
    <3>2. r # <<>>
      <4>1. r = <<>> => Len(r) = 0
        OBVIOUS
      <4> QED  BY <2>0, <2>2, <4>1
    <3>3. IsLedger(ledger) /\ FromLedger(ledger, l, currentTerm[i])
      BY <1>2, SoundLedger DEF SoundStep, CommitFacts, LogsFromLedger
    <3>4. /\ Len(l) <= Len(ledger[LastTerm(l)])
          /\ \A y \in 1..Len(l) : l[y] = ledger[LastTerm(l)][y]
      BY <1>5, <3>1, <3>2, <3>3, LastNamesLedger
    <3>5. ledger[LastTerm(l)] = b
      BY <1>2, <3>1
    <3>6. Len(l) <= Len(b) /\ \A y \in 1..Len(l) : l[y] = b[y]
      BY <3>4, <3>5
    <3>7. r = l
      BY <3>1
    <3> QED  BY <3>6, <3>7
  <2> QED  BY <2>0, <2>1, <2>2
<1>7. ASSUME NEW n \in 1..Len(r), b[n].term = t PROVE <<n, t>> \in held'[i]
  <2>1. n \in DOMAIN r /\ r[n].term = t
    BY <1>5, <1>6, <1>7
  <2>2. currentTerm'[i] = t
    BY <1>2 DEF Splices
  <2> QED  BY <1>2, <2>1, <2>2 DEF SoundStep, HeldGrows
<1> QED  BY <1>1, <1>2, <1>4, <1>6, <1>7 DEF Backed

\* What a leader takes for its peers' matches is backed.
LEMMA MatchesBackedStep ==
  ASSUME NEW i \in Node, SoundStep(i)
  PROVE  MatchesBacked'
<1>0. /\ LedgerGrows(ledger, ledger') /\ elected \subseteq elected'
      /\ \A k \in Node : held[k] \subseteq held'[k]
      /\ MatchesBacked /\ LedgerIsLeaders /\ DOMAIN ledger = Won
  BY SoundLedger DEF SoundStep, CommitStep, ElectionStep, Wins, HeldGrows, CommitFacts
<1>1. ASSUME NEW k \in Node, NEW j \in Peers(k), NEW n \in DOMAIN net'[<<k, j>>],
             net'[<<k, j>>][n].kind = "AppendResp", net'[<<k, j>>][n].success
      PROVE  /\ \E e \in elected' : e.leader = j /\ e.term = net'[<<k, j>>][n].term
             /\ Backed(ledger', held'[k], net'[<<k, j>>][n].matchIndex,
                       net'[<<k, j>>][n].term)
  <2>1. PICK x : x = net'[<<k, j>>][n]
    OBVIOUS
  <2>2. <<k, j>> \in Channel /\ <<k, j>>[1] = k /\ <<k, j>>[2] = j
    BY DEF Channel, Peers
  <2>3. x.matchIndex \in Nat
    <3>1. net'[<<k, j>>] \in Seq(Message)
      BY <2>2 DEF SoundStep, TypeOK
    <3>2. x \in Message
      BY <2>1, <3>1, ElementOfSeq, LenProperties
    <3> QED  BY <1>1, <2>1, <3>2 DEF Message, AppendReq, AppendResp, VoteReq, VoteResp
  <2>4. CASE Sent(k, j, x)
    <3>1. /\ \E e \in elected : e.leader = j /\ e.term = x.term
          /\ Backed(ledger, held[k], x.matchIndex, x.term)
      BY <1>0, <1>1, <2>1, <2>4 DEF Sent, MatchesBacked
    <3>2. x.term \in DOMAIN ledger
      BY <1>0, <3>1 DEF Won
    <3>3. Backed(ledger', held'[k], x.matchIndex, x.term)
      BY <1>0, <2>3, <3>1, <3>2, BackedStays
    <3> QED  BY <1>0, <2>1, <3>1, <3>3
  <2>5. CASE k = i /\ Sends(i, j, x)
    <3>1. PICK m : Splices(i, j, m) /\ x.term = m.term /\ x.matchIndex = Len(log'[i])
      BY <1>1, <2>1, <2>5 DEF Sends
    <3>2. /\ \E e \in elected : e.leader = j /\ e.term = x.term
          /\ x.term \in DOMAIN ledger /\ Backed(ledger, held'[i], x.matchIndex, x.term)
      BY <2>5, <3>1, ClaimIsBacked
    <3>3. Backed(ledger', held'[i], x.matchIndex, x.term)
      BY <1>0, <2>3, <3>2, BackedStays
    <3> QED  BY <1>0, <2>1, <2>5, <3>2, <3>3
  <2> QED  BY <2>1, <2>2, <2>4, <2>5 DEF SoundStep, CommitStep
<1>2. ASSUME NEW a \in Node, role'[a] = "leader", NEW k \in Peers(a)
      PROVE  Backed(ledger', held'[k], matchIndex'[a][k], currentTerm'[a])
  <2>1. PICK t, x : t = currentTerm'[a] /\ x = matchIndex'[a][k]
    OBVIOUS
  <2>2. k \in Node /\ x \in Nat
    BY <2>1 DEF Peers, SoundStep, TypeOK
  <2>3. ASSUME role[a] = "leader", currentTerm[a] = t
        PROVE  t \in DOMAIN ledger
    <3>1. \E e \in elected : e.term = t
      BY <2>3 DEF SoundStep, ElectionInv, LeaderWasElected
    <3> QED  BY <1>0, <3>1 DEF Won
  <2>4. ASSUME role[a] = "leader", currentTerm[a] = t, matchIndex'[a][k] = matchIndex[a][k]
        PROVE  Backed(ledger', held'[k], x, t)
    <3>1. Backed(ledger, held[k], x, t)
      BY <1>0, <2>1, <2>4 DEF MatchesBacked
    <3> QED  BY <1>0, <2>2, <2>3, <2>4, <3>1, BackedStays
  <2>5. CASE a # i
    BY <1>2, <2>1, <2>4, <2>5 DEF SoundStep, CommitStep, ElectionStep, Peers
  <2>6. CASE a = i /\ x = 0
    <3>1. ledger'[t] \in Log
      BY <1>2, <2>1, SoundLedger DEF SoundStep
    <3>2. Len(ledger'[t]) \in Nat
      BY <3>1, LenProperties DEF Log
    <3> QED  BY <2>1, <2>6, <3>2 DEF Backed
  <2>7. CASE a = i /\ StaysLeader(i) /\ matchIndex'[i][k] = matchIndex[i][k]
    BY <2>1, <2>4, <2>7 DEF StaysLeader
  <2>8. CASE a = i /\ StaysLeader(i) /\
             \E m : /\ Sent(k, i, m) /\ m.kind = "AppendResp" /\ m.success
                    /\ m.term = currentTerm[i] /\ matchIndex'[i][k] = m.matchIndex
    <3>1. PICK m : /\ Sent(k, i, m) /\ m.kind = "AppendResp" /\ m.success
                   /\ m.term = currentTerm[i] /\ matchIndex'[i][k] = m.matchIndex
      BY <2>8
    <3>2. k \in Node /\ i \in Peers(k) /\ m.term = t /\ m.matchIndex = x
      BY <2>1, <2>8, <3>1 DEF Peers, StaysLeader
    <3>3. PICK n \in DOMAIN net[<<k, i>>] : net[<<k, i>>][n] = m
      BY <3>1 DEF Sent
    <3>4. Backed(ledger, held[k], x, t)
      BY <1>0, <3>1, <3>2, <3>3 DEF MatchesBacked
    <3>5. t \in DOMAIN ledger
      BY <2>3, <2>8, <3>1, <3>2 DEF StaysLeader
    <3> QED  BY <1>0, <2>1, <2>2, <3>4, <3>5, BackedStays
  <2> QED  BY <1>2, <2>1, <2>5, <2>6, <2>7, <2>8 DEF SoundStep, CommitStep, Learns
<1> QED  BY <1>1, <1>2 DEF MatchesBacked

\* A chosen entry of a ledger, and all before it, are in the ledgers of all later terms.
LEMMA ChosenInLater ==
  ASSUME TypeOK, ElectionInv, HistoryTypes, CommitFacts,
         NEW t \in DOMAIN ledger, NEW u \in DOMAIN ledger, t <= u,
         NEW x \in DOMAIN ledger[t], Chosen(held, x, t), NEW n \in 1..x
  PROVE  n \in DOMAIN ledger[u] /\ ledger[u][n] = ledger[t][n]
<1>1. t \in Nat /\ u \in Nat
  BY WonTerms DEF HistoryTypes
<1>2. CASE t = u
  <2>1. DOMAIN ledger[t] = 1..Len(ledger[t]) /\ Len(ledger[t]) \in Nat
    BY LenProperties DEF HistoryTypes, Log
  <2> QED  BY <1>2, <2>1
<1>3. CASE t < u
  <2>1. Holds(ledger[u], x, t)
    BY <1>1, <1>3, LeadersHaveChosen DEF CommitFacts, ElectionInv
  <2>2. \A k \in 1..x : ledger[u][k] = ledger[t][k]
    BY <2>1 DEF Holds, CommitFacts, LogsFromLedger, FromLedger
  <2>3. DOMAIN ledger[u] = 1..Len(ledger[u]) /\ Len(ledger[u]) \in Nat
    BY LenProperties DEF HistoryTypes, Log
  <2>4. n \in DOMAIN ledger[u]
    BY <2>1, <2>3 DEF Holds
  <2> QED  BY <2>2, <2>4
<1> QED  BY <1>1, <1>2, <1>3

\* i's entry at index n is that of t's ledger, where a majority had one at n or beyond.
InChosen(i, n, t) ==
  /\ t <= currentTerm[i] /\ n \in DOMAIN log[i] /\ log[i][n] = ledger[t][n]
  /\ \E x \in DOMAIN ledger[t] : Chosen(held, x, t) /\ n \in 1..x

\* So is every entry that i has committed.
LEMMA CommittedInChosen ==
  ASSUME TypeOK, HistoryTypes, CommitFacts, NEW i \in Node, NEW n \in 1..commitIndex[i]
  PROVE  \E t \in DOMAIN ledger : InChosen(i, n, t)
<1>1. PICK l, c : l = log[i] /\ c = commitIndex[i]
  OBVIOUS
<1>2. /\ l \in Log /\ Len(l) \in Nat /\ DOMAIN l = 1..Len(l) /\ c \in Nat
      /\ n \in Nat /\ n >= 1 /\ n <= c
  <2>1. l \in Log /\ c \in Nat
    BY <1>1 DEF TypeOK
  <2> QED  BY <1>1, <2>1, LenProperties DEF Log
<1>3. c # 0 /\ Committed(ledger, held, l, c, currentTerm[i])
  BY <1>1, <1>2 DEF CommitFacts, CommitsChosen
<1>4. PICK t \in DOMAIN ledger : \E x \in DOMAIN ledger[t] :
        /\ t <= currentTerm[i] /\ Chosen(held, x, t) /\ c <= x
        /\ c <= Len(l) /\ \A k \in 1..c : l[k] = ledger[t][k]
  BY <1>3 DEF Committed
<1>5. PICK x \in DOMAIN ledger[t] :
        /\ t <= currentTerm[i] /\ Chosen(held, x, t) /\ c <= x
        /\ c <= Len(l) /\ \A k \in 1..c : l[k] = ledger[t][k]
  BY <1>4
<1>6. x \in Nat
  BY LenProperties DEF HistoryTypes, Log
<1>7. n \in 1..c /\ n \in 1..x /\ n \in DOMAIN l
  BY <1>2, <1>5, <1>6
<1> QED  BY <1>1, <1>5, <1>7 DEF InChosen

\* What i had committed survives a splice: the leader that asks has it.
LEMMA SpliceKeepsCommitted ==
  ASSUME NEW i \in Node, SoundStep(i), NEW j \in Peers(i), NEW m, Splices(i, j, m),
         NEW n \in 1..commitIndex[i]
  PROVE  n \in DOMAIN log[i] /\ n \in DOMAIN log'[i] /\ log'[i][n] = log[i][n]
<1>1. PICK b, l, r, c, last : /\ b = ledger[m.term] /\ l = log[i] /\ r = log'[i]
                              /\ c = commitIndex[i] /\ last = m.prevIndex + Len(m.entries)
  OBVIOUS
<1>2. /\ m.term \in DOMAIN ledger /\ m.term \in Nat /\ b \in Log /\ last \in Nat
      /\ last <= Len(b) /\ last <= Len(r) /\ \A y \in 1..last : r[y] = b[y]
      /\ \/ r = l
         \/ Len(r) = last /\ \E y \in 1..last : y > Len(l) \/ l[y] # b[y]
  <2>1. LET x == log'[i]
        IN  /\ m.term \in DOMAIN ledger /\ m.term \in Nat /\ b \in Log /\ last \in Nat
            /\ last <= Len(b) /\ last <= Len(x) /\ \A y \in 1..last : x[y] = b[y]
            /\ \/ x = log[i]
               \/ Len(x) = last /\ \E y \in 1..last : y > Len(log[i]) \/ log[i][y] # b[y]
    BY <1>1, SpliceFacts
  <2> QED  BY <1>1, <2>1
<1>3. /\ l \in Log /\ r \in Log /\ c \in Nat /\ n \in Nat /\ n >= 1 /\ n <= c
      /\ currentTerm[i] \in Nat /\ currentTerm[i] <= m.term
  <2>1. l \in Log /\ r \in Log /\ currentTerm[i] \in Nat
    BY <1>1, SoundLedger
  <2>2. c \in Nat
    BY <1>1 DEF SoundStep, TypeOK
  <2>3. currentTerm[i] <= m.term
    BY <1>2, <2>1 DEF Splices
  <2> QED  BY <1>1, <2>1, <2>2, <2>3
<1>4. /\ Len(l) \in Nat /\ DOMAIN l = 1..Len(l) /\ Len(b) \in Nat
      /\ DOMAIN b = 1..Len(b) /\ Len(r) \in Nat /\ DOMAIN r = 1..Len(r)
  BY <1>2, <1>3, LenProperties DEF Log
<1>5. \A k \in 1..c : k \in DOMAIN l /\ l[k] = b[k]
  <2> SUFFICES ASSUME NEW k \in 1..c PROVE k \in DOMAIN l /\ l[k] = b[k]
    OBVIOUS
  <2>1. PICK t \in DOMAIN ledger : InChosen(i, k, t)
    BY <1>1, CommittedInChosen DEF SoundStep
  <2>2. t <= m.term
    <3>1. t \in Nat
      BY SoundLedger DEF IsLedger
    <3> QED  BY <1>2, <1>3, <2>1, <3>1 DEF InChosen
  <2>3. ledger[m.term][k] = ledger[t][k]
    BY <1>2, <2>1, <2>2, ChosenInLater DEF SoundStep, InChosen
  <2> QED  BY <1>1, <2>1, <2>3 DEF InChosen
<1>6. n \in 1..Len(l) /\ l[n] = b[n]
  <2>1. n \in 1..c
    BY <1>3
  <2> QED  BY <1>3, <1>4, <1>5, <2>1
<1>7. n \in DOMAIN r /\ r[n] = l[n]
  <2>1. CASE r = l
    BY <1>4, <1>6, <2>1
  <2>2. CASE n <= last
    <3>0. last \in Nat /\ last <= Len(r) /\ Len(r) \in Nat /\ n \in Nat /\ n >= 1
      BY <1>2, <1>3, <1>4
    <3>1. n \in 1..last /\ n \in 1..Len(r)
      BY <2>2, <3>0
    <3> QED  BY <1>2, <1>4, <1>6, <3>1
  <2>3. CASE n > last /\ \E y \in 1..last : y > Len(l) \/ l[y] # b[y]
    <3>1. PICK y \in 1..last : y > Len(l) \/ l[y] # b[y]
      BY <2>3
    <3>2. y \in 1..c /\ y <= Len(l)
      <4>1. y \in Nat /\ y >= 1 /\ y <= last /\ last \in Nat
        BY <1>2
      <4> QED  BY <1>3, <1>4, <1>5, <2>3, <4>1
    <3> QED  BY <1>4, <1>5, <3>1, <3>2
  <2> QED  BY <1>2, <1>3, <2>1, <2>2, <2>3
<1> QED  BY <1>1, <1>4, <1>6, <1>7

\* No sound step takes a commit back, or drops or rewrites a committed entry.
LEMMA SoundStepKeepsCommitted ==
  ASSUME NEW i \in Node, SoundStep(i), NEW k \in Node
  PROVE  /\ commitIndex[k] <= commitIndex'[k]
         /\ \A n \in 1..commitIndex[k] : n \in DOMAIN log'[k] /\ log'[k][n] = log[k][n]
<1>1. PICK l, r, c : l = log[k] /\ r = log'[k] /\ c = commitIndex[k]
  OBVIOUS
<1>2. /\ l \in Log /\ r \in Log /\ c \in Nat /\ Len(r) \in Nat /\ DOMAIN r = 1..Len(r)
      /\ \A n \in 1..c : n \in DOMAIN l
  <2>1. l \in Log /\ r \in Log /\ c \in Nat
    BY <1>1 DEF SoundStep, TypeOK
  <2>2. \A n \in 1..c : n \in DOMAIN l
    BY <1>1, CommittedInChosen DEF SoundStep, InChosen
  <2> QED  BY <2>1, <2>2, LenProperties DEF Log
<1>3. CASE r = l /\ commitIndex'[k] = c
  BY <1>1, <1>2, <1>3
<1>4. CASE k = i /\ log' = log /\ commitIndex'[i] \in Committable(i, matchIndex'[i])
  <2>1. commitIndex'[i] \in (c + 1)..Len(l) /\ r = l
    BY <1>1, <1>4 DEF Committable
  <2>2. Len(l) \in Nat
    BY <1>2, <2>1
  <2>3. c <= commitIndex'[i]
    BY <1>2, <2>1, <2>2
  <2> QED  BY <1>1, <1>2, <1>4, <2>1, <2>3
<1>5. ASSUME NEW e \in Entry, r = Append(l, e), commitIndex'[k] = c
      PROVE  /\ c <= commitIndex'[k]
             /\ \A n \in 1..c : n \in DOMAIN r /\ r[n] = l[n]
  <2>1. /\ DOMAIN l = 1..Len(l) /\ DOMAIN r = 1..(Len(l) + 1) /\ Len(l) \in Nat
        /\ \A n \in 1..Len(l) : r[n] = l[n]
    BY <1>2, <1>5, AppendProperties, LenProperties DEF Log
  <2>2. \A n \in 1..Len(l) : n \in 1..(Len(l) + 1)
    BY <2>1
  <2> QED  BY <1>2, <1>5, <2>1, <2>2
<1>6. ASSUME k = i, NEW j \in Peers(i), NEW m, Splices(i, j, m)
      PROVE  /\ c <= commitIndex'[k]
             /\ \A n \in 1..c : n \in DOMAIN r /\ r[n] = l[n]
  <2>1. \A n \in 1..c : n \in DOMAIN r /\ r[n] = l[n]
    BY <1>1, <1>6, SpliceKeepsCommitted
  <2>2. c <= Len(r)
    <3>1. c # 0 => c \in 1..c
      BY <1>2
    <3> QED  BY <1>2, <2>1, <3>1
  <2>3. commitIndex'[k] = IF m.leaderCommit > c THEN Min2(m.leaderCommit, Len(r)) ELSE c
    BY <1>1, <1>6 DEF Splices
  <2>4. m.leaderCommit \in Nat
    BY <1>6 DEF Splices, AppendReq
  <2>5. c <= commitIndex'[k]
    BY <1>2, <2>2, <2>3, <2>4 DEF Min2
  <2> QED  BY <2>1, <2>5
<1>7. CASE k # i
  BY <1>1, <1>3, <1>7 DEF SoundStep, CommitStep, Peers
<1>8. CASE k = i
  <2>1. \/ commitIndex'[k] = c /\ r = l
        \/ log' = log /\ commitIndex'[i] \in Committable(i, matchIndex'[i])
        \/ commitIndex'[k] = c /\ \E e \in Entry : r = Append(l, e)
        \/ \E j \in Peers(i) : \E m : Splices(i, j, m)
    BY <1>1, <1>8 DEF SoundStep, CommitStep, LogEffect, TypeOK
  <2> QED  BY <1>1, <1>3, <1>4, <1>5, <1>6, <1>8, <2>1
<1> QED  BY <1>7, <1>8

\* A node that leads commits what was chosen.
LEMMA CommittableWasChosen ==
  ASSUME NEW i \in Node, SoundStep(i), HeldStays', MatchesBacked', StaysLeader(i), log' = log,
         NEW n \in Committable(i, matchIndex'[i])
  PROVE  Committed(ledger', held', log'[i], n, currentTerm'[i])
<1>1. PICK l, t : l = log[i] /\ t = currentTerm[i]
  OBVIOUS
<1>2. /\ l \in Log /\ Len(l) \in Nat /\ DOMAIN l = 1..Len(l) /\ t \in Nat /\ t <= t
      /\ t \in DOMAIN ledger' /\ ledger'[t] = l /\ currentTerm'[i] = t
      /\ commitIndex[i] \in Nat
  <2>1. l \in Log /\ t \in Nat /\ commitIndex[i] \in Nat
    BY <1>1, SoundLedger DEF SoundStep, TypeOK
  <2>2. currentTerm'[i] = t /\ role'[i] = "leader"
    BY <1>1 DEF StaysLeader
  <2>3. t \in DOMAIN ledger' /\ ledger'[t] = l
    BY <1>1, <2>2, SoundLedger DEF SoundStep
  <2> QED  BY <2>1, <2>2, <2>3, LenProperties DEF Log
<1>3. /\ n \in 1..Len(l) /\ l[n].term = t /\ IsQuorum(Reached(i, matchIndex'[i], n))
      /\ n \in Nat
  BY <1>1, <1>2 DEF Committable
<1>4. ASSUME NEW k \in Reached(i, matchIndex'[i], n)
      PROVE  k \in Node /\ <<n, t>> \in held'[k]
  <2>1. k \in Node
    BY DEF Reached
  <2>2. CASE k = i
    BY <1>1, <1>2, <1>3, <2>2 DEF HeldStays
  <2>3. CASE k # i
    <3>1. matchIndex'[i][k] >= n /\ matchIndex'[i][k] \in Nat
      BY <2>1, <2>3 DEF Reached, SoundStep, TypeOK
    <3>2. Backed(ledger', held'[k], matchIndex'[i][k], t)
      BY <1>2, <2>1, <2>3 DEF MatchesBacked, StaysLeader, Peers
    <3>3. n \in 1..matchIndex'[i][k]
      BY <1>3, <3>1
    <3> QED  BY <1>2, <1>3, <2>1, <3>2, <3>3 DEF Backed
  <2> QED  BY <2>1, <2>2, <2>3
<1>5. Chosen(held', n, t)
  <2>1. Reached(i, matchIndex'[i], n) \subseteq {k \in Node : <<n, t>> \in held'[k]}
    BY <1>4
  <2>2. Reached(i, matchIndex'[i], n) \in SUBSET Node
    BY DEF Reached
  <2> QED  BY <1>3, <2>1, <2>2, MoreIsQuorum DEF Chosen
<1>6. n <= n /\ n <= Len(l) /\ \A k \in 1..n : l[k] = ledger'[t][k]
  BY <1>2, <1>3
<1> QED  BY <1>1, <1>2, <1>3, <1>5, <1>6 DEF Committed

\* What is committed was chosen.
LEMMA CommitsChosenStep ==
  ASSUME NEW i \in Node, SoundStep(i), HeldStays', MatchesBacked'
  PROVE  CommitsChosen'
<1>0. /\ LedgerGrows(ledger, ledger') /\ CommitsChosen
      /\ \A k \in Node : held[k] \subseteq held'[k]
  BY DEF SoundStep, HeldGrows, CommitFacts
<1> SUFFICES ASSUME NEW k \in Node
             PROVE  Committed(ledger', held', log'[k], commitIndex'[k], currentTerm'[k])
  BY DEF CommitsChosen
<1>1. PICK l, r, c, u, z : /\ l = log[k] /\ r = log'[k] /\ c = commitIndex[k]
                           /\ u = currentTerm[k] /\ z = currentTerm'[k]
  OBVIOUS
<1>2. l \in Log /\ r \in Log /\ c \in Nat /\ u \in Nat /\ z \in Nat /\ u <= z
  BY <1>1, SoundLedger DEF SoundStep, TypeOK
<1>3. Committed(ledger', held', l, c, z)
  BY <1>0, <1>1, <1>2, CommittedStays DEF CommitsChosen
<1>4. ASSUME \A n \in 1..c : n \in DOMAIN r /\ r[n] = l[n]
      PROVE  Committed(ledger', held', r, c, z)
  <2>1. Len(r) \in Nat /\ DOMAIN r = 1..Len(r)
    BY <1>2, LenProperties DEF Log
  <2>2. c # 0 => c \in DOMAIN r
    BY <1>2, <1>4
  <2>3. c <= Len(r)
    BY <1>2, <2>1, <2>2
  <2> QED  BY <1>3, <1>4, <2>3 DEF Committed
<1>5. CASE commitIndex'[k] = c /\ r = l
  BY <1>1, <1>3, <1>5
<1>6. ASSUME k = i, NEW e \in Entry, r = Append(l, e), commitIndex'[k] = c
      PROVE  Committed(ledger', held', r, c, z)
  <2>1. /\ Len(l) \in Nat /\ DOMAIN l = 1..Len(l) /\ DOMAIN r = 1..(Len(l) + 1)
        /\ \A n \in 1..Len(l) : r[n] = l[n]
    BY <1>2, <1>6, AppendProperties, LenProperties DEF Log
  <2>2. c <= Len(l)
    BY <1>2, <1>3, <2>1 DEF Committed
  <2> QED  BY <1>2, <1>4, <2>1, <2>2
<1>7. ASSUME k = i, NEW j \in Peers(i), NEW m, Splices(i, j, m)
      PROVE  Committed(ledger', held', r, commitIndex'[k], z)
  <2>1. CASE commitIndex'[k] = c
    BY <1>1, <1>4, <1>7, <2>1, SpliceKeepsCommitted
  <2>2. CASE commitIndex'[k] = Min2(m.leaderCommit, Len(r))
    <3>1. PICK b, last, x : /\ b = ledger[m.term] /\ last = m.prevIndex + Len(m.entries)
                            /\ x = m.leaderCommit
      OBVIOUS
    <3>2. LET y == log'[i]
          IN  /\ m.term \in DOMAIN ledger /\ m.term \in Nat /\ b \in Log /\ last \in Nat
              /\ last <= Len(b) /\ last <= Len(y) /\ \A n \in 1..last : y[n] = b[n]
              /\ x \in Nat /\ x <= last
              /\ Committed(ledger, held, b, x, m.term)
      BY <1>7, <3>1, SpliceFacts
    <3>3. /\ last \in Nat /\ last <= Len(r) /\ x \in Nat /\ x <= last
          /\ \A n \in 1..last : r[n] = b[n]
      BY <1>1, <1>7, <3>2
    <3>4. m.term = z
      BY <1>1, <1>7 DEF Splices
    <3>5. Committed(ledger', held', b, x, z)
      <4>1. z <= z
        BY <1>2
      <4> QED  BY <1>0, <1>2, <3>2, <3>4, <4>1, CommittedStays
    <3>6. Len(r) \in Nat
      BY <1>2, LenProperties DEF Log
    <3>7. x <= Len(r) /\ \A n \in 1..x : r[n] = b[n]
      BY <3>3, <3>6
    <3>8. commitIndex'[k] = x
      BY <2>2, <3>1, <3>3, <3>6, <3>7 DEF Min2
    <3> QED  BY <3>5, <3>7, <3>8 DEF Committed
  <2> QED  BY <1>1, <1>7, <2>1, <2>2 DEF Splices
<1>8. CASE k = i /\ StaysLeader(i) /\ log' = log
           /\ commitIndex'[i] \in Committable(i, matchIndex'[i])
  BY <1>8, CommittableWasChosen
<1>9. CASE k # i
  BY <1>1, <1>5, <1>9 DEF SoundStep, CommitStep, Peers
<1>10. CASE k = i
  <2>1. \/ commitIndex'[k] = c /\ r = l
        \/ /\ StaysLeader(i) /\ log' = log
           /\ commitIndex'[i] \in Committable(i, matchIndex'[i])
        \/ commitIndex'[k] = c /\ \E e \in Entry : r = Append(l, e)
        \/ \E j \in Peers(i) : \E m : Splices(i, j, m)
    BY <1>1, <1>10 DEF SoundStep, CommitStep, LogEffect, TypeOK
  <2> QED  BY <1>1, <1>5, <1>6, <1>7, <1>8, <1>10, <2>1
<1> QED  BY <1>9, <1>10
-----------------------------------------------------------------------------
\* Every action is such a step.

\* A step that sends only what it may, and votes only where asked.
LEMMA CommitStepOf ==
  ASSUME TypeOK, NEW i \in Node, ElectionStep(i), NEW out, OnlySends(i, out),
         \A j \in DOMAIN out :
           /\ Sends(i, j, out[j])
           /\ out[j].kind = "VoteResp" /\ ~out[j].preVote /\ out[j].granted =>
                VotesFor(i, j, out[j].term),
         \A k \in Peers(i) : /\ log'[k] = log[k] /\ commitIndex'[k] = commitIndex[k]
                             /\ matchIndex'[k] = matchIndex[k],
         LogEffect(i),
         role'[i] = "leader" => \A k \in Peers(i) : Learns(i, k)
  PROVE  CommitStep(i)
<1>1. ASSUME NEW c \in Channel, NEW n \in DOMAIN net'[c]
      PROVE  \/ Sent(c[1], c[2], net'[c][n])
             \/ c[1] = i /\ Sends(i, c[2], net'[c][n])
  <2>1. c = <<c[1], c[2]>>
    BY DEF Channel
  <2>2. (\E o \in DOMAIN net[c] : net[c][o] = net'[c][n]) => Sent(c[1], c[2], net'[c][n])
    BY <2>1 DEF Sent
  <2> QED  BY <2>2 DEF OnlySends
<1>2. ASSUME NEW v \in Node, NEW c \in Peers(v), NEW t, Voted(v, c, t)'
      PROVE  Voted(v, c, t) \/ (v = i /\ VotesFor(i, c, t))
  <2>1. CASE VoteUnderWay(v, c, t)'
    <3>1. PICK n \in DOMAIN net'[<<v, c>>] :
            LET m == net'[<<v, c>>][n]
            IN  m.kind = "VoteResp" /\ ~m.preVote /\ m.granted /\ m.term = t
      BY <2>1 DEF VoteUnderWay
    <3>2. <<v, c>> \in Channel
      BY DEF Channel, Peers
    <3>3. CASE \E o \in DOMAIN net[<<v, c>>] : net'[<<v, c>>][n] = net[<<v, c>>][o]
      BY <3>1, <3>3 DEF Voted, VoteUnderWay
    <3>4. CASE v = i /\ c \in DOMAIN out /\ net'[<<v, c>>][n] = out[c]
      BY <3>1, <3>4
    <3> QED  BY <3>2, <3>3, <3>4 DEF OnlySends
  <2>2. CASE VoteCounted(v, c, t)' /\ v = i
    <3>1. c \in Peers(i) /\ c \in Node
      BY <2>2 DEF Peers
    <3> QED  BY <2>2, <3>1 DEF ElectionStep, Voted, VoteCounted
  <2>3. CASE v # i
    BY <1>2, <2>3 DEF ElectionStep
  <2> QED  BY <1>2, <2>1, <2>2, <2>3 DEF Voted
<1> QED  BY <1>1, <1>2 DEF CommitStep

\* A step that touches no log, commit index or match index, and wins no election.
LEMMA CalmStep ==
  ASSUME TypeOK, NEW i \in Node, ElectionStep(i), NEW out, OnlySends(i, out),
         \A j \in DOMAIN out :
           /\ Sends(i, j, out[j])
           /\ out[j].kind = "VoteResp" /\ ~out[j].preVote /\ out[j].granted =>
                VotesFor(i, j, out[j].term),
         UNCHANGED <<log, commitIndex, matchIndex>>,
         role'[i] = "leader" => role[i] = "leader"
  PROVE  CommitStep(i)
<1>1. role'[i] = "leader" => StaysLeader(i)
  BY DEF ElectionStep, Wins, StaysLeader
<1>2. LogEffect(i) /\ (role'[i] = "leader" => \A k \in Peers(i) : Learns(i, k))
  BY <1>1 DEF LogEffect, Learns
<1> QED  BY <1>2, CommitStepOf

\* A campaign, whether a timer or a poll begins it.
LEMMA CampaignIsCommitStep ==
  ASSUME TypeOK, ElectionInv, NEW i \in Node, ElectionStep(i), Campaign(i),
         OnlySends(i, [j \in Peers(i) |-> VoteRequest(i, currentTerm[i] + 1, FALSE)]),
         UNCHANGED <<logVars, leaderVars>>
  PROVE  CommitStep(i)
<1>1. currentTerm[i] \in Nat /\ currentTerm'[i] = currentTerm[i] + 1
      /\ role'[i] = "candidate"
  BY DEF Campaign, TypeOK
<1>2. currentTerm[i] + 1 > currentTerm[i]
  BY <1>1
<1> DEFINE x == VoteRequest(i, currentTerm[i] + 1, FALSE)
<1>3. /\ x.kind = "VoteReq" /\ x.term = currentTerm[i] + 1
      /\ x.lastIndex = Len(log[i]) /\ x.lastTerm = LastTerm(log[i])
  BY DEF VoteRequest
<1>4. \A j : Sends(i, j, x)
  <2> HIDE DEF x
  <2> QED  BY <1>1, <1>2, <1>3 DEF Sends, logVars
<1> DEFINE out == [j \in Peers(i) |-> x]
<1>5. \A j \in DOMAIN out : out[j] = x
  OBVIOUS
<1>6. OnlySends(i, out)
  OBVIOUS
<1> HIDE DEF x, out
<1>7. \A j \in DOMAIN out : Sends(i, j, out[j]) /\ out[j].kind # "VoteResp"
  BY <1>3, <1>4, <1>5
<1> QED  BY <1>1, <1>6, <1>7, CalmStep DEF logVars, leaderVars

\* The timers' steps (beginElection, and Tick of a leader).
LEMMA TimerIsCommitStep ==
  ASSUME TypeOK, NextIndexSet, ElectionInv, NeverForgets, NEW i \in Node,
         BeginElection(i) \/ BeginPreVote(i) \/ LeaderTick(i)
  PROVE  CommitStep(i)
<1>1. ElectionStep(i)
  BY BeginElectionStep, BeginPreVoteStep, LeaderTickStep
<1>2. CASE BeginElection(i)
  <2>1. OnlySends(i, [j \in Peers(i) |-> VoteRequest(i, currentTerm[i] + 1, FALSE)])
    BY <1>2, TransmitSends DEF BeginElection
  <2> QED  BY <1>1, <1>2, <2>1, CampaignIsCommitStep DEF BeginElection
<1>3. CASE BeginPreVote(i)
  <2> DEFINE x == VoteRequest(i, currentTerm[i] + 1, TRUE)
             out == [j \in Peers(i) |-> x]
  <2>1. OnlySends(i, out)
    BY <1>3, TransmitSends DEF BeginPreVote
  <2>2. \A j \in DOMAIN out : Sends(i, j, out[j]) /\ out[j].kind # "VoteResp"
    BY DEF Sends, VoteRequest
  <2>3. role'[i] # "leader" /\ UNCHANGED <<log, commitIndex, matchIndex>>
    BY <1>3 DEF BeginPreVote, TypeOK, logVars, leaderVars
  <2> HIDE DEF out
  <2> QED  BY <1>1, <2>1, <2>2, <2>3, CalmStep
<1>4. CASE LeaderTick(i)
  <2>1. PICK heartbeat \in BOOLEAN :
          Transmit(net, i, IF heartbeat
                           THEN [j \in Peers(i) |->
                                   AppendTo(i, j, currentTerm[i], nextIndex[i][j])]
                           ELSE Silent)
    BY <1>4 DEF LeaderTick
  <2> DEFINE out == IF heartbeat
                    THEN [j \in Peers(i) |->
                            AppendTo(i, j, currentTerm[i], nextIndex[i][j])]
                    ELSE Silent
  <2>2. OnlySends(i, out)
    BY <2>1, TransmitSends
  <2>3. role[i] = "leader" /\ UNCHANGED <<log, commitIndex, matchIndex>>
    BY <1>4 DEF LeaderTick, logVars, leaderVars
  <2>4. \A j \in DOMAIN out : /\ j \in Peers(i)
                              /\ out[j] = AppendTo(i, j, currentTerm[i], nextIndex[i][j])
    BY DEF Silent
  <2> HIDE DEF out
  <2>5. ASSUME NEW j \in DOMAIN out
        PROVE  Sends(i, j, out[j]) /\ out[j].kind # "VoteResp"
    <3>1. nextIndex[i][j] \in Nat \ {0}
      BY <2>3, <2>4 DEF NextIndexSet, TypeOK, Peers
    <3>2. out[j].kind = "AppendReq"
      BY <2>4 DEF AppendTo
    <3> QED  BY <2>3, <2>4, <3>1, <3>2 DEF Sends, Leads
  <2> QED  BY <1>1, <2>2, <2>3, <2>5, CalmStep
<1> QED  BY <1>2, <1>3, <1>4
\* The message at the head of an edge was sent.
LEMMA HeadWasSent ==
  ASSUME TypeOK, NEW i \in Node, NEW j \in Peers(i), net[<<j, i>>] # <<>>
  PROVE  Sent(j, i, Head(net[<<j, i>>])) /\ Head(net[<<j, i>>]) \in Message
<1>1. net[<<j, i>>] \in Seq(Message)
  BY DEF TypeOK, Channel, Peers
<1>2. 1 \in DOMAIN net[<<j, i>>] /\ Head(net[<<j, i>>]) = net[<<j, i>>][1]
  BY <1>1, EmptySeq, LenProperties
<1> QED  BY <1>2, TakenType DEF Sent

\* A handler's one answer.
LEMMA ReplyIsCommitStep ==
  ASSUME TypeOK, NEW i \in Node, NEW j \in Peers(i), net[<<j, i>>] # <<>>, ElectionStep(i),
         NEW x, Reply(i, j, x), Sends(i, j, x),
         x.kind = "VoteResp" /\ ~x.preVote /\ x.granted => VotesFor(i, j, x.term),
         matchIndex' = matchIndex, role'[i] = "leader" => role[i] = "leader",
         LogEffect(i),
         \A k \in Peers(i) : log'[k] = log[k] /\ commitIndex'[k] = commitIndex[k]
  PROVE  CommitStep(i)
<1> DEFINE out == [k \in {j} |-> x]
<1>1. OnlySends(i, out)
  BY HandlerSends DEF Reply
<1>2. \A k \in DOMAIN out : k = j /\ out[k] = x
  OBVIOUS
<1>3. role'[i] = "leader" => \A k \in Peers(i) : Learns(i, k)
  BY DEF ElectionStep, Wins, StaysLeader, Learns
<1> HIDE DEF out
<1> QED  BY <1>1, <1>2, <1>3, CommitStepOf

\* An AppendEntries handled: refused, or spliced.
LEMMA HandleAppendReqIsCommitStep ==
  ASSUME TypeOK, TypeOK', ElectionInv, NeverForgets, RecordCommit,
         NEW i \in Node, NEW j \in Peers(i), HandleAppendReq(i, j)
  PROVE  CommitStep(i)
<1>1. PICK m : m = Head(net[<<j, i>>])
  OBVIOUS
<1>2. /\ net[<<j, i>>] # <<>> /\ m \in AppendReq /\ Sent(j, i, m)
      /\ currentTerm[i] \in Nat /\ m.term \in Nat
  <2>1. net[<<j, i>>] # <<>> /\ m.kind = "AppendReq"
    BY <1>1 DEF HandleAppendReq, Arrives
  <2>2. m \in Message /\ Sent(j, i, m)
    BY <1>1, <2>1, HeadWasSent
  <2> QED  BY <2>1, <2>2 DEF Message, AppendReq, AppendResp, VoteReq, VoteResp, TypeOK
<1>3. ElectionStep(i) /\ matchIndex' = matchIndex
  BY HandleAppendReqStep DEF HandleAppendReq, leaderVars
<1>4. RejectStaleAppend(i, j, m) \/ FollowLeader(i, j, m)
  BY <1>1 DEF HandleAppendReq
<1>5. /\ FollowLeader(i, j, m) =>
           m.term >= currentTerm[i] /\ role'[i] = "follower" /\ currentTerm'[i] = m.term
      /\ role'[i] = "leader" => role[i] = "leader"
  <2>1. CASE RejectStaleAppend(i, j, m)
    BY <1>2, <2>1 DEF RejectStaleAppend, FollowLeader, nodeVars
  <2>2. CASE FollowLeader(i, j, m)
    <3>1. /\ m.term >= currentTerm[i]
          /\ \/ BecomeFollower(i, m.term, j)
             \/ role' = role /\ currentTerm' = currentTerm /\ m.term = currentTerm[i]
                /\ role[i] = "follower"
      BY <1>2, <2>2 DEF FollowLeader
    <3> QED  BY <3>1 DEF BecomeFollower, TypeOK
  <2> QED  BY <1>4, <2>1, <2>2
<1>6. CASE \E resp : /\ Reply(i, j, resp) /\ resp.kind = "AppendResp" /\ ~resp.success
                     /\ UNCHANGED logVars
  <2>1. PICK resp : /\ Reply(i, j, resp) /\ resp.kind = "AppendResp" /\ ~resp.success
                    /\ UNCHANGED logVars
    BY <1>6
  <2>2. Sends(i, j, resp) /\ LogEffect(i)
    BY <2>1 DEF Sends, LogEffect, logVars
  <2> QED  BY <1>2, <1>3, <1>5, <2>1, <2>2, ReplyIsCommitStep DEF logVars
<1>7. CASE FollowLeader(i, j, m) /\ Matches(log[i], m.prevIndex, m.prevTerm)
  <2>1. PICK spliced :
          /\ spliced = AppendFromLeader(log[i], m.prevIndex, m.entries)
          /\ log' = [log EXCEPT ![i] = spliced]
          /\ commitIndex' = [commitIndex EXCEPT ![i] =
                               IF m.leaderCommit > @
                               THEN Min2(m.leaderCommit, Len(spliced))
                               ELSE @]
          /\ Reply(i, j, Success(m.term, Len(spliced)))
    BY <1>7 DEF FollowLeader
  <2>2. log'[i] = spliced
    BY <2>1 DEF TypeOK
  <2>3. ~overclaimed' => \/ Len(log'[i]) <= m.prevIndex + Len(m.entries)
                         \/ LastTerm(log'[i]) = m.term
    <3>1. ~overclaimed' => ~Overclaims(i, j)
      BY DEF RecordCommit
    <3>2. Arrives(i, j, "AppendReq")
      BY DEF HandleAppendReq
    <3>3. Len(log'[i]) \in Nat /\ m.prevIndex + Len(m.entries) \in Nat
      <4>1. m.entries \in Seq(Entry) /\ m.prevIndex \in Nat
        BY <1>2 DEF AppendReq, Log
      <4>2. log'[i] \in Seq(Entry)
        BY DEF TypeOK, Log
      <4> QED  BY <4>1, <4>2, LenProperties
    <3>4. ~overclaimed' => ~(/\ Len(log'[i]) > m.prevIndex + Len(m.entries)
                             /\ LastTerm(log'[i]) # m.term)
      BY <1>1, <1>5, <1>7, <3>1, <3>2 DEF Overclaims
    <3> QED  BY <3>3, <3>4
  <2>4. commitIndex'[i] = IF m.leaderCommit > commitIndex[i]
                          THEN Min2(m.leaderCommit, Len(log'[i])) ELSE commitIndex[i]
    BY <2>1, <2>2 DEF TypeOK
  <2>5. Splices(i, j, m)
    BY <1>2, <1>5, <1>7, <2>1, <2>3, <2>4 DEF Splices
  <2> DEFINE x == Success(m.term, Len(spliced))
  <2>6. x.kind = "AppendResp" /\ x.term = m.term /\ x.matchIndex = Len(log'[i])
    BY <2>2 DEF Success
  <2>7. Sends(i, j, x)
    <3> HIDE DEF x
    <3> QED  BY <2>5, <2>6 DEF Sends
  <2>8. LogEffect(i)
    BY <2>5 DEF LogEffect
  <2>9. \A k \in Peers(i) : log'[k] = log[k] /\ commitIndex'[k] = commitIndex[k]
    BY <2>1 DEF TypeOK, Peers
  <2>10. Reply(i, j, x)
    BY <2>1
  <2> HIDE DEF x
  <2> QED  BY <1>2, <1>3, <1>5, <2>6, <2>7, <2>8, <2>9, <2>10, ReplyIsCommitStep
<1> QED
  <2>1. CASE RejectStaleAppend(i, j, m)
    BY <1>6, <2>1 DEF RejectStaleAppend, Refusal
  <2>2. CASE FollowLeader(i, j, m) /\ ~Matches(log[i], m.prevIndex, m.prevTerm)
    BY <1>6, <2>2 DEF FollowLeader, Refusal
  <2> QED  BY <1>4, <1>7, <2>1, <2>2

\* An answer to an AppendEntries handled: a leader learns of progress and may commit.
LEMMA HandleAppendRespIsCommitStep ==
  ASSUME TypeOK, ElectionInv, NeverForgets,
         NEW i \in Node, NEW j \in Peers(i), HandleAppendResp(i, j)
  PROVE  CommitStep(i)
<1>1. PICK m : m = Head(net[<<j, i>>])
  OBVIOUS
<1>2. net[<<j, i>>] # <<>> /\ m.kind = "AppendResp" /\ Sent(j, i, m)
  <2>1. net[<<j, i>>] # <<>> /\ m.kind = "AppendResp"
    BY <1>1 DEF HandleAppendResp, Arrives
  <2> QED  BY <1>1, <2>1, HeadWasSent
<1>3. ElectionStep(i) /\ log' = log /\ net' = Taken(i, j)
  BY HandleAppendRespStep DEF HandleAppendResp
<1>4. OnlySends(i, Silent) /\ DOMAIN Silent = {}
  BY <1>2, <1>3, SilentHandlerSends DEF Silent
<1>5. CASE UNCHANGED <<commitIndex, matchIndex>> /\ (role'[i] = "leader" => role[i] = "leader")
  BY <1>3, <1>4, <1>5, CalmStep
<1>6. CASE LearnProgress(i, j, m) /\ m.success
  <2>1. /\ m.term = currentTerm[i] /\ StaysLeader(i)
        /\ matchIndex' = [matchIndex EXCEPT ![i][j] = m.matchIndex]
        /\ AdvanceCommit(i, matchIndex'[i])
    BY <1>6 DEF LearnProgress, nodeVars, StaysLeader
  <2>2. ASSUME NEW k \in Peers(i)
        PROVE  Learns(i, k) /\ matchIndex'[k] = matchIndex[k]
    <3>1. CASE k = j
      <4>1. matchIndex'[i][k] = m.matchIndex
        BY <2>1, <3>1 DEF TypeOK, Peers
      <4> QED  BY <1>2, <1>6, <2>1, <3>1, <4>1 DEF Learns, TypeOK, Peers
    <3>2. CASE k # j
      BY <2>1, <3>2 DEF Learns, TypeOK, Peers
    <3> QED  BY <3>1, <3>2
  <2>3. LogEffect(i) /\ \A k \in Peers(i) : commitIndex'[k] = commitIndex[k]
    <3>1. CASE commitIndex' = commitIndex
      BY <1>3, <3>1 DEF LogEffect
    <3>2. CASE \E n \in Committable(i, matchIndex'[i]) :
                 commitIndex' = [commitIndex EXCEPT ![i] = n]
      BY <1>3, <2>1, <3>2 DEF LogEffect, TypeOK, Peers
    <3>3. commitIndex' = commitIndex \/
          \E n \in Committable(i, matchIndex'[i]) : commitIndex' = [commitIndex EXCEPT ![i] = n]
      BY <2>1 DEF AdvanceCommit
    <3> QED  BY <3>1, <3>2, <3>3
  <2> QED  BY <1>3, <1>4, <2>2, <2>3, CommitStepOf
<1>7. CASE LearnProgress(i, j, m) /\ ~m.success
  BY <1>5, <1>7 DEF LearnProgress
<1>8. CASE BecomeFollower(i, m.term, None) /\ UNCHANGED <<leaderVars, commitIndex>>
  <2>1. role'[i] = "follower"
    BY <1>8 DEF BecomeFollower, TypeOK
  <2> QED  BY <1>5, <1>8, <2>1 DEF leaderVars
<1>9. CASE UNCHANGED <<nodeVars, leaderVars, commitIndex>>
  BY <1>5, <1>9 DEF leaderVars, nodeVars
<1> QED  BY <1>1, <1>6, <1>7, <1>8, <1>9 DEF HandleAppendResp
\* A request for a vote handled: who grants one has been asked and found the
\* candidate's log as good as its own.
LEMMA HandleVoteReqIsCommitStep ==
  ASSUME TypeOK, ElectionInv, NeverForgets,
         NEW i \in Node, NEW j \in Peers(i), HandleVoteReq(i, j)
  PROVE  CommitStep(i)
<1>1. PICK m : m = Head(net[<<j, i>>])
  OBVIOUS
<1>2. /\ net[<<j, i>>] # <<>> /\ m.kind = "VoteReq" /\ Sent(j, i, m)
      /\ m.term \in Nat /\ currentTerm[i] \in Nat
  <2>1. net[<<j, i>>] # <<>> /\ m.kind = "VoteReq"
    BY <1>1 DEF HandleVoteReq, Arrives
  <2>2. m \in Message /\ Sent(j, i, m)
    BY <1>1, <2>1, HeadWasSent
  <2> QED  BY <2>1, <2>2 DEF Message, AppendReq, AppendResp, VoteReq, VoteResp, TypeOK
<1>3. ElectionStep(i) /\ UNCHANGED <<log, commitIndex, matchIndex>>
  BY HandleVoteReqStep DEF HandleVoteReq, logVars, leaderVars
<1>4. ASSUME NEW x, Reply(i, j, x), x.kind = "VoteResp",
             ~x.preVote /\ x.granted => VotesFor(i, j, x.term),
             role'[i] = "leader" => role[i] = "leader"
      PROVE  CommitStep(i)
  <2>1. Sends(i, j, x) /\ LogEffect(i)
    BY <1>3, <1>4 DEF Sends, LogEffect
  <2> QED  BY <1>2, <1>3, <1>4, <2>1, ReplyIsCommitStep
<1>5. CASE AnswerPoll(i, j, m)
  <2>1. PICK granted : Reply(i, j, VoteReply(currentTerm[i], granted, TRUE))
    BY <1>5 DEF AnswerPoll
  <2> DEFINE x == VoteReply(currentTerm[i], granted, TRUE)
  <2>2. Reply(i, j, x) /\ x.kind = "VoteResp" /\ x.preVote
    BY <2>1 DEF VoteReply
  <2>3. role' = role
    BY <1>5 DEF AnswerPoll, nodeVars
  <2> HIDE DEF x
  <2> QED  BY <1>4, <2>2, <2>3
<1>6. CASE AnswerCampaign(i, j, m)
  <2>1. PICK granted, term :
          /\ granted <=> /\ m.term >= currentTerm[i]
                         /\ m.term > currentTerm[i] \/ votedFor[i] \in {None, j}
                         /\ UpToDate(log[i], m.lastTerm, m.lastIndex)
          /\ term = IF m.term > currentTerm[i] THEN m.term ELSE currentTerm[i]
          /\ role' = [role EXCEPT ![i] = IF m.term > currentTerm[i] THEN "follower" ELSE @]
          /\ currentTerm' = [currentTerm EXCEPT ![i] = term]
          /\ Reply(i, j, VoteReply(term, granted, FALSE))
    BY <1>6 DEF AnswerCampaign
  <2> DEFINE x == VoteReply(term, granted, FALSE)
  <2>2. Reply(i, j, x) /\ x.kind = "VoteResp" /\ x.term = term /\ x.granted = granted
    BY <2>1 DEF VoteReply
  <2>3. role'[i] = "leader" => role[i] = "leader"
    BY <2>1 DEF TypeOK
  <2>4. ASSUME granted PROVE VotesFor(i, j, term)
    <3>1. m.term >= currentTerm[i] /\ term = m.term
      BY <1>2, <2>1, <2>4
    <3>2. currentTerm'[i] = term /\ currentTerm[i] <= term
      BY <1>2, <2>1, <3>1 DEF TypeOK
    <3>3. ~m.preVote
      BY <1>6 DEF AnswerCampaign
    <3> QED  BY <1>2, <1>3, <2>1, <2>4, <3>1, <3>2, <3>3 DEF VotesFor
  <2> HIDE DEF x
  <2> QED  BY <1>4, <2>2, <2>3, <2>4
<1> QED  BY <1>1, <1>5, <1>6 DEF HandleVoteReq

\* A vote counted, and what a new leader begins with.
LEMMA CountVoteIsCommitStep ==
  ASSUME TypeOK, NEW i \in Node, NEW j \in Peers(i), net[<<j, i>>] # <<>>, ElectionStep(i),
         NEW m, CountVote(i, j, m), UNCHANGED logVars
  PROVE  CommitStep(i)
<1>1. UNCHANGED <<log, commitIndex>>
  BY DEF logVars
<1>2. CASE net' = Taken(i, j) /\ UNCHANGED <<nodeVars, leaderVars>>
  <2>1. OnlySends(i, Silent) /\ DOMAIN Silent = {}
    BY <1>2, SilentHandlerSends DEF Silent
  <2> QED  BY <1>1, <1>2, <2>1, CalmStep DEF nodeVars, leaderVars
<1>3. CASE \E voters : BecomeLeader(i, j, voters)
  <2>1. /\ role' = [role EXCEPT ![i] = "leader"] /\ currentTerm' = currentTerm
        /\ matchIndex' = [matchIndex EXCEPT ![i] = [k \in Node |-> 0]]
        /\ Transmit(Taken(i, j), i,
             [k \in Peers(i) |-> AppendTo(i, k, currentTerm[i], Len(log[i]) + 1)])
    BY <1>3 DEF BecomeLeader
  <2>2. /\ role'[i] = "leader" /\ Leads(i, currentTerm[i])
        /\ \A k \in Peers(i) : matchIndex'[k] = matchIndex[k] /\ matchIndex'[i][k] = 0
    BY <2>1 DEF Leads, TypeOK, Peers
  <2> DEFINE out == [k \in Peers(i) |-> AppendTo(i, k, currentTerm[i], Len(log[i]) + 1)]
  <2>3. OnlySends(i, out)
    BY <2>1, HandlerSends
  <2>4. Len(log[i]) + 1 \in Nat \ {0}
    <3>1. Len(log[i]) \in Nat
      BY LenProperties DEF TypeOK, Log
    <3> QED  BY <3>1
  <2>5. \A k \in DOMAIN out :
          k \in Peers(i) /\ out[k] = AppendTo(i, k, currentTerm[i], Len(log[i]) + 1)
    OBVIOUS
  <2> HIDE DEF out
  <2>6. ASSUME NEW k \in DOMAIN out
        PROVE  Sends(i, k, out[k]) /\ out[k].kind # "VoteResp"
    <3>1. out[k].kind = "AppendReq"
      BY <2>5 DEF AppendTo
    <3> QED  BY <1>1, <2>2, <2>4, <2>5, <3>1 DEF Sends
  <2>7. LogEffect(i) /\ \A k \in Peers(i) : Learns(i, k)
    BY <1>1, <2>2 DEF LogEffect, Learns
  <2> QED  BY <1>1, <2>2, <2>3, <2>6, <2>7, CommitStepOf
<1> QED  BY <1>2, <1>3 DEF CountVote

\* An answer to a request for a vote handled.
LEMMA HandleVoteRespIsCommitStep ==
  ASSUME TypeOK, ElectionInv, NeverForgets,
         NEW i \in Node, NEW j \in Peers(i), HandleVoteResp(i, j)
  PROVE  CommitStep(i)
<1>1. PICK m : m = Head(net[<<j, i>>])
  OBVIOUS
<1>2. net[<<j, i>>] # <<>> /\ UNCHANGED logVars /\ ElectionStep(i)
  BY HandleVoteRespStep DEF HandleVoteResp, Arrives
<1>3. net' = Taken(i, j) => OnlySends(i, Silent) /\ DOMAIN Silent = {}
  BY <1>2, SilentHandlerSends DEF Silent
<1>4. CASE CountPollAnswer(i, j, m)
  <2>1. UNCHANGED leaderVars
    BY <1>4 DEF CountPollAnswer
  <2>2. CASE /\ Campaign(i)
             /\ Transmit(Taken(i, j), i,
                  [k \in Peers(i) |-> VoteRequest(i, currentTerm[i] + 1, FALSE)])
    <3>1. OnlySends(i, [k \in Peers(i) |-> VoteRequest(i, currentTerm[i] + 1, FALSE)])
      BY <1>2, <2>2, HandlerSends
    <3> QED  BY <1>2, <2>1, <2>2, <3>1, CampaignIsCommitStep
  <2>3. CASE net' = Taken(i, j) /\ UNCHANGED nodeVars
    BY <1>2, <1>3, <2>1, <2>3, CalmStep DEF nodeVars, logVars, leaderVars
  <2> QED  BY <1>4, <2>2, <2>3 DEF CountPollAnswer
<1>5. CASE CountVote(i, j, m)
  BY <1>2, <1>5, CountVoteIsCommitStep
<1>6. CASE BecomeFollower(i, m.term, None) /\ net' = Taken(i, j) /\ UNCHANGED leaderVars
  <2>1. role'[i] = "follower"
    BY <1>6 DEF BecomeFollower, TypeOK
  <2> QED  BY <1>2, <1>3, <1>6, <2>1, CalmStep DEF logVars, leaderVars
<1> QED  BY <1>1, <1>4, <1>5, <1>6 DEF HandleVoteResp

\* A proposal, and a probe.
LEMMA LocalIsCommitStep ==
  ASSUME TypeOK, ElectionInv, NeverForgets, NEW i \in Node,
         \/ \E cmd \in Cmd : Propose(i, cmd)
         \/ \E j \in Peers(i) : ReceiveProbe(i, j)
  PROVE  CommitStep(i)
<1>1. /\ net' = net /\ votes' = votes /\ elected' = elected
      /\ UNCHANGED <<role, currentTerm, votedFor, matchIndex, commitIndex>>
  BY DEF Propose, ReceiveProbe, nodeVars, tallyVars, logVars, leaderVars
<1>2. ElectionStep(i)
  BY <1>1, LocalStep
<1>3. OnlySends(i, Silent) /\ DOMAIN Silent = {}
  BY <1>1 DEF OnlySends, Silent
<1>4. CASE log' = log
  BY <1>1, <1>2, <1>3, <1>4, CalmStep
<1>5. CASE \E cmd \in Cmd : Propose(i, cmd)
  <2>1. PICK cmd \in Cmd : Propose(i, cmd)
    BY <1>5
  <2> DEFINE e == [term |-> currentTerm[i], cmd |-> cmd]
  <2>2. e \in Entry /\ e.term = currentTerm[i]
    BY DEF Entry, TypeOK
  <2>3. log' = [log EXCEPT ![i] = Append(log[i], e)] /\ role[i] = "leader"
    BY <2>1 DEF Propose
  <2> HIDE DEF e
  <2>4. StaysLeader(i)
    BY <1>1, <2>3 DEF StaysLeader
  <2>5. LogEffect(i) /\ \A k \in Peers(i) : Learns(i, k) /\ log'[k] = log[k]
    BY <1>1, <2>2, <2>3, <2>4 DEF LogEffect, Learns, TypeOK, Peers
  <2> QED  BY <1>1, <1>2, <1>3, <2>5, CommitStepOf
<1> QED  BY <1>4, <1>5 DEF ReceiveProbe, logVars

\* Every action is a CommitStep of one node.
LEMMA EachActionIsCommitStep ==
  ASSUME TypeOK, TypeOK', NextIndexSet, ElectionInv, NeverForgets, Act, RecordCommit
  PROVE  \E i \in Node : CommitStep(i)
<1>1. ASSUME NEW i \in Node, BeginElection(i) \/ BeginPreVote(i) \/ LeaderTick(i)
      PROVE  CommitStep(i)
  BY <1>1, TimerIsCommitStep
<1>2. ASSUME NEW i \in Node, NEW cmd \in Cmd, Propose(i, cmd)
      PROVE  CommitStep(i)
  BY <1>2, LocalIsCommitStep
<1>3. ASSUME NEW i \in Node, NEW j \in Peers(i),
             \/ HandleAppendReq(i, j) \/ HandleAppendResp(i, j)
             \/ HandleVoteReq(i, j) \/ HandleVoteResp(i, j) \/ ReceiveProbe(i, j)
      PROVE  CommitStep(i)
  BY <1>3, HandleAppendReqIsCommitStep, HandleAppendRespIsCommitStep,
     HandleVoteReqIsCommitStep, HandleVoteRespIsCommitStep, LocalIsCommitStep
<1> QED  BY <1>1, <1>2, <1>3 DEF Act
-----------------------------------------------------------------------------
\* CommitInv is inductive.

\* The history is kept beside the protocol, and changes nothing in it.
LEMMA HistoryIsBeside == CommitSpec => Spec
<1>1. CommitInit => Init
  BY DEF CommitInit
<1>2. [CommitNext]_commitVars => [Next]_vars
  BY DEF CommitNext, commitVars
<1> QED  BY <1>1, <1>2, PTL DEF CommitSpec, Spec

\* As long as no defect has struck, every step is sound.
LEMMA StepsAreSound ==
  ASSUME TypeOK, TypeOK', NextIndexSet, ElectionInv, NeverForgets, CommitInv,
         CommitNext, Unharmed'
  PROVE  \E i \in Node : SoundStep(i)
<1>1. Act /\ RecordForgotten /\ RecordCommit /\ [Next]_vars
  BY DEF CommitNext, Next
<1>2. ElectionInv' /\ ElectionSafety /\ ElectionSafety' /\ ~overclaimed'
  BY <1>1, ElectionInvNext, SafetyWasThere DEF Unharmed
<1>3. HistoryTypes /\ CommitFacts
  BY <1>1, <1>2 DEF CommitInv, Unharmed, RecordCommit
<1>4. PICK i \in Node : CommitStep(i)
  BY <1>1, EachActionIsCommitStep
<1>5. ElectionStep(i)
  BY <1>4 DEF CommitStep
<1>6. HistoryTypes'
  BY <1>1, <1>3, <1>5, HistoryTypesStep
<1>7. LedgerGrows(ledger, ledger') /\ HeldGrows
  BY <1>1, <1>2, <1>3, <1>4, <1>6, LedgerGrowsStep, HeldGrowsStep DEF CommitFacts
<1>8. \A k \in Node : role'[k] = "leader" =>
        currentTerm'[k] \in Won' /\ ledger'[currentTerm'[k]] = log'[k]
  BY <1>1, <1>2, LedgerOfLeader
<1>9. ASSUME NEW t \in Won', ~\E k \in Node : role'[k] = "leader" /\ currentTerm'[k] = t
      PROVE  t \in Won /\ ledger'[t] = ledger[t]
  <2>1. t \in Won
    BY <1>5, <1>9, NewlyWon DEF Wins
  <2>2. ~\E k \in Node : Leading(k, t)'
    BY <1>9 DEF Leading
  <2> QED  BY <1>1, <2>1, <2>2 DEF RecordCommit
<1> QED  BY <1>2, <1>3, <1>4, <1>6, <1>7, <1>8, <1>9 DEF SoundStep

\* A sound step keeps what CommitInv says of committed entries.
LEMMA CommitFactsStep ==
  ASSUME NEW i \in Node, SoundStep(i)
  PROVE  CommitFacts'
<1>1. LogsFromLedger'
  BY LogsFromLedgerStep
<1>2. HeldStays' /\ MatchesBacked'
  BY <1>1, HeldStaysStep, MatchesBackedStep
<1> QED  BY <1>1, <1>2, LedgerIsLeadersStep, RequestsFromLedgerStep, CommitsChosenStep,
            VoteRequestsCurrentStep, VotesUpToDateStep, VotersCoveredStep DEF CommitFacts

\* Neither does a step in which nothing happens.
LEMMA NothingHappens ==
  ASSUME UNCHANGED commitVars, CommitInv
  PROVE  CommitInv'
<1>1. /\ UNCHANGED <<role, currentTerm, votedFor, votes, log, commitIndex, matchIndex, net>>
      /\ UNCHANGED <<elected, ledger, held, overclaimed>>
  BY DEF commitVars, vars, nodeVars, tallyVars, logVars, leaderVars
<1>2. Won' = Won /\ (Unharmed' <=> Unharmed)
  BY <1>1 DEF Won, Unharmed, ElectionSafety
<1>3. HistoryTypes <=> HistoryTypes'
  BY <1>1, <1>2 DEF HistoryTypes
<1>4. LedgerIsLeaders /\ LogsFromLedger /\ HeldStays =>
        LedgerIsLeaders' /\ LogsFromLedger' /\ HeldStays'
  BY <1>1, <1>2 DEF LedgerIsLeaders, LogsFromLedger, HeldStays
<1>5. RequestsFromLedger /\ CommitsChosen /\ VoteRequestsCurrent =>
        RequestsFromLedger' /\ CommitsChosen' /\ VoteRequestsCurrent'
  BY <1>1 DEF RequestsFromLedger, CommitsChosen, VoteRequestsCurrent
<1>6. VotersCovered /\ MatchesBacked => VotersCovered' /\ MatchesBacked'
  BY <1>1 DEF VotersCovered, MatchesBacked
<1>7. VotesUpToDate => VotesUpToDate'
  <2>1. \A v, c, t : Voted(v, c, t)' <=> Voted(v, c, t)
    BY <1>1 DEF Voted, VoteCounted, VoteUnderWay
  <2>2. \A v, c : VoteTerms(v, c)' = VoteTerms(v, c)
    BY <1>1 DEF VoteTerms
  <2> QED  BY <1>1, <2>1, <2>2 DEF VotesUpToDate
<1> QED  BY <1>2, <1>3, <1>4, <1>5, <1>6, <1>7 DEF CommitInv, CommitFacts

\* No step leads out of CommitInv.
LEMMA CommitInvNext ==
  ASSUME TypeOK, TypeOK', NextIndexSet, ElectionInv, NeverForgets, CommitInv,
         [CommitNext]_commitVars
  PROVE  CommitInv'
<1>1. CASE CommitNext
  <2>1. HistoryTypes'
    <3>1. PICK i \in Node : ElectionStep(i)
      BY <1>1, EachActionIsElectionStep DEF CommitNext, Next
    <3> QED  BY <1>1, <3>1, HistoryTypesStep DEF CommitNext, CommitInv
  <2>2. Unharmed' => CommitFacts'
    BY <1>1, StepsAreSound, CommitFactsStep
  <2> QED  BY <2>1, <2>2 DEF CommitInv
<1>2. CASE UNCHANGED commitVars
  BY <1>2, NothingHappens
<1> QED  BY <1>1, <1>2

\* The cluster starts with nothing won, held or committed.
LEMMA CommitInvInit == CommitInit => CommitInv
<1> SUFFICES ASSUME CommitInit PROVE CommitInv
  OBVIOUS
<1>1. /\ Won = {} /\ elected = {} /\ DOMAIN ledger = {} /\ overclaimed = FALSE
      /\ \A i \in Node : held[i] = {} /\ role[i] = "follower" /\ commitIndex[i] = 0
                         /\ log[i] = <<>> /\ DOMAIN log[i] = {}
      /\ \A c \in Channel : DOMAIN net[c] = {}
  BY DEF CommitInit, Init, Won
<1>2. HistoryTypes
  BY <1>1 DEF CommitInit, HistoryTypes
<1>3. LedgerIsLeaders /\ LogsFromLedger /\ HeldStays /\ CommitsChosen /\ VotersCovered
  BY <1>1 DEF LedgerIsLeaders, LogsFromLedger, FromLedger, HeldStays, CommitsChosen,
              Committed, VotersCovered
<1>4. RequestsFromLedger /\ VoteRequestsCurrent
  BY <1>1 DEF RequestsFromLedger, VoteRequestsCurrent
<1>5. VotesUpToDate /\ MatchesBacked
  <2>1. \A v \in Node : \A c \in Peers(v) : <<v, c>> \in Channel /\ role[c] = "follower"
    BY <1>1 DEF Channel, Peers
  <2>2. \A v \in Node : \A c \in Peers(v) : \A t : ~Voted(v, c, t)
    BY <1>1, <2>1 DEF Voted, VoteCounted, VoteUnderWay
  <2>3. VotesUpToDate
    BY <2>2 DEF VotesUpToDate
  <2> QED  BY <1>1, <2>1, <2>3 DEF MatchesBacked
<1> QED  BY <1>2, <1>3, <1>4, <1>5 DEF CommitInv, CommitFacts

\* The inductive invariant of committed entries, in every mode, for every cluster, every
\* log and any loss and delay of messages.
THEOREM CommitInvariant == CommitSpec => []CommitInv
<1>1. CommitSpec => [](TypeOK /\ NextIndexSet /\ ElectionInv /\ NeverForgets)
  BY HistoryIsBeside, TypeCorrectness, ElectionInvariant, PTL
<1> QED  BY <1>1, CommitInvInit, CommitInvNext, PTL DEF CommitSpec

-----------------------------------------------------------------------------
\* What follows for committed entries.

\* Committed logs agree in every mode, for every cluster and any loss and delay, as long
\* as no term has two leaders and no follower has claimed what it was not asked for
\* (advanceCommit, handleAppendReq).
THEOREM CommitsAgree == CommitSpec => []CommittedAgree
<1>1. TypeOK /\ ElectionInv /\ CommitInv => CommittedAgree
  <2> SUFFICES ASSUME TypeOK, ElectionInv, HistoryTypes, CommitFacts,
                      NEW i \in Node, NEW j \in Node,
                      NEW n \in 1..Min2(commitIndex[i], commitIndex[j])
               PROVE  n \in DOMAIN log[i] \cap DOMAIN log[j] /\ log[i][n] = log[j][n]
    BY DEF CommitInv, CommittedAgree
  <2>1. n \in 1..commitIndex[i] /\ n \in 1..commitIndex[j]
    <3>1. commitIndex[i] \in Nat /\ commitIndex[j] \in Nat
      BY DEF TypeOK
    <3> QED  BY <3>1 DEF Min2
  <2>2. PICK t \in DOMAIN ledger : InChosen(i, n, t)
    BY <2>1, CommittedInChosen
  <2>3. PICK u \in DOMAIN ledger : InChosen(j, n, u)
    BY <2>1, CommittedInChosen
  <2>4. t \in Nat /\ u \in Nat
    BY WonTerms DEF HistoryTypes
  <2>5. CASE t <= u
    <3>1. n \in DOMAIN ledger[u] /\ ledger[u][n] = ledger[t][n]
      BY <2>2, <2>5, ChosenInLater DEF InChosen
    <3> QED  BY <2>2, <2>3, <3>1 DEF InChosen
  <2>6. CASE u <= t
    <3>1. n \in DOMAIN ledger[t] /\ ledger[t][n] = ledger[u][n]
      BY <2>3, <2>6, ChosenInLater DEF InChosen
    <3> QED  BY <2>2, <2>3, <3>1 DEF InChosen
  <2> QED  BY <2>4, <2>5, <2>6
<1> QED  BY <1>1, HistoryIsBeside, TypeCorrectness, ElectionInvariant, CommitInvariant, PTL

\* Leader completeness: under the same condition, whoever leads has every entry that a
\* node of its term or of an earlier one has committed (handleVoteReq, UpToDate).
THEOREM LeadersComplete == CommitSpec => []LeadersHoldCommitted
<1>1. TypeOK /\ ElectionInv /\ CommitInv => LeadersHoldCommitted
  <2> SUFFICES ASSUME TypeOK, ElectionInv, HistoryTypes, CommitFacts,
                      NEW i \in Node, NEW j \in Node, role[i] = "leader",
                      currentTerm[j] <= currentTerm[i], NEW n \in 1..commitIndex[j]
               PROVE  n \in DOMAIN log[i] \cap DOMAIN log[j] /\ log[i][n] = log[j][n]
    BY DEF CommitInv, LeadersHoldCommitted
  <2>1. PICK t \in DOMAIN ledger : InChosen(j, n, t)
    BY CommittedInChosen
  <2>2. PICK u : u = currentTerm[i]
    OBVIOUS
  <2>3. u \in DOMAIN ledger /\ ledger[u] = log[i]
    <3>1. \E e \in elected : e.term = u
      BY <2>2 DEF ElectionInv, LeaderWasElected
    <3> QED  BY <2>2, <3>1 DEF Won, HistoryTypes, CommitFacts, LedgerIsLeaders
  <2>4. t <= u
    <3>1. t \in Nat /\ u \in Nat /\ currentTerm[j] \in Nat
      BY <2>3, WonTerms DEF HistoryTypes, TypeOK
    <3> QED  BY <2>1, <2>2, <3>1 DEF InChosen
  <2>5. n \in DOMAIN ledger[u] /\ ledger[u][n] = ledger[t][n]
    BY <2>1, <2>3, <2>4, ChosenInLater DEF InChosen
  <2> QED  BY <2>1, <2>3, <2>5 DEF InChosen
<1> QED  BY <1>1, HistoryIsBeside, TypeCorrectness, ElectionInvariant, CommitInvariant, PTL

\* Under the same condition, no step takes a commit back, or drops or rewrites a
\* committed entry (handleAppendReq, AppendFromLeader).
THEOREM CommitsAreKept == CommitSpec => CommittedKept
<1> DEFINE Kept == Unharmed' => \A i \in Node :
             /\ commitIndex[i] <= commitIndex'[i]
             /\ \A n \in 1..commitIndex[i] : n \in DOMAIN log'[i] /\ log'[i][n] = log[i][n]
<1>1. /\ TypeOK /\ TypeOK' /\ NextIndexSet /\ ElectionInv /\ NeverForgets /\ CommitInv
      /\ [CommitNext]_commitVars
      => [Kept]_commitVars
  BY StepsAreSound, SoundStepKeepsCommitted
<1> QED  BY <1>1, HistoryIsBeside, TypeCorrectness, ElectionInvariant, CommitInvariant, PTL
         DEF CommitSpec, CommittedKept
=============================================================================
