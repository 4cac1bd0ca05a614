------------------------------- MODULE RaftLog -------------------------------
(***************************************************************************)
(* The replicated log of internal/consensus/log.go as operators on          *)
(* sequences of entries.  Index is the position in the sequence, 1-based as  *)
(* in the code.  The hash chain of an entry (PrevHash, Hash) is recomputed    *)
(* locally from the entries up to it and read by no decision of the protocol, *)
(* so an entry is its term and its command.                                   *)
(***************************************************************************)
EXTENDS Naturals, Sequences

CONSTANT Cmd  \* the commands clients may propose

Entry == [term : Nat, cmd : Cmd]

Log == Seq(Entry)

LastTerm(l) == IF l = <<>> THEN 0 ELSE l[Len(l)].term

\* The term at index k and 0 where the code's ok is false: broadcastAppend
\* drops ok, Matches does not.
TermAt(l, k) == IF k \in DOMAIN l THEN l[k].term ELSE 0

\* Mutant of Matches: an entry at prevIndex is enough, whatever its term.
MatchesIndexOnly(l, prevIndex, prevTerm) == prevIndex \in {0} \cup DOMAIN l

Matches(l, prevIndex, prevTerm) ==
  /\ prevIndex \in {0} \cup DOMAIN l
  /\ TermAt(l, prevIndex) = prevTerm

Slice(l, from) == SubSeq(l, IF from = 0 THEN 1 ELSE from, Len(l))

\* Mutant of UpToDate: the two logs are compared the wrong way round.
UpToDateReversed(l, candidateTerm, candidateIndex) ==
  \/ LastTerm(l) > candidateTerm
  \/ LastTerm(l) = candidateTerm /\ Len(l) >= candidateIndex

UpToDate(l, candidateTerm, candidateIndex) ==
  \/ candidateTerm > LastTerm(l)
  \/ candidateTerm = LastTerm(l) /\ candidateIndex >= Len(l)

\* Entries prevIndex+1 .. n of l carry the terms of the incoming entries, so
\* the loop of AppendFromLeader skips them all.
AgreesThrough(l, prevIndex, entries, n) ==
  \A k \in (prevIndex + 1)..n :
    k <= Len(l) /\ l[k].term = entries[k - prevIndex].term

\* Mutant of AppendFromLeader: the entries behind a disagreement are not truncated.
AppendFromLeaderKeepingTail(l, prevIndex, entries) ==
  LET last == prevIndex + Len(entries)
  IN  [n \in 1..last |-> IF AgreesThrough(l, prevIndex, entries, n) \/ n <= prevIndex
                         THEN l[n] ELSE entries[n - prevIndex]]
        \o SubSeq(l, last + 1, Len(l))

\* What the loop leaves behind: the log itself when every incoming entry is
\* already there, otherwise the log up to the first disagreement followed by
\* the rest of the incoming entries.  SpliceLoop runs the loop itself and
\* proves that this is its result.
AppendFromLeader(l, prevIndex, entries) ==
  LET last == prevIndex + Len(entries)
  IN  IF AgreesThrough(l, prevIndex, entries, last)
      THEN l
      ELSE [n \in 1..last |->
              IF n <= prevIndex \/ AgreesThrough(l, prevIndex, entries, n)
              THEN l[n]
              ELSE entries[n - prevIndex]]
=============================================================================
