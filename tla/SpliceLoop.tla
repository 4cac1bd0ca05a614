----------------------------- MODULE SpliceLoop -----------------------------
(***************************************************************************)
(* The loop of Log.AppendFromLeader, one iteration per step, on every log and *)
(* every batch it may be called with.  RaftLog replaces the loop by its       *)
(* result; this module runs it.  The loop's return value is left out: its     *)
(* only caller, handleAppendReq, ignores it.                                  *)
(***************************************************************************)
EXTENDS RaftLog

CONSTANTS Logs,     \* the logs a follower may hold
          Batches   \* the entries an AppendEntries may carry

ASSUME InputAssumption == Logs \subseteq Log /\ Batches \subseteq Log

VARIABLES before, prevIndex, incoming,  \* the receiver and the arguments
          log,                          \* the receiver's entries during the loop
          done                          \* iterations completed

vars == <<before, prevIndex, incoming, log, done>>

\* handleAppendReq calls the loop only when the log reaches prevIndex (Matches).
Init ==
  /\ before \in Logs
  /\ incoming \in Batches
  /\ prevIndex \in 0..Len(before)
  /\ log = before
  /\ done = 0

\* The index and the entry of the next iteration.
idx == prevIndex + done + 1
entry == incoming[done + 1]

AlreadyThere ==
  /\ idx \in DOMAIN log
  /\ log[idx].term = entry.term
  /\ UNCHANGED log

\* Mutant of LeaderWins: the entry is overwritten in place, its successors stay.
LeaderWinsInPlace ==
  /\ idx \in DOMAIN log
  /\ log[idx].term # entry.term
  /\ log' = [log EXCEPT ![idx] = entry]

\* Mutant of LeaderWins: the conflicting entry itself is kept.
LeaderWinsKeepingOne ==
  /\ idx \in DOMAIN log
  /\ log[idx].term # entry.term
  /\ log' = Append(SubSeq(log, 1, idx), entry)

\* TruncateFrom(idx), then the append.
LeaderWins ==
  /\ idx \in DOMAIN log
  /\ log[idx].term # entry.term
  /\ log' = Append(SubSeq(log, 1, idx - 1), entry)

Extends ==
  /\ idx \notin DOMAIN log
  /\ log' = Append(log, entry)

Iterate ==
  /\ done < Len(incoming)
  /\ AlreadyThere \/ LeaderWins \/ Extends
  /\ done' = done + 1
  /\ UNCHANGED <<before, prevIndex, incoming>>

Spec == Init /\ [][Iterate]_vars

-----------------------------------------------------------------------------
\* The loop ends with the log that RaftLog's AppendFromLeader describes: nothing
\* is lost to a request that only repeats what is there, and nothing survives
\* behind an entry that was replaced.
SpliceResult ==
  done = Len(incoming) => log = AppendFromLeader(before, prevIndex, incoming)

\* The entry written carries Index idx, and that is the position it gets: the
\* 1-based addressing of At and TermAt rests on it.
IndexIsPosition == [][log' # log => Len(log') = idx /\ log'[idx] = entry]_vars

\* The loop invariant: as long as the terms agree nothing has been written; from
\* the first disagreement on the log ends with what was written last.
AgreedSoFar == AgreesThrough(before, prevIndex, incoming, prevIndex + done)

SpliceInv ==
  /\ prevIndex + done <= Len(log)
  /\ AgreedSoFar => log = before
  /\ ~AgreedSoFar =>
       /\ Len(log) = prevIndex + done
       /\ \A n \in DOMAIN log :
            log[n] = IF n <= prevIndex \/ AgreesThrough(before, prevIndex, incoming, n)
                     THEN before[n]
                     ELSE incoming[n - prevIndex]

\* The inputs and the entries written are log entries.
TypeOK ==
  /\ before \in Log /\ incoming \in Log /\ log \in Log
  /\ prevIndex \in 0..Len(before)
  /\ done \in 0..Len(incoming)
=============================================================================
