---------------------------- MODULE MCSpliceLoop ----------------------------
(***************************************************************************)
(* SpliceLoop for TLC: every log of up to three entries and every batch of up *)
(* to three, over two terms and two commands.                                 *)
(***************************************************************************)
EXTENDS SpliceLoop, SequencesExt

SomeEntries == [term : 1..2, cmd : Cmd]

ShortLogs == BoundedSeq(SomeEntries, 3)
=============================================================================
