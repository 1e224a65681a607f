---------------------------- MODULE MCHunkReduce ----------------------------
(***************************************************************************)
(* Instances of HunkReduce for TLC: every control sequence up to a bound.  *)
(***************************************************************************)
EXTENDS HunkReduce

MCMaxLen == 6                 \* bound: longest control sequence
MCUintMax == 9                \* the largest start line plus MCMaxLen

SeqsOver(chars, n) == UNION {[1..k -> chars] : k \in 0..n}

\* Well-formed scripts, at two start lines; a rejected one starts at line 0.
MCHunks ==
  [start_line : {1, 3}, rep_start_line : {1, 2}, ctrlseq : SeqsOver(CtrlChars, MCMaxLen)]
  \cup [start_line : {0}, rep_start_line : {1}, ctrlseq : {<<"-">>}]
  \cup [start_line : {1}, rep_start_line : {1}, ctrlseq : SeqsOver(CtrlChars \cup {"x"}, 4)]
=============================================================================
