----------------------------- MODULE CharCounts -----------------------------
(* Counting the characters of a control sequence. *)
EXTENDS Integers, Sequences, FiniteSets

\* How many of the first n characters of s are among chars.
CharCount(s, chars, n) == Cardinality({p \in 1..n : s[p] \in chars})
=============================================================================
