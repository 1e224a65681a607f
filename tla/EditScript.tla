----------------------------- MODULE EditScript -----------------------------
(***************************************************************************)
(* What Hunk::reduce promises, without its buffer, counters and merge      *)
(* loop: a control sequence is an edit script over two files.  Walking it  *)
(* keeps one cursor in the old file and one in the new file.  A '~' moves  *)
(* both by one line; a chunk (a maximal run of '-' and '+') moves the old  *)
(* cursor by its '-' and the new one by its '+', and touches exactly the   *)
(* lines it moves over.                                                    *)
(***************************************************************************)
EXTENDS Integers, Sequences, FiniteSets

CONSTANT Hunks      \* the hunks to walk: [start_line, rep_start_line, ctrlseq]

VARIABLES
  hunk,             \* the hunk walked, fixed by Init
  pos,              \* characters of the control sequence consumed
  old, new,         \* last line passed in the old and in the new file
  oldTouched,       \* lines of the old file removed or replaced so far
  newTouched        \* lines of the new file added or substituted so far

vars == <<hunk, pos, old, new, oldTouched, newTouched>>

CharAt(p) == hunk.ctrlseq[p]

Valid(p) == CharAt(p) \in {"~", "+", "-"}

\* The control sequence has a chunk over exactly the positions first..last.
IsChunk(first, last) ==
  /\ first <= last
  /\ \A p \in first..last : CharAt(p) \in {"+", "-"}
  /\ last = Len(hunk.ctrlseq) \/ CharAt(last + 1) = "~"

CountIn(c, first, last) == Cardinality({p \in first..last : CharAt(p) = c})

Init ==
  /\ hunk \in Hunks
  /\ pos = 0
  /\ old = hunk.start_line - 1
  /\ new = hunk.rep_start_line - 1
  /\ oldTouched = {}
  /\ newTouched = {}

Keep ==
  /\ pos < Len(hunk.ctrlseq)
  /\ CharAt(pos + 1) = "~"
  /\ pos' = pos + 1
  /\ old' = old + 1
  /\ new' = new + 1
  /\ UNCHANGED <<hunk, oldTouched, newTouched>>

Change ==
  \E last \in 1..Len(hunk.ctrlseq) :
    /\ IsChunk(pos + 1, last)
    /\ pos' = last
    /\ old' = old + CountIn("-", pos + 1, last)
    /\ new' = new + CountIn("+", pos + 1, last)
    /\ oldTouched' = oldTouched \cup (old + 1)..old'
    /\ newTouched' = newTouched \cup (new + 1)..new'
    /\ UNCHANGED hunk

Next == Keep \/ Change

Spec == Init /\ [][Next]_vars
=============================================================================
