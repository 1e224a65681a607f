---------------------------- MODULE UnifiedDiff ----------------------------
(***************************************************************************)
(* What a unified diff is and what patch-c has to make of it, without      *)
(* scanning: a diff is a sequence of changes of files, laid out as lines,  *)
(* and every hunk of a source file that is neither created nor deleted is  *)
(* to be written as a control sequence.                                    *)
(*                                                                         *)
(* A line is a record whose field k is its kind.  "---" and "+++" name a   *)
(* file; "@@" carries the numbers of a hunk's header; "-", "+" and " " are *)
(* the lines of a hunk, "blank" a context line whose space got lost, and   *)
(* "no newline" the mark after the last line of a file.  Inside a hunk a   *)
(* "---" is a removed line that begins with two hyphens and a space.       *)
(*                                                                         *)
(* The text after "---" and "+++" is its words and the single spaces and   *)
(* tabs between them; a name is a sequence of these too.                   *)
(***************************************************************************)
EXTENDS Integers, Sequences, SequencesExt

CONSTANTS
  NullName,      \* the name of no file
  SourceNames    \* names with a source suffix

DevNull == <<"/dev/null">>

\* A change is [lead, old, new, date, hunks], a hunk [from, to, body]: lead and
\* body are lines, date is what follows the names, from and to the first lines
\* as the header gives them.
IsRemoved(l) == l.k \in {"-", "---"}
IsAdded(l) == l.k \in {"+", "+++"}
IsContext(l) == l.k \in {" ", "blank"}

OldLines(h) == Len(SelectSeq(h.body, LAMBDA l : IsRemoved(l) \/ IsContext(l)))
NewLines(h) == Len(SelectSeq(h.body, LAMBDA l : IsAdded(l) \/ IsContext(l)))

-----------------------------------------------------------------------------
(* The lines of a diff *)

HunkLines(h) == <<[k |-> "@@", from |-> h.from, old |-> OldLines(h), to |-> h.to, new |-> NewLines(h)]>> \o h.body
NameText(name, date) == (IF name = NullName THEN DevNull ELSE name) \o date
ChangeLines(c) ==
  c.lead \o <<[k |-> "---", text |-> NameText(c.old, c.date)], [k |-> "+++", text |-> NameText(c.new, c.date)]>>
         \o FlattenSeq([n \in DOMAIN c.hunks |-> HunkLines(c.hunks[n])])
DiffLines(cs) == FlattenSeq([n \in DOMAIN cs |-> ChangeLines(cs[n])])

-----------------------------------------------------------------------------
(* What is to be written of it *)

FileName(c) == IF c.new # NullName THEN c.new ELSE c.old

ReasonOf(c) ==
  CASE c.old = NullName -> "NEW_FILE"
    [] c.new = NullName -> "DEL_FILE"
    [] FileName(c) \notin SourceNames -> "NON_SOURCE"
    [] OTHER -> "NO_REASON"

ControlOf(l) == IF IsRemoved(l) THEN <<"-">> ELSE IF IsAdded(l) THEN <<"+">> ELSE IF IsContext(l) THEN <<"~">> ELSE <<>>

\* A header gives the line before an empty side.
HunkMeaning(c, h) ==
  [name |-> FileName(c),
   first |-> IF OldLines(h) = 0 THEN h.from + 1 ELSE h.from,
   newfirst |-> IF NewLines(h) = 0 THEN h.to + 1 ELSE h.to,
   ctrl |-> FlattenSeq([n \in DOMAIN h.body |-> ControlOf(h.body[n])])]

ChangeMeaning(c) ==
  IF ReasonOf(c) = "NO_REASON" THEN [n \in DOMAIN c.hunks |-> HunkMeaning(c, c.hunks[n])] ELSE <<>>
DiffMeaning(cs) == FlattenSeq([n \in DOMAIN cs |-> ChangeMeaning(cs[n])])

DiffReasons(cs) == [n \in DOMAIN cs |-> [reason |-> ReasonOf(cs[n]), name |-> FileName(cs[n])]]
=============================================================================
