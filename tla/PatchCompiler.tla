--------------------------- MODULE PatchCompiler ---------------------------
(***************************************************************************)
(* patch-c (lib/parser/PatchCompiler): the loop of main.cc over one patch  *)
(* file, and of PatchParser (parser.cc) there_is_another_patch,            *)
(* intuit_diff_type, another_hunk, gobble and reinitialize.                *)
(*                                                                         *)
(* The parser finds the file of the next change by scanning for headers,   *)
(* reads its hunks by the counts of their headers, and goes on from where  *)
(* a line no longer fits (p_base).  What it skips it reads as well.        *)
(*                                                                         *)
(* The file is its lines (module UnifiedDiff) and a position is a number   *)
(* of lines.  Of the kinds of diff only unified diffs are supported        *)
(* (another_hunk exits for the others), so diff_type is left out; so are   *)
(* indented patches, Prereq lines, timestamps and the text of the lines    *)
(* but for the names of files.                                             *)
(***************************************************************************)
EXTENDS UnifiedDiff, FiniteSetsExt, PIR, CharCounts

CONSTANT Diffs   \* the inputs: [changes, lines], the lines possibly damaged

\* A hunk's header that can be read has four numbers, and lines count from 1:
\* only an empty side may be at line 0.
ASSUME DiffsAssumption ==
  \A d \in Diffs :
    /\ d.lines \in Seq(Range(d.lines))
    /\ \A n \in DOMAIN d.lines : d.lines[n].k = "@@" =>
         /\ {d.lines[n].from, d.lines[n].old, d.lines[n].to, d.lines[n].new} \subseteq Nat
         /\ d.lines[n].from = 0 => d.lines[n].old = 0
         /\ d.lines[n].to = 0 => d.lines[n].new = 0

VARIABLES
  diff,       \* the patch file, and the changes it was made from
  pass,       \* p_pass_comments_through, which nothing initialises
  pc,         \* where the program is, or how it ended
  pos,        \* lines of the file read
  p_base,     \* where the next search for a change begins
  need,       \* need_header: no header line was seen in this search
  p_name,     \* the names of the headers
  inname,     \* the file of the change in hand, NullName when there is none
  skip,       \* skip_rest_of_patch
  reason,     \* why the change is skipped, as gobble will return it
  nhunk,      \* hunks of the change read by gobble
  hunk,       \* the hunk another_hunk fills
  patchprinted,
  out,        \* the sections written to the .id file
  log         \* the changes reported to the .log and .src files and counted

vars == <<diff, pass, pc, pos, p_base, need, p_name, inname, skip, reason, nhunk, hunk, patchprinted, out, log>>

Lines == diff.lines
FileSize == Len(Lines)
Reasons == {"NO_REASON", "NEW_FILE", "DEL_FILE", "NON_SOURCE"}
Ended == {"done", "exit"}

(***************************************************************************)
(* pget_line: the line it returns after position p; lines that begin with  *)
(* '#' are dropped unless they pass.  A last line without a newline counts *)
(* as the end of the file.                                                 *)
(***************************************************************************)
LineAfter(p, passes) ==
  LET kept == {n \in (p + 1)..FileSize : passes \/ Lines[n].k # "#"}
  IN IF kept = {} THEN FileSize + 1 ELSE Min(kept)
AtEnd(n) == IF n > FileSize THEN TRUE ELSE Lines[n].k = "cut"

\* The position the reading leaves behind.  Slips: past the end; unchanged.
PosPastEnd(n) == n
PosUnmoved(n) == pos
PosAfter(n) == IF AtEnd(n) THEN FileSize ELSE n

\* A line that begins a hunk; one of them has no readable numbers.
BeginsHunk(l) == l.k \in {"@@", "@@ damaged"}

NoHunk == [first |-> 0, newfirst |-> 0, ptrn |-> 0, repl |-> 0,
           fillsrc |-> 1, filldst |-> 2, ctrl |-> <<>>, changed |-> FALSE]

Init ==
  /\ diff \in Diffs
  /\ pass \in BOOLEAN
  /\ pc = "another"
  /\ pos = 0
  /\ p_base = 0
  /\ need = TRUE
  /\ p_name = [old |-> NullName, new |-> NullName]
  /\ inname = NullName
  /\ skip = FALSE
  /\ reason = "NO_REASON"
  /\ nhunk = 0
  /\ hunk = NoHunk
  /\ patchprinted = FALSE
  /\ out = <<>>
  /\ log = <<>>

-----------------------------------------------------------------------------
(* there_is_another_patch *)

NothingLeft == p_base # 0 /\ p_base >= FileSize

NoMorePatches ==
  /\ pc = "another"
  /\ NothingLeft
  /\ pc' = "done"
  /\ UNCHANGED <<diff, pass, pos, p_base, need, p_name, inname, skip, reason, nhunk, hunk, patchprinted, out, log>>

StartIntuit ==
  /\ pc = "another"
  /\ ~NothingLeft
  /\ p_name' = [old |-> NullName, new |-> NullName]
  /\ need' = (inname = NullName)
  /\ pos' = p_base
  /\ pc' = "intuit"
  /\ UNCHANGED <<diff, pass, p_base, inname, skip, reason, nhunk, hunk, patchprinted, out, log>>

\* NO_DIFF: trailing garbage is ignored, a file of nothing else is refused.
IntuitEnds ==
  /\ pc = "intuit"
  /\ AtEnd(LineAfter(pos, FALSE))
  /\ pc' = IF p_base = 0 /\ FileSize # 0 THEN "exit" ELSE "done"
  /\ UNCHANGED <<diff, pass, pos, p_base, need, p_name, inname, skip, reason, nhunk, hunk, patchprinted, out, log>>

(***************************************************************************)
(* fetchname: the name in the text of a header, without leading space (no  *)
(* slashes are stripped: strippath is 0).  It ends at a space or tab, but  *)
(* a space before a word belongs to it if there is a tab further on.       *)
(***************************************************************************)
IsSpace(c) == c \in {" ", "\t"}
Trimmed(text) == SubSeq(text, Min({n \in 1..(Len(text) + 1) : n > Len(text) \/ ~IsSpace(text[n])}), Len(text))

\* Slip: the first space ends the name.
EndsAtSpace(text, n) == IsSpace(text[n])
EndsName(text, n) ==
  /\ IsSpace(text[n])
  /\ LET tabs == {m \in n..Len(text) : text[m] = "\t"}
     IN tabs = {} \/ \A m \in n..Min(tabs) : IsSpace(text[m])

fetchname(text) ==
  LET t == Trimmed(text)
      name == SubSeq(t, 1, Min({Len(t)} \cup {n - 1 : n \in {m \in DOMAIN t : EndsName(t, m)}}))
  IN IF name \in {<<>>, DevNull} THEN NullName ELSE name

\* The names are kept the wrong way round until the first hunk is seen.
NamesRead(names, l) ==
  CASE l.k = "+++" -> [names EXCEPT !.old = fetchname(l.text)]
    [] l.k = "---" -> [names EXCEPT !.new = fetchname(l.text)]
    [] OTHER -> names

IntuitLine ==
  /\ pc = "intuit"
  /\ LET n == LineAfter(pos, FALSE) IN
       /\ ~AtEnd(n)
       /\ need \/ ~BeginsHunk(Lines[n])
       /\ pos' = PosAfter(n)
       /\ \E l \in {Lines[n]} : p_name' = NamesRead(p_name, l)
       /\ need' = (need /\ Lines[n].k \notin {"---", "+++", "Index:"})
  /\ UNCHANGED <<diff, pass, pc, p_base, inname, skip, reason, nhunk, hunk, patchprinted, out, log>>

\* inname of the names after the swap; the name of an Index line is not used.
ChosenName(names) == IF names.new # NullName THEN names.new ELSE IF names.old # NullName THEN names.old ELSE inname

\* Without a name the user is asked, but the answer is read into a buffer that
\* there_is_another_patch does not look at: the change is skipped.
IntuitFound ==
  /\ pc = "intuit"
  /\ LET n == LineAfter(pos, FALSE) IN
       /\ ~AtEnd(n)
       /\ ~need /\ BeginsHunk(Lines[n])
  /\ p_name' = [old |-> p_name.new, new |-> p_name.old]
  /\ inname' = ChosenName(p_name')
  /\ skip' = (skip \/ inname' = NullName)
  /\ pc' = "gobble"
  /\ UNCHANGED <<diff, pass, pos, p_base, need, reason, nhunk, hunk, patchprinted, out, log>>

-----------------------------------------------------------------------------
(* gobble, up to its first hunk *)

GobbleStarts ==
  /\ pc = "gobble"
  /\ reason' = IF inname \in SourceNames THEN "NO_REASON" ELSE "NON_SOURCE"
  /\ skip' = (skip \/ inname \notin SourceNames)
  /\ nhunk' = 0
  /\ pc' = "head"
  /\ UNCHANGED <<diff, pass, pos, p_base, need, p_name, inname, hunk, patchprinted, out, log>>

-----------------------------------------------------------------------------
(* another_hunk *)

\* Where the next search begins when the line read is no hunk header.
\* Slip: behind that line.
BaseBehindLine(p) == PosAfter(LineAfter(p, pass))
NextIntuitAt(p) == p

NoMoreHunks ==
  /\ pc = "head"
  /\ LET n == LineAfter(pos, pass) IN IF AtEnd(n) THEN TRUE ELSE ~BeginsHunk(Lines[n])
  /\ p_base' = NextIntuitAt(pos)
  /\ pc' = "over"
  /\ UNCHANGED <<diff, pass, pos, need, p_name, inname, skip, reason, nhunk, hunk, patchprinted, out, log>>

Exit ==
  /\ pc' = "exit"
  /\ UNCHANGED <<diff, pass, pos, p_base, need, p_name, inname, skip, reason, nhunk, hunk, patchprinted, out, log>>

DamagedHead ==
  /\ pc = "head"
  /\ LET n == LineAfter(pos, pass) IN IF AtEnd(n) THEN FALSE ELSE Lines[n].k = "@@ damaged"
  /\ Exit

\* The line before an empty side is turned into the line after it.
\* Slip: it is not.
LineGiven(first, count) == first
FirstLine(first, count) == IF count = 0 THEN first + 1 ELSE first

OpenHunk ==
  /\ pc = "head"
  /\ LET n == LineAfter(pos, pass) IN
       /\ IF AtEnd(n) THEN FALSE ELSE Lines[n].k = "@@"
       /\ hunk' = [first |-> FirstLine(Lines[n].from, Lines[n].old),
                   newfirst |-> FirstLine(Lines[n].to, Lines[n].new),
                   ptrn |-> Lines[n].old, repl |-> Lines[n].new,
                   fillsrc |-> 1, filldst |-> Lines[n].old + 2, ctrl |-> <<>>, changed |-> FALSE]
       /\ pos' = n
  /\ pc' = "line"
  /\ UNCHANGED <<diff, pass, p_base, need, p_name, inname, skip, reason, nhunk, patchprinted, out, log>>

\* The lines of both sides in one array: the old ones after the header at 0,
\* the new ones after a second header, up to p_end (which is also p_max).
PEnd == hunk.ptrn + 1 + hunk.repl
\* Slip: one line too few.
OldLeftButOne == hunk.fillsrc < hunk.ptrn
OldLeft == hunk.fillsrc <= hunk.ptrn
NewLeft == hunk.filldst <= PEnd
Filling == OldLeft \/ NewLeft

LineRead == LineAfter(pos, pass)

\* At the end of the file blank lines are assumed to be cut off.
\* Slip: whatever is missing.
PadsAnything == TRUE
Pads == PEnd - hunk.filldst < 3

\* The character the line stands for in the hunk; "x" is none.
Sign ==
  IF AtEnd(LineRead) THEN " "
  ELSE CASE Lines[LineRead].k \in {"-", "---"} -> "-"
         [] Lines[LineRead].k \in {"+", "+++"} -> "+"
         [] Lines[LineRead].k \in {" ", "=", "blank"} -> " "
         [] OTHER -> "x"

\* incomplete_line, asked at the last line of a side: takes the mark of a
\* missing newline.
MarkTaken(p, last) ==
  IF last /\ p < FileSize THEN (IF Lines[p + 1].k = "no newline" THEN p + 1 ELSE p) ELSE p

LastOld == hunk.fillsrc = hunk.ptrn
LastNew == hunk.filldst = PEnd

Fill(old, new, char, changed, p) ==
  /\ hunk' = [hunk EXCEPT !.fillsrc = hunk.fillsrc + old, !.filldst = hunk.filldst + new,
                          !.ctrl = Append(hunk.ctrl, char), !.changed = changed]
  /\ pos' = p
  /\ UNCHANGED <<diff, pass, pc, p_base, need, p_name, inname, skip, reason, nhunk, patchprinted, out, log>>

Truncated == AtEnd(LineRead) /\ ~Pads

RemovedLine ==
  /\ pc = "line" /\ Filling /\ Sign = "-"
  /\ OldLeft
  /\ Fill(1, 0, "-", TRUE, MarkTaken(LineRead, LastOld))

AddedLine ==
  /\ pc = "line" /\ Filling /\ Sign = "+"
  /\ NewLeft
  /\ Fill(0, 1, "+", TRUE, MarkTaken(LineRead, LastNew))

\* A context line is stored as an old line and falls through to be stored as
\* a new one.
ContextLine ==
  /\ pc = "line" /\ Filling /\ ~Truncated /\ Sign = " "
  /\ OldLeft /\ NewLeft
  /\ Fill(1, 1, "~", hunk.changed, MarkTaken(MarkTaken(PosAfter(LineRead), LastOld), LastNew))

\* errreturn(-1): the parser gives up the rest of the file.
HunkTruncated ==
  /\ pc = "line" /\ Filling /\ Truncated
  /\ p_base' = FileSize
  /\ pc' = "over"
  /\ UNCHANGED <<diff, pass, pos, need, p_name, inname, skip, reason, nhunk, hunk, patchprinted, out, log>>

\* malformed: a line of no kind or beyond its side's count, or a hunk without
\* a change.
Malformed ==
  /\ pc = "line"
  /\ \/ /\ Filling /\ ~Truncated
        /\ \/ Sign = "x"
           \/ Sign = "-" /\ ~OldLeft
           \/ Sign = "+" /\ ~NewLeft
           \/ Sign = " " /\ ~(OldLeft /\ NewLeft)
     \/ ~Filling /\ ~hunk.changed
  /\ Exit

HunkComplete ==
  /\ pc = "line"
  /\ ~Filling /\ hunk.changed
  /\ pc' = "emit"
  /\ UNCHANGED <<diff, pass, pos, p_base, need, p_name, inname, skip, reason, nhunk, hunk, patchprinted, out, log>>

-----------------------------------------------------------------------------
(* gobble, for each hunk *)

\* Whether the first hunk says that the file is new, or deleted.
Creates == hunk.first = 1 /\ hunk.ptrn = 0
Deletes == hunk.newfirst = 1 /\ hunk.repl = 0

Headings ==
  (IF patchprinted THEN <<>> ELSE <<[sec |-> PHEADER]>>) \o <<[sec |-> FHEADER, name |-> inname]>>
HunkSection == [sec |-> HHEADER, first |-> hunk.first, newfirst |-> hunk.newfirst, ctrl |-> hunk.ctrl]

GobbleHunk ==
  /\ pc = "emit"
  /\ nhunk' = nhunk + 1
  /\ LET first == nhunk' = 1
         dropped == first /\ (Creates \/ Deletes)
     IN /\ reason' = IF dropped THEN (IF Creates THEN "NEW_FILE" ELSE "DEL_FILE") ELSE reason
        /\ skip' = (skip \/ dropped)
        /\ patchprinted' = (patchprinted \/ (first /\ ~skip'))
        /\ out' = out \o (IF first /\ ~skip' THEN Headings ELSE <<>>)
                      \o (IF ~skip' /\ hunk.ctrl # <<>> THEN <<HunkSection>> ELSE <<>>)
  /\ pc' = "head"
  /\ UNCHANGED <<diff, pass, pos, p_base, need, p_name, inname, hunk, log>>

-----------------------------------------------------------------------------
(* The loop of main: the report of the change, and reinitialize *)

\* Slip: reinitialize forgets the flag.
SkipKept == skip
SkipReset == FALSE

Reinitialize ==
  /\ pc = "over"
  /\ log' = Append(log, [reason |-> reason, name |-> inname])
  /\ inname' = NullName
  /\ skip' = SkipReset
  /\ hunk' = NoHunk
  /\ pc' = "another"
  /\ UNCHANGED <<diff, pass, pos, p_base, need, p_name, reason, nhunk, patchprinted, out>>

-----------------------------------------------------------------------------
Finished == pc \in Ended /\ UNCHANGED vars

Next ==
  \/ NoMorePatches \/ StartIntuit \/ IntuitEnds \/ IntuitLine \/ IntuitFound
  \/ GobbleStarts
  \/ NoMoreHunks \/ DamagedHead \/ OpenHunk
  \/ RemovedLine \/ AddedLine \/ ContextLine \/ HunkTruncated \/ Malformed \/ HunkComplete
  \/ GobbleHunk
  \/ Reinitialize
  \/ Finished

\* The program is sequential: it takes its next step.
Spec == Init /\ [][Next]_vars /\ WF_vars(Next)

-----------------------------------------------------------------------------
(* Properties *)

HunkType == [first : Nat, newfirst : Nat, ptrn : Nat, repl : Nat, fillsrc : Nat, filldst : Nat,
             ctrl : Seq({"-", "+", "~"}), changed : BOOLEAN]

\* The shape of the state; the parser's positions never leave the file.
TypeOK ==
  /\ pass \in BOOLEAN
  /\ pc \in {"another", "intuit", "gobble", "head", "line", "emit", "over"} \cup Ended
  /\ pos \in 0..FileSize
  /\ p_base \in 0..FileSize
  /\ need \in BOOLEAN
  /\ skip \in BOOLEAN
  /\ reason \in Reasons
  /\ nhunk \in Nat
  /\ hunk \in HunkType
  /\ patchprinted \in BOOLEAN
  /\ \A n \in DOMAIN log : log[n].reason \in Reasons

\* Each section is a header and its text.  The decoder takes a line number of
\* 0 for a number that is missing.
KindOf(s) == IF s.sec = HHEADER /\ (s.first = 0 \/ s.newfirst = 0) THEN HHEADER1 ELSE s.sec
WrittenKinds == [n \in 1..(2 * Len(out)) |-> IF n % 2 = 1 THEN KindOf(out[(n + 1) \div 2]) ELSE Text]

\* Whatever the patch file holds, as long as its headers count lines from 1,
\* what patch-c has written is a PIR the decoder accepts.
WritesPIR == IsPatchCOutput(WrittenKinds)

\* However the lines of a hunk are damaged, a hunk that is written removes,
\* adds and keeps as many lines as its header says, and changes something:
\* the decoder's line cursors end where the hunk ends.
Count(chars) == CharCount(hunk.ctrl, chars, Len(hunk.ctrl))
CountsAgree ==
  pc = "emit" =>
    /\ Count({"-", "~"}) = hunk.ptrn
    /\ Count({"+", "~"}) = hunk.repl
    /\ Count({"-", "+"}) > 0

\* The hunks written, each under the file it was written under.
FileAt(n) == out[Max({m \in 1..n : out[m].sec = FHEADER})].name
Written ==
  LET tagged == [n \in DOMAIN out |-> [sec |-> out[n], at |-> n]]
      hunks == SelectSeq(tagged, LAMBDA t : t.sec.sec = HHEADER)
  IN [i \in DOMAIN hunks |-> [name |-> FileAt(hunks[i].at), first |-> hunks[i].sec.first,
                              newfirst |-> hunks[i].sec.newfirst, ctrl |-> hunks[i].sec.ctrl]]

Meaning == DiffMeaning(diff.changes)
Whole == Lines = DiffLines(diff.changes)
Present == IF Lines # <<>> /\ Lines[FileSize].k = "cut" THEN Front(Lines) ELSE Lines
CutShort == IsPrefix(Present, DiffLines(diff.changes))

\* The written hunk is the wanted one, but that at the end of a file cut short
\* up to three lines may have become context.
SameButPadded(w, m) ==
  /\ w.name = m.name /\ w.first = m.first /\ w.newfirst = m.newfirst
  /\ \E read \in 0..Len(w.ctrl) :
       /\ SubSeq(w.ctrl, 1, read) = SubSeq(m.ctrl, 1, read)
       /\ Len(w.ctrl) - read <= 3
       /\ \A i \in (read + 1)..Len(w.ctrl) : w.ctrl[i] = "~"

\* Of a diff, whole or cut short anywhere, the hunks are written in order,
\* each under its own file, with its own lines, and none twice; only the last
\* one may be padded, and only where the file was cut.
NothingInvented ==
  CutShort =>
    /\ Len(Written) <= Len(Meaning)
    /\ \A n \in DOMAIN Written :
         \/ Written[n] = Meaning[n]
         \/ ~Whole /\ n = Len(Written) /\ SameButPadded(Written[n], Meaning[n])

\* A whole diff is never refused and all it means is written; each of its
\* changes is reported once, in order and under the reason it was skipped for.
EachChangeReported ==
  /\ IsPrefix(log, DiffReasons(diff.changes))
  /\ pc = "done" => log = DiffReasons(diff.changes)
WholeTranslated ==
  Whole => /\ pc = "done" => Written = Meaning
           /\ pc = "exit" => diff.changes = <<>>
           /\ EachChangeReported

\* What is written is what the diff means: all of it for a whole diff, a
\* beginning of it for one cut short (parser.cc:1136).
TranslatedExactly == WholeTranslated /\ NothingInvented

\* Whatever the file holds, the program ends.
Terminates == <>(pc \in Ended)
=============================================================================
