------------------------ MODULE PatchCompilerProofs ------------------------
(***************************************************************************)
(* Proofs about PatchCompiler, for every set of patch files and whatever   *)
(* is damaged in them: positions stay in the file, a hunk that is written  *)
(* has the lines its header counts, and the .id file is a PIR.             *)
(*                                                                         *)
(* The invariant relates the two fill pointers of another_hunk to the      *)
(* control characters read so far, and the flags of gobble to the sections *)
(* already written.                                                        *)
(***************************************************************************)
EXTENDS PatchCompiler, FiniteSetTheorems, SequenceTheorems, WellFoundedInduction, TLAPS

-----------------------------------------------------------------------------
(***************************************************************************)
(* A nonempty set of naturals has a least element, from the library's      *)
(* well-foundedness of < on Nat.                                           *)
(***************************************************************************)
Less == {p \in Nat \X Nat : p[1] < p[2]}

LEMMA LeastNatural ==
  ASSUME NEW T, T \subseteq Nat, T # {}
  PROVE  \E m \in T : \A n \in T : m <= n
<1>1. IsWellFoundedOn(Less, Nat)
  <2>1. OpToRel(<, Nat) = Less
    BY Zenon DEF OpToRel, Less
  <2> QED
    BY <2>1, NatLessThanWellFounded, Zenon
<1>2. PICK m \in T : \A n \in T : ~(<<n, m>> \in Less)
  BY <1>1, WFMin
<1>3. ASSUME NEW n \in T PROVE m <= n
  <2>1. m \in Nat /\ n \in Nat /\ ~(<<n, m>> \in Less)
    BY <1>2
  <2> QED
    BY <2>1 DEF Less
<1> QED
  BY <1>3

-----------------------------------------------------------------------------
(***************************************************************************)
(* Counting the positions of a sequence that hold one of some characters.  *)
(***************************************************************************)
LEMMA CharCountType ==
  ASSUME NEW s, NEW chars, NEW n \in Nat
  PROVE  /\ IsFiniteSet({p \in 1..n : s[p] \in chars})
         /\ CharCount(s, chars, n) \in 0..n
<1> DEFINE S == {p \in 1..n : s[p] \in chars}
<1>1. IsFiniteSet(1..n) /\ Cardinality(1..n) = n
  BY FS_Interval
<1>2. S \in SUBSET (1..n) OBVIOUS
<1>3. IsFiniteSet(S) /\ Cardinality(S) <= n
  BY <1>1, <1>2, FS_Subset
<1>4. Cardinality(S) \in Nat BY <1>3, FS_CardinalityType
<1> QED BY <1>3, <1>4 DEF CharCount

LEMMA CharCountStep ==
  ASSUME NEW s, NEW chars, NEW n \in Nat
  PROVE  CharCount(s, chars, n + 1)
           = CharCount(s, chars, n) + (IF s[n + 1] \in chars THEN 1 ELSE 0)
<1> DEFINE S(m) == {p \in 1..m : s[p] \in chars}
<1>1. IsFiniteSet(S(n)) /\ Cardinality(S(n)) \in Nat
  BY CharCountType DEF CharCount
<1>2. 1..(n + 1) = (1..n) \cup {n + 1} OBVIOUS
<1>3. n + 1 \notin S(n) OBVIOUS
<1>4. CASE s[n + 1] \in chars
  <2>1. S(n + 1) = S(n) \cup {n + 1} BY <1>2, <1>4
  <2> QED BY <2>1, <1>1, <1>3, <1>4, FS_AddElement DEF CharCount
<1>5. CASE s[n + 1] \notin chars
  <2>1. S(n + 1) = S(n) BY <1>2, <1>5
  <2> QED BY <2>1, <1>1, <1>5 DEF CharCount
<1> QED BY <1>4, <1>5

LEMMA CharCountEmpty ==
  ASSUME NEW s, NEW chars
  PROVE  CharCount(s, chars, 0) = 0
<1>1. {p \in 1..0 : s[p] \in chars} = {} OBVIOUS
<1> QED BY <1>1, FS_EmptySet DEF CharCount

\* The buffer grows at its end: what was counted stays counted.
LEMMA CharCountAppend ==
  ASSUME NEW A, NEW s \in Seq(A), NEW c \in A, NEW chars
  PROVE  CharCount(Append(s, c), chars, Len(s) + 1)
           = CharCount(s, chars, Len(s)) + (IF c \in chars THEN 1 ELSE 0)
<1> DEFINE t == Append(s, c)
<1>1. Len(s) \in Nat /\ t[Len(s) + 1] = c OBVIOUS
<1>2. \A p \in 1..Len(s) : t[p] = s[p] OBVIOUS
<1>3. {p \in 1..Len(s) : t[p] \in chars} = {p \in 1..Len(s) : s[p] \in chars}
  BY <1>2
<1>4. CharCount(t, chars, Len(s)) = CharCount(s, chars, Len(s))
  BY <1>3 DEF CharCount
<1>5. CharCount(t, chars, Len(s) + 1)
        = CharCount(t, chars, Len(s)) + (IF t[Len(s) + 1] \in chars THEN 1 ELSE 0)
  BY <1>1, CharCountStep
<1> QED BY <1>1, <1>4, <1>5

\* The characters read fill the two sides of the hunk from their beginnings.
FillExact ==
  pc \in {"line", "emit"} =>
    /\ hunk.fillsrc <= hunk.ptrn + 1
    /\ hunk.filldst <= hunk.ptrn + hunk.repl + 2
    /\ Count({"-", "~"}) = hunk.fillsrc - 1
    /\ Count({"+", "~"}) = hunk.filldst - hunk.ptrn - 2
    /\ hunk.changed => Count({"-", "+"}) > 0

\* A hunk being read has line numbers the decoder accepts.
NumbersGiven == pc \in {"line", "emit"} => hunk.first # 0 /\ hunk.newfirst # 0

\* Sections written: one patch header, a chapter header after it, and then
\* chapters and hunks.
SectionsSound(o) ==
  /\ o \in Seq(Range(o))
  /\ \A n \in DOMAIN o :
       /\ o[n].sec \in Headers
       /\ o[n].sec = HHEADER => o[n].first # 0 /\ o[n].newfirst # 0
       /\ n > 1 => o[n].sec # PHEADER
  /\ o # <<>> => Len(o) >= 2 /\ o[1].sec = PHEADER /\ o[2].sec = FHEADER

\* A change whose hunks are written has its headings written.
HeadingsWritten ==
  /\ patchprinted => out # <<>>
  /\ pc \in {"head", "line", "emit"} /\ nhunk > 0 /\ ~skip => patchprinted

IInv ==
  /\ diff \in Diffs
  /\ log \in Seq(Range(log))
  /\ TypeOK
  /\ FillExact
  /\ NumbersGiven
  /\ CountsAgree
  /\ SectionsSound(out)
  /\ HeadingsWritten
  /\ ~patchprinted => out = <<>>

-----------------------------------------------------------------------------
(* The lines of the file *)

\* pget_line returns a line after position p, or the end of the file.
LEMMA LineAfterReads ==
  ASSUME diff \in Diffs, NEW p \in 0..FileSize, NEW passes
  PROVE  LineAfter(p, passes) \in (p + 1)..(FileSize + 1)
<1> DEFINE kept == {n \in (p + 1)..FileSize : passes \/ Lines[n].k # "#"}
<1>1. FileSize \in Nat
  BY DiffsAssumption DEF FileSize, Lines
<1>2. CASE kept = {}
  BY <1>1, <1>2 DEF LineAfter
<1>3. CASE kept # {}
  <2>1. kept \subseteq Nat
    BY <1>1
  <2>2. PICK m \in kept : \A n \in kept : m <= n
    BY <1>3, <2>1, LeastNatural
  <2> HIDE DEF kept
  <2>3. Min(kept) \in kept
    BY <2>2 DEF Min
  <2>4. LineAfter(p, passes) = Min(kept)
    BY <1>3 DEF LineAfter, kept
  <2> QED
    BY <1>1, <2>3, <2>4 DEF kept
<1> QED
  BY <1>2, <1>3

\* What was read before the end is a line of the file.
LEMMA LineInFile ==
  ASSUME diff \in Diffs, NEW n \in 1..(FileSize + 1)
  PROVE  /\ FileSize \in Nat
         /\ ~AtEnd(n) => n \in DOMAIN Lines /\ n \in 1..FileSize
         /\ PosAfter(n) \in 0..FileSize
<1>1. FileSize \in Nat /\ DOMAIN Lines = 1..FileSize
  BY DiffsAssumption DEF FileSize, Lines
<1>2. ~AtEnd(n) => n <= FileSize
  BY <1>1 DEF AtEnd
<1> QED
  BY <1>1, <1>2 DEF PosAfter

\* So is the line pget_line returns next.
LEMMA NextLineInFile ==
  ASSUME diff \in Diffs, pos \in 0..FileSize, NEW passes, NEW n, n = LineAfter(pos, passes)
  PROVE  /\ n \in 1..(FileSize + 1)
         /\ ~AtEnd(n) => n \in DOMAIN Lines /\ n \in 1..FileSize
         /\ PosAfter(n) \in 0..FileSize
<1>1. FileSize \in Nat
  BY DiffsAssumption DEF FileSize, Lines
<1>2. n \in (pos + 1)..(FileSize + 1)
  BY LineAfterReads
<1>3. n \in 1..(FileSize + 1)
  BY <1>1, <1>2
<1> QED
  BY <1>3, LineInFile

\* The mark of a missing newline is a line of the file.
LEMMA MarkInFile ==
  ASSUME diff \in Diffs, NEW p \in 0..FileSize, NEW last
  PROVE  MarkTaken(p, last) \in 0..FileSize
<1>1. FileSize \in Nat
  BY DiffsAssumption DEF FileSize, Lines
<1>2. \/ MarkTaken(p, last) = p
      \/ p < FileSize /\ MarkTaken(p, last) = p + 1
  BY Zenon DEF MarkTaken
<1> QED
  BY <1>1, <1>2

-----------------------------------------------------------------------------
(* Steps that neither read a hunk nor write *)

LEMMA Quiet ==
  ASSUME IInv, TypeOK',
         UNCHANGED <<diff, hunk, patchprinted, out, log>>,
         pc' \notin {"line", "emit"},
         pc' = "head" => nhunk' = 0
  PROVE  IInv'
<1>1. diff' \in Diffs /\ log' \in Seq(Range(log'))
  BY DEF IInv
<1>2. FillExact' /\ NumbersGiven' /\ CountsAgree'
  BY DEF FillExact, NumbersGiven, CountsAgree
<1>3. SectionsSound(out)' /\ (~patchprinted => out = <<>>)'
  BY DEF IInv, SectionsSound
<1>4. HeadingsWritten'
  <2>1. (patchprinted => out # <<>>)'
    BY DEF IInv, HeadingsWritten
  <2>2. ~(pc \in {"head", "line", "emit"} /\ nhunk > 0)'
    OBVIOUS
  <2> QED
    BY <2>1, <2>2 DEF HeadingsWritten
<1> QED
  BY <1>1, <1>2, <1>3, <1>4 DEF IInv

LEMMA NoMorePatchesHolds == ASSUME IInv, NoMorePatches PROVE IInv'
<1>1. TypeOK'
  BY DEF IInv, TypeOK, NoMorePatches, Ended, FileSize, Lines
<1> QED
  BY <1>1, Quiet DEF NoMorePatches

LEMMA StartIntuitHolds == ASSUME IInv, StartIntuit PROVE IInv'
<1>1. TypeOK'
  BY DEF IInv, TypeOK, StartIntuit, Ended, FileSize, Lines
<1> QED
  BY <1>1, Quiet DEF StartIntuit

LEMMA IntuitEndsHolds == ASSUME IInv, IntuitEnds PROVE IInv'
<1>1. TypeOK'
  BY DEF IInv, TypeOK, IntuitEnds, Ended, FileSize, Lines
<1> QED
  BY <1>1, Quiet DEF IntuitEnds

LEMMA IntuitLineHolds == ASSUME IInv, IntuitLine PROVE IInv'
<1> DEFINE n == LineAfter(pos, FALSE)
<1>1. pos' = PosAfter(n) /\ pos' \in 0..FileSize
  <2>1. diff \in Diffs /\ pos \in 0..FileSize
    BY DEF IInv, TypeOK
  <2>2. PosAfter(n) \in 0..FileSize
    BY <2>1, NextLineInFile
  <2> QED
    BY <2>2 DEF IntuitLine
<1>2. need' \in BOOLEAN
  BY DEF IntuitLine
<1>3. TypeOK'
  BY <1>1, <1>2 DEF IInv, TypeOK, IntuitLine, Ended, FileSize, Lines
<1> QED
  BY <1>3, Quiet DEF IntuitLine

LEMMA IntuitFoundHolds == ASSUME IInv, IntuitFound PROVE IInv'
<1>1. skip' \in BOOLEAN
  BY DEF IntuitFound
<1>2. TypeOK'
  BY <1>1 DEF IInv, TypeOK, IntuitFound, Ended, FileSize, Lines
<1> QED
  BY <1>2, Quiet DEF IntuitFound

LEMMA GobbleStartsHolds == ASSUME IInv, GobbleStarts PROVE IInv'
<1>1. skip' \in BOOLEAN /\ reason' \in Reasons
  BY DEF GobbleStarts, Reasons
<1>2. TypeOK'
  BY <1>1 DEF IInv, TypeOK, GobbleStarts, Ended, FileSize, Lines
<1> QED
  BY <1>2, Quiet DEF GobbleStarts

LEMMA NoMoreHunksHolds == ASSUME IInv, NoMoreHunks PROVE IInv'
<1>1. TypeOK'
  BY DEF IInv, TypeOK, NoMoreHunks, NextIntuitAt, Ended, FileSize, Lines
<1> QED
  BY <1>1, Quiet DEF NoMoreHunks

LEMMA DamagedHeadHolds == ASSUME IInv, DamagedHead PROVE IInv'
<1>1. TypeOK'
  BY DEF IInv, TypeOK, DamagedHead, Exit, Ended, FileSize, Lines
<1> QED
  BY <1>1, Quiet DEF DamagedHead, Exit

LEMMA HunkTruncatedHolds == ASSUME IInv, HunkTruncated PROVE IInv'
<1>1. FileSize \in 0..FileSize
  BY DiffsAssumption DEF IInv, FileSize, Lines
<1>2. TypeOK'
  BY <1>1 DEF IInv, TypeOK, HunkTruncated, Ended, FileSize, Lines
<1> QED
  BY <1>2, Quiet DEF HunkTruncated

LEMMA MalformedHolds == ASSUME IInv, Malformed PROVE IInv'
<1>1. Exit
  BY DEF Malformed
<1>2. TypeOK'
  BY <1>1 DEF IInv, TypeOK, Exit, Ended, FileSize, Lines
<1> QED
  BY <1>1, <1>2, Quiet DEF Exit
-----------------------------------------------------------------------------
(* another_hunk *)

LEMMA OpenHunkHolds == ASSUME IInv, OpenHunk PROVE IInv'
<1> DEFINE n == LineAfter(pos, pass)
           l == Lines[n]
<1>1. diff \in Diffs /\ pos \in 0..FileSize /\ FileSize \in Nat
  BY DiffsAssumption DEF IInv, TypeOK, FileSize, Lines
<1>3. ~AtEnd(n) /\ l.k = "@@"
  BY DEF OpenHunk
<1>4. n \in DOMAIN Lines /\ n \in 1..FileSize
  BY <1>1, <1>3, NextLineInFile
<1>5. /\ l.from \in Nat /\ l.old \in Nat /\ l.to \in Nat /\ l.new \in Nat
      /\ l.from = 0 => l.old = 0
      /\ l.to = 0 => l.new = 0
  <2> HIDE DEF n
  <2> QED
    BY <1>1, <1>3, <1>4, DiffsAssumption DEF Lines
<1>6. /\ hunk' = [first |-> FirstLine(l.from, l.old), newfirst |-> FirstLine(l.to, l.new),
                  ptrn |-> l.old, repl |-> l.new,
                  fillsrc |-> 1, filldst |-> l.old + 2, ctrl |-> <<>>, changed |-> FALSE]
      /\ pos' = n /\ pc' = "line"
      /\ UNCHANGED <<diff, pass, p_base, need, p_name, inname, skip, reason, nhunk, patchprinted, out, log>>
  BY DEF OpenHunk
<1> HIDE DEF n, l
<1>7. /\ FirstLine(l.from, l.old) \in Nat /\ FirstLine(l.to, l.new) \in Nat
      /\ FirstLine(l.from, l.old) # 0 /\ FirstLine(l.to, l.new) # 0
  BY <1>5 DEF FirstLine
<1>8. hunk' \in HunkType
  <2>1. <<>> \in Seq({"-", "+", "~"})
    OBVIOUS
  <2> QED
    BY <1>5, <1>6, <1>7, <2>1 DEF HunkType
<1>9. TypeOK'
  BY <1>1, <1>4, <1>6, <1>8 DEF IInv, TypeOK, FileSize, Lines
<1>10. FillExact'
  <2>1. hunk'.ctrl = <<>> /\ Len(hunk'.ctrl) = 0
    BY <1>6
  <2>2. \A chars : Count(chars)' = 0
    BY <2>1, CharCountEmpty DEF Count
  <2> QED
    BY <1>5, <1>6, <2>2 DEF FillExact
<1>11. NumbersGiven' /\ CountsAgree'
  BY <1>6, <1>7 DEF NumbersGiven, CountsAgree
<1>12. SectionsSound(out)' /\ HeadingsWritten' /\ (~patchprinted => out = <<>>)'
  BY <1>6 DEF IInv, SectionsSound, HeadingsWritten, OpenHunk
<1> QED
  BY <1>1, <1>6, <1>9, <1>10, <1>11, <1>12 DEF IInv

\* A line is stored on its sides and its character appended.
LEMMA FillHolds ==
  ASSUME IInv, NEW old \in {0, 1}, NEW new \in {0, 1}, NEW char \in {"-", "+", "~"},
         NEW changed \in BOOLEAN, NEW p \in 0..FileSize,
         pc = "line", Fill(old, new, char, changed, p),
         old = 1 => OldLeft, new = 1 => NewLeft,
         old = (IF char \in {"-", "~"} THEN 1 ELSE 0),
         new = (IF char \in {"+", "~"} THEN 1 ELSE 0),
         changed => hunk.changed \/ char \in {"-", "+"}
  PROVE  IInv'
<1>1. /\ diff \in Diffs /\ hunk \in HunkType
      /\ diff' = diff /\ pc' = "line" /\ pos' = p
      /\ UNCHANGED <<pass, p_base, need, skip, reason, nhunk, patchprinted, out, log>>
  BY DEF IInv, TypeOK, Fill
<1>2. /\ hunk.first \in Nat /\ hunk.newfirst \in Nat /\ hunk.ptrn \in Nat /\ hunk.repl \in Nat
      /\ hunk.fillsrc \in Nat /\ hunk.filldst \in Nat /\ hunk.ctrl \in Seq({"-", "+", "~"})
  BY <1>1 DEF HunkType
<1>3. /\ hunk'.first = hunk.first /\ hunk'.newfirst = hunk.newfirst
      /\ hunk'.ptrn = hunk.ptrn /\ hunk'.repl = hunk.repl
      /\ hunk'.fillsrc = hunk.fillsrc + old /\ hunk'.filldst = hunk.filldst + new
      /\ hunk'.ctrl = Append(hunk.ctrl, char) /\ hunk'.changed = changed
      /\ DOMAIN hunk' = DOMAIN hunk
  BY <1>1 DEF Fill, HunkType
<1>4. hunk' \in HunkType
  <2>1. Append(hunk.ctrl, char) \in Seq({"-", "+", "~"})
    BY <1>2
  <2>2. hunk.fillsrc + old \in Nat /\ hunk.filldst + new \in Nat
    BY <1>2
  <2>3. hunk' = [first |-> hunk.first, newfirst |-> hunk.newfirst, ptrn |-> hunk.ptrn, repl |-> hunk.repl,
                 fillsrc |-> hunk.fillsrc + old, filldst |-> hunk.filldst + new,
                 ctrl |-> Append(hunk.ctrl, char), changed |-> changed]
    BY <1>1 DEF Fill, HunkType
  <2> QED
    BY <1>2, <2>1, <2>2, <2>3 DEF HunkType
<1>5. TypeOK'
  BY <1>1, <1>4 DEF IInv, TypeOK, FileSize, Lines
<1>6. \A chars : Count(chars)' = Count(chars) + (IF char \in chars THEN 1 ELSE 0)
  <2>1. Len(hunk'.ctrl) = Len(hunk.ctrl) + 1
    BY <1>2, <1>3
  <2>2. ASSUME NEW chars
        PROVE  CharCount(Append(hunk.ctrl, char), chars, Len(hunk.ctrl) + 1)
                 = CharCount(hunk.ctrl, chars, Len(hunk.ctrl)) + (IF char \in chars THEN 1 ELSE 0)
    BY <1>2, CharCountAppend
  <2> QED
    BY <1>3, <2>1, <2>2 DEF Count
<1>7. \A chars : Count(chars) \in Nat
  <2>1. Len(hunk.ctrl) \in Nat
    BY <1>2
  <2>2. \A chars : CharCount(hunk.ctrl, chars, Len(hunk.ctrl)) \in 0..Len(hunk.ctrl)
    BY <2>1, CharCountType
  <2> QED
    BY <2>1, <2>2 DEF Count
<1>8. FillExact'
  <2>1. /\ Count({"-", "~"}) = hunk.fillsrc - 1
        /\ Count({"+", "~"}) = hunk.filldst - hunk.ptrn - 2
        /\ hunk.changed => Count({"-", "+"}) > 0
        /\ hunk.fillsrc <= hunk.ptrn + 1
        /\ hunk.filldst <= hunk.ptrn + hunk.repl + 2
    BY DEF IInv, FillExact
  <2>2. Count({"-", "~"})' = Count({"-", "~"}) + old
    BY <1>6
  <2>3. Count({"+", "~"})' = Count({"+", "~"}) + new
    BY <1>6
  <2>4. changed => Count({"-", "+"})' > 0
    <3>1. Count({"-", "+"})' = Count({"-", "+"}) + (IF char \in {"-", "+"} THEN 1 ELSE 0)
      BY <1>6
    <3>2. Count({"-", "+"}) \in Nat
      BY <1>7
    <3> QED
      BY <3>1, <3>2, <2>1
  <2>5. hunk.fillsrc + old <= hunk.ptrn + 1
    BY <1>2, <2>1, SMTT(30) DEF OldLeft
  <2>6. hunk.filldst + new <= hunk.ptrn + hunk.repl + 2
    <3>1. new = 1 => hunk.filldst <= hunk.ptrn + 1 + hunk.repl
      BY DEF NewLeft, PEnd
    <3>2. new \in {0, 1} /\ hunk.filldst <= hunk.ptrn + hunk.repl + 2
      BY <2>1
    <3> QED
      BY <1>2, <3>1, <3>2
  <2>7. Count({"-", "~"})' = hunk'.fillsrc - 1
    BY <1>2, <1>3, <2>1, <2>2
  <2>8. Count({"+", "~"})' = hunk'.filldst - hunk'.ptrn - 2
    BY <1>2, <1>3, <2>1, <2>3, SMTT(30)
  <2> QED
    BY <1>3, <2>4, <2>5, <2>6, <2>7, <2>8 DEF FillExact
<1>9. NumbersGiven' /\ CountsAgree'
  BY <1>1, <1>3 DEF IInv, NumbersGiven, CountsAgree
<1>10. SectionsSound(out)' /\ HeadingsWritten' /\ (~patchprinted => out = <<>>)'
  BY <1>1 DEF IInv, SectionsSound, HeadingsWritten
<1> QED
  BY <1>1, <1>5, <1>8, <1>9, <1>10 DEF IInv

\* The line read inside a hunk.
LEMMA LineReadInFile ==
  ASSUME IInv
  PROVE  /\ PosAfter(LineRead) \in 0..FileSize
         /\ Sign # " " => LineRead \in 0..FileSize
<1>1. diff \in Diffs /\ pos \in 0..FileSize /\ FileSize \in Nat
  BY DiffsAssumption DEF IInv, TypeOK, FileSize, Lines
<1>2. Sign # " " => ~AtEnd(LineRead)
  BY DEF Sign
<1>3. LineRead = LineAfter(pos, pass)
  BY DEF LineRead
<1>4. PosAfter(LineRead) \in 0..FileSize /\ (~AtEnd(LineRead) => LineRead \in 1..FileSize)
  BY <1>1, <1>3, NextLineInFile, Zenon
<1>5. ASSUME Sign # " " PROVE LineRead \in 0..FileSize
  <2>1. LineRead \in 1..FileSize
    BY <1>2, <1>4, <1>5, Zenon
  <2> QED
    BY <1>1, <2>1
<1> QED
  BY <1>4, <1>5, Zenon

LEMMA RemovedLineHolds == ASSUME IInv, RemovedLine PROVE IInv'
<1>1. MarkTaken(LineRead, LastOld) \in 0..FileSize
  BY LineReadInFile, MarkInFile DEF IInv, RemovedLine
<1>2. Fill(1, 0, "-", TRUE, MarkTaken(LineRead, LastOld)) /\ pc = "line" /\ OldLeft
  BY DEF RemovedLine
<1>3. /\ 1 \in {0, 1} /\ 0 \in {0, 1} /\ TRUE \in BOOLEAN
      /\ "-" \in {"-", "+", "~"} /\ "-" \in {"-", "+"}
      /\ 1 = (IF "-" \in {"-", "~"} THEN 1 ELSE 0)
      /\ 0 = (IF "-" \in {"+", "~"} THEN 1 ELSE 0)
  OBVIOUS
<1>4. (1 = 1 => OldLeft) /\ (0 = 1 => NewLeft)
  BY <1>2
<1>5. TRUE => hunk.changed \/ "-" \in {"-", "+"}
  BY <1>3
<1> QED
  BY <1>1, <1>2, <1>3, <1>4, <1>5, FillHolds, Zenon

LEMMA AddedLineHolds == ASSUME IInv, AddedLine PROVE IInv'
<1>1. MarkTaken(LineRead, LastNew) \in 0..FileSize
  BY LineReadInFile, MarkInFile DEF IInv, AddedLine
<1>2. Fill(0, 1, "+", TRUE, MarkTaken(LineRead, LastNew)) /\ pc = "line" /\ NewLeft
  BY DEF AddedLine
<1>3. /\ 1 \in {0, 1} /\ 0 \in {0, 1} /\ TRUE \in BOOLEAN
      /\ "+" \in {"-", "+", "~"} /\ "+" \in {"-", "+"}
      /\ 0 = (IF "+" \in {"-", "~"} THEN 1 ELSE 0)
      /\ 1 = (IF "+" \in {"+", "~"} THEN 1 ELSE 0)
  OBVIOUS
<1>4. (0 = 1 => OldLeft) /\ (1 = 1 => NewLeft)
  BY <1>2
<1>5. TRUE => hunk.changed \/ "+" \in {"-", "+"}
  BY <1>3
<1> QED
  BY <1>1, <1>2, <1>3, <1>4, <1>5, FillHolds, Zenon

LEMMA ContextLineHolds == ASSUME IInv, ContextLine PROVE IInv'
<1> DEFINE p == MarkTaken(MarkTaken(PosAfter(LineRead), LastOld), LastNew)
<1>1. p \in 0..FileSize
  BY LineReadInFile, MarkInFile DEF IInv
<1>2. Fill(1, 1, "~", hunk.changed, p) /\ pc = "line" /\ OldLeft /\ NewLeft
  BY DEF ContextLine
<1>3. hunk.changed \in BOOLEAN
  BY DEF IInv, TypeOK, HunkType
<1> HIDE DEF p
<1>4. /\ 1 \in {0, 1} /\ "~" \in {"-", "+", "~"}
      /\ 1 = (IF "~" \in {"-", "~"} THEN 1 ELSE 0)
      /\ 1 = (IF "~" \in {"+", "~"} THEN 1 ELSE 0)
  OBVIOUS
<1> QED
  BY <1>1, <1>2, <1>3, <1>4, FillHolds, Zenon

LEMMA HunkCompleteHolds == ASSUME IInv, HunkComplete PROVE IInv'
<1>1. /\ pc = "line" /\ ~OldLeft /\ ~NewLeft /\ hunk.changed /\ pc' = "emit"
      /\ UNCHANGED <<diff, pass, pos, p_base, need, p_name, inname, skip, reason, nhunk, hunk, patchprinted, out, log>>
  BY DEF HunkComplete, Filling
<1>2. TypeOK'
  BY <1>1 DEF IInv, TypeOK, FileSize, Lines
<1>3. FillExact'
  BY <1>1 DEF IInv, FillExact, Count
<1>4. NumbersGiven'
  BY <1>1 DEF IInv, NumbersGiven
<1>5. CountsAgree'
  <2>1. hunk.ptrn \in Nat /\ hunk.repl \in Nat /\ hunk.fillsrc \in Nat /\ hunk.filldst \in Nat
    BY DEF IInv, TypeOK, HunkType
  <2>2. FillExact /\ pc \in {"line", "emit"}
    BY <1>1 DEF IInv
  <2>3. hunk.fillsrc = hunk.ptrn + 1 /\ hunk.filldst = hunk.ptrn + hunk.repl + 2
    BY <1>1, <2>1, <2>2 DEF FillExact, OldLeft, NewLeft, PEnd
  <2>4. Count({"-", "~"}) = hunk.ptrn /\ Count({"+", "~"}) = hunk.repl /\ Count({"-", "+"}) > 0
    BY <1>1, <2>1, <2>2, <2>3 DEF FillExact
  <2> QED
    BY <1>1, <2>4 DEF CountsAgree, Count
<1>6. SectionsSound(out)' /\ HeadingsWritten' /\ (~patchprinted => out = <<>>)'
  BY <1>1 DEF IInv, SectionsSound, HeadingsWritten
<1> QED
  BY <1>1, <1>2, <1>3, <1>4, <1>5, <1>6 DEF IInv
-----------------------------------------------------------------------------
(* gobble: the sections of the .id file *)

\* Sections are added at the end.
LEMMA SectionAdded ==
  ASSUME NEW o, SectionsSound(o), o # <<>>,
         NEW t, t.sec \in {FHEADER, HHEADER}, t.sec = HHEADER => t.first # 0 /\ t.newfirst # 0
  PROVE  /\ SectionsSound(o \o <<t>>)
         /\ o \o <<t>> # <<>>
<1> DEFINE q == o \o <<t>>
           A == Range(o) \cup {t}
<1>1. o \in Seq(A) /\ <<t>> \in Seq(A)
  BY DEF SectionsSound
<1> HIDE DEF A
<1>2. /\ q \in Seq(A) /\ Len(o) \in Nat /\ Len(q) = Len(o) + 1 /\ DOMAIN q = 1..(Len(o) + 1)
      /\ \A n \in 1..Len(o) : q[n] = o[n]
      /\ q[Len(o) + 1] = t
      /\ DOMAIN o = 1..Len(o)
  BY <1>1
<1> HIDE DEF q
<1>3. Len(o) >= 2 /\ o[1].sec = PHEADER /\ o[2].sec = FHEADER
  BY DEF SectionsSound
<1>4. q \in Seq(Range(q))
  BY <1>2 DEF Range
<1>5. q # <<>> /\ Len(q) >= 2 /\ q[1].sec = PHEADER /\ q[2].sec = FHEADER
  BY <1>2, <1>3
<1>6. ASSUME NEW n \in DOMAIN q
      PROVE  /\ q[n].sec \in Headers
             /\ q[n].sec = HHEADER => q[n].first # 0 /\ q[n].newfirst # 0
             /\ n > 1 => q[n].sec # PHEADER
  <2>1. CASE n \in 1..Len(o)
    BY <1>2, <2>1 DEF SectionsSound
  <2>2. CASE n = Len(o) + 1
    BY <1>2, <2>2 DEF Headers, PHEADER, FHEADER, HHEADER
  <2> QED
    BY <1>2, <2>1, <2>2
<1>7. SectionsSound(q)
  BY <1>4, <1>5, <1>6 DEF SectionsSound
<1> QED
  BY <1>5, <1>7 DEF q

\* Two sequences of one element make one of two.
LEMMA TwoJoined == ASSUME NEW a, NEW b PROVE <<a>> \o <<b>> = <<a, b>>
<1> DEFINE s == <<a>> \o <<b>>
           t == <<a, b>>
<1>1. t \in Seq({a, b}) /\ Len(t) = 2 /\ t[1] = a /\ t[2] = b
  OBVIOUS
<1>2. s \in Seq({a, b}) /\ Len(s) = 2 /\ s[1] = a /\ s[2] = b
  <2>1. <<a>> \in Seq({a, b}) /\ <<b>> \in Seq({a, b}) /\ Len(<<a>>) = 1 /\ Len(<<b>>) = 1
        /\ <<a>>[1] = a /\ <<b>>[1] = b
    OBVIOUS
  <2> QED
    BY <2>1, ConcatProperties
<1> HIDE DEF s, t
<1>3. \A i \in 1..Len(s) : s[i] = t[i]
  BY <1>1, <1>2
<1>4. s = t
  BY <1>1, <1>2, <1>3, SeqEqual
<1> QED
  BY <1>4 DEF s, t

\* The headings of the first change written.
LEMMA SectionsBegin ==
  ASSUME NEW p, NEW c, p.sec = PHEADER, c.sec = FHEADER
  PROVE  SectionsSound(<<p, c>>) /\ <<p, c>> # <<>>
<1> DEFINE q == <<p, c>>
<1>1. q \in Seq({p, c}) /\ Len(q) = 2 /\ DOMAIN q = 1..2 /\ q[1] = p /\ q[2] = c /\ q # <<>>
  OBVIOUS
<1> HIDE DEF q
<1>2. q \in Seq(Range(q))
  BY <1>1 DEF Range
<1>3. ASSUME NEW n \in DOMAIN q
      PROVE  /\ q[n].sec \in Headers
             /\ q[n].sec = HHEADER => q[n].first # 0 /\ q[n].newfirst # 0
             /\ n > 1 => q[n].sec # PHEADER
  <2>1. CASE n = 1
    <3>1. q[n].sec = PHEADER /\ ~(n > 1)
      BY <1>1, <2>1
    <3>2. PHEADER \in Headers /\ PHEADER # HHEADER
      BY DEF Headers, PHEADER, HHEADER
    <3> QED
      BY <3>1, <3>2
  <2>2. CASE n = 2
    BY <1>1, <2>2 DEF Headers, PHEADER, FHEADER, HHEADER
  <2> QED
    BY <1>1, <2>1, <2>2
<1>4. SectionsSound(q)
  BY <1>1, <1>2, <1>3 DEF SectionsSound
<1> QED
  BY <1>1, <1>4 DEF q

\* Appending nothing changes nothing.
LEMMA SectionsSame ==
  ASSUME NEW o, SectionsSound(o)
  PROVE  o \o <<>> = o
<1>1. o \in Seq(Range(o))
  BY DEF SectionsSound
<1> QED
  BY <1>1
LEMMA GobbleHunkHolds == ASSUME IInv, GobbleHunk PROVE IInv'
<1> DEFINE first == nhunk' = 1
           writes == first /\ ~skip'
           C == [sec |-> FHEADER, name |-> inname]
           opened == out \o (IF writes THEN Headings ELSE <<>>)
<1>1. /\ pc = "emit" /\ pc' = "head" /\ nhunk' = nhunk + 1
      /\ patchprinted' = (patchprinted \/ writes)
      /\ out' = opened \o (IF ~skip' /\ hunk.ctrl # <<>> THEN <<HunkSection>> ELSE <<>>)
      /\ UNCHANGED <<diff, pass, pos, p_base, need, p_name, inname, hunk, log>>
      /\ skip \in BOOLEAN /\ skip' \in BOOLEAN /\ (~skip' => ~skip)
      /\ reason' \in Reasons
  BY DEF GobbleHunk, IInv, TypeOK, Reasons
<1>2. TypeOK'
  <2>1. nhunk' \in Nat /\ patchprinted' \in BOOLEAN
    BY <1>1 DEF IInv, TypeOK
  <2> QED
    BY <1>1, <2>1 DEF IInv, TypeOK, Ended, FileSize, Lines
<1>3. FillExact' /\ NumbersGiven' /\ CountsAgree'
  BY <1>1 DEF FillExact, NumbersGiven, CountsAgree
<1>4. SectionsSound(opened) /\ (~skip' => opened # <<>>) /\ (out # <<>> => opened # <<>>)
      /\ (~patchprinted' => opened = <<>>)
  <2>0. SectionsSound(out) /\ (patchprinted <=> out # <<>>)
    BY DEF IInv, HeadingsWritten
  <2>1. CASE writes /\ ~patchprinted
    <3> DEFINE H == [sec |-> PHEADER]
    <3>1. H.sec = PHEADER /\ C.sec = FHEADER
      OBVIOUS
    <3>2. Headings = <<H>> \o <<C>>
      BY <2>1 DEF Headings
    <3> HIDE DEF H, C
    <3>3. <<>> \o (<<H>> \o <<C>>) = <<H, C>>
      <4>1. <<H>> \o <<C>> = <<H, C>>
        BY TwoJoined
      <4>2. <<H, C>> \in Seq({H, C})
        OBVIOUS
      <4>3. <<>> \o <<H, C>> = <<H, C>>
        BY <4>2, ConcatEmptySeq
      <4> QED
        BY <4>1, <4>3, Zenon
    <3>4. opened = <<H, C>>
      BY <2>0, <2>1, <3>2, <3>3, Zenon DEF opened
    <3>5. SectionsSound(<<H, C>>) /\ <<H, C>> # <<>>
      BY <3>1, SectionsBegin
    <3>6. patchprinted'
      BY <1>1, <2>1
    <3> HIDE DEF opened, writes
    <3> QED
      BY <3>4, <3>5, <3>6, Zenon
  <2>2. CASE writes /\ patchprinted
    <3>1. Headings = <<>> \o <<C>>
      BY <2>2 DEF Headings
    <3>2. C.sec \in {FHEADER, HHEADER} /\ (C.sec = HHEADER => C.first # 0 /\ C.newfirst # 0)
      BY DEF FHEADER, HHEADER
    <3> HIDE DEF C
    <3>3. <<>> \o <<C>> = <<C>>
      OBVIOUS
    <3>4. opened = out \o <<C>>
      BY <2>2, <3>1, <3>3, Zenon DEF opened
    <3>5. SectionsSound(out \o <<C>>) /\ out \o <<C>> # <<>>
      BY <2>0, <2>2, <3>2, SectionAdded
    <3>6. patchprinted'
      BY <1>1, <2>2
    <3> HIDE DEF opened, writes
    <3> QED
      BY <3>4, <3>5, <3>6, Zenon
  <2>3. CASE ~writes
    <3>1. opened = out
      <4>1. out \o <<>> = out
        BY <2>0, SectionsSame
      <4> QED
        BY <2>3, <4>1, Zenon DEF opened
    <3>2. ~skip' => nhunk > 0 /\ ~skip
      BY <1>1, <2>3 DEF IInv, TypeOK
    <3>3. ~skip' => patchprinted
      BY <1>1, <3>2 DEF IInv, HeadingsWritten
    <3>4. ~patchprinted' => ~patchprinted
      BY <1>1
    <3> HIDE DEF opened, writes
    <3> QED
      BY <2>0, <3>1, <3>3, <3>4, Zenon
  <2> QED
    BY <2>1, <2>2, <2>3
<1> HIDE DEF opened
<1>5. SectionsSound(out') /\ (opened # <<>> => out' # <<>>) /\ (~patchprinted' => out' = <<>>)
  <2>1. CASE ~skip' /\ hunk.ctrl # <<>>
    <3>1. out' = opened \o <<HunkSection>>
      BY <1>1, <2>1
    <3>2. /\ HunkSection.sec \in {FHEADER, HHEADER}
          /\ HunkSection.first # 0 /\ HunkSection.newfirst # 0
      BY <1>1 DEF IInv, NumbersGiven, HunkSection
    <3>3. SectionsSound(opened \o <<HunkSection>>) /\ opened \o <<HunkSection>> # <<>>
      BY <1>4, <2>1, <3>2, SectionAdded
    <3>4. patchprinted'
      BY <1>4, <2>1
    <3> QED
      BY <3>1, <3>3, <3>4
  <2>2. CASE ~(~skip' /\ hunk.ctrl # <<>>)
    <3>1. out' = opened
      BY <1>1, <1>4, <2>2, SectionsSame
    <3> QED
      BY <1>4, <3>1
  <2> QED
    BY <2>1, <2>2
<1>6. HeadingsWritten'
  <2>1. patchprinted' => out' # <<>>
    <3>1. CASE patchprinted
      <4>1. out # <<>>
        BY <3>1 DEF IInv, HeadingsWritten
      <4> QED
        BY <4>1, <1>4, <1>5
    <3>2. CASE writes
      BY <3>2, <1>4, <1>5
    <3> QED
      BY <1>1, <3>1, <3>2
  <2>2. ~skip' => patchprinted'
    BY <1>4
  <2> QED
    BY <2>1, <2>2 DEF HeadingsWritten
<1>7. diff' \in Diffs /\ log' \in Seq(Range(log'))
  BY <1>1 DEF IInv
<1> QED
  BY <1>2, <1>3, <1>5, <1>6, <1>7 DEF IInv

-----------------------------------------------------------------------------
(* The loop of main *)

LEMMA ReinitializeHolds == ASSUME IInv, Reinitialize PROVE IInv'
<1> DEFINE r == [reason |-> reason, name |-> inname]
<1>1. /\ pc' = "another" /\ log' = Append(log, r) /\ hunk' = NoHunk /\ skip' = FALSE
      /\ UNCHANGED <<diff, pass, pos, p_base, need, p_name, reason, nhunk, patchprinted, out>>
  BY DEF Reinitialize, SkipReset
<1>2. /\ log' \in Seq(Range(log'))
      /\ \A n \in DOMAIN log' : log'[n].reason \in Reasons
  <2>1. r.reason \in Reasons
    BY DEF IInv, TypeOK
  <2> HIDE DEF r
  <2>2. /\ Len(log) \in Nat /\ DOMAIN log' = 1..(Len(log) + 1) /\ Len(log') = Len(log) + 1
        /\ DOMAIN log = 1..Len(log)
        /\ \A n \in 1..Len(log) : log'[n] = log[n]
        /\ log'[Len(log) + 1] = r
        /\ log' \in Seq(Range(log) \cup {r})
    <3> DEFINE A == Range(log) \cup {r}
    <3>1. log \in Seq(A) /\ r \in A
      BY DEF IInv
    <3> HIDE DEF A
    <3>2. Append(log, r) \in Seq(A)
      BY <3>1
    <3>3. log' \in Seq(A)
      BY <1>1, <3>2
    <3>4. /\ Len(log) \in Nat /\ DOMAIN log' = 1..(Len(log) + 1) /\ Len(log') = Len(log) + 1
          /\ DOMAIN log = 1..Len(log)
          /\ \A n \in 1..Len(log) : log'[n] = log[n]
          /\ log'[Len(log) + 1] = r
      BY <1>1, <3>1
    <3> QED
      BY <3>3, <3>4 DEF A
  <2>3. \A n \in DOMAIN log : log[n].reason \in Reasons
    BY DEF IInv, TypeOK
  <2>4. \A n \in DOMAIN log' : log'[n].reason \in Reasons
    BY <2>1, <2>2, <2>3
  <2>5. log' \in Seq(Range(log'))
    BY <2>2 DEF Range
  <2> QED
    BY <2>4, <2>5
<1>3. hunk' \in HunkType
  <2>1. <<>> \in Seq({"-", "+", "~"})
    OBVIOUS
  <2> QED
    BY <1>1, <2>1 DEF NoHunk, HunkType
<1>4. TypeOK'
  BY <1>1, <1>2, <1>3 DEF IInv, TypeOK, FileSize, Lines
<1>5. FillExact' /\ NumbersGiven' /\ CountsAgree'
  BY <1>1 DEF FillExact, NumbersGiven, CountsAgree
<1>6. SectionsSound(out)' /\ (~patchprinted => out = <<>>)'
  BY <1>1 DEF IInv, SectionsSound
<1>7. HeadingsWritten'
  BY <1>1 DEF IInv, HeadingsWritten
<1>8. diff' \in Diffs
  BY <1>1 DEF IInv
<1> QED
  BY <1>2, <1>4, <1>5, <1>6, <1>7, <1>8 DEF IInv

\* At the start nothing is read or written.
LEMMA InitHolds == ASSUME Init PROVE IInv
<1>1. /\ diff \in Diffs /\ pass \in BOOLEAN /\ pc = "another" /\ pos = 0 /\ p_base = 0
      /\ need = TRUE /\ skip = FALSE /\ reason = "NO_REASON" /\ nhunk = 0 /\ hunk = NoHunk
      /\ patchprinted = FALSE /\ out = <<>> /\ log = <<>>
  BY DEF Init
<1>2. FileSize \in Nat
  BY <1>1, DiffsAssumption DEF FileSize, Lines
<1>3. hunk \in HunkType
  <2>1. <<>> \in Seq({"-", "+", "~"})
    OBVIOUS
  <2> QED
    BY <1>1, <2>1 DEF NoHunk, HunkType
<1>4. TypeOK
  <2>1. 0 \in 0..FileSize
    BY <1>2
  <2>2. \A n \in DOMAIN log : log[n].reason \in Reasons
    <3>1. DOMAIN log = {}
      BY <1>1
    <3> QED
      BY <3>1
  <2>3. reason \in Reasons
    BY <1>1 DEF Reasons
  <2> QED
    BY <1>1, <1>3, <2>1, <2>2, <2>3 DEF TypeOK
<1>5. FillExact /\ NumbersGiven /\ CountsAgree
  BY <1>1 DEF FillExact, NumbersGiven, CountsAgree
<1>6. <<>> \in Seq(Range(<<>>))
  OBVIOUS
<1>7. SectionsSound(out)
  BY <1>1, <1>6 DEF SectionsSound
<1>8. HeadingsWritten
  BY <1>1 DEF HeadingsWritten
<1> QED
  BY <1>1, <1>4, <1>5, <1>6, <1>7, <1>8 DEF IInv

LEMMA NextHolds == ASSUME IInv, [Next]_vars PROVE IInv'
<1>1. CASE UNCHANGED vars
  <2>1. TypeOK'
    BY <1>1 DEF vars, IInv, TypeOK, FileSize, Lines
  <2>2. FillExact' /\ NumbersGiven' /\ CountsAgree'
    BY <1>1 DEF vars, IInv, FillExact, NumbersGiven, CountsAgree, Count
  <2>3. SectionsSound(out)' /\ HeadingsWritten' /\ (~patchprinted => out = <<>>)'
    BY <1>1 DEF vars, IInv, SectionsSound, HeadingsWritten
  <2>4. diff' \in Diffs /\ log' \in Seq(Range(log'))
    BY <1>1 DEF vars, IInv
  <2> QED
    BY <2>1, <2>2, <2>3, <2>4 DEF IInv
<1>2. CASE Next /\ ~Finished
  BY <1>2, NoMorePatchesHolds, StartIntuitHolds, IntuitEndsHolds, IntuitLineHolds, IntuitFoundHolds,
     GobbleStartsHolds, NoMoreHunksHolds, DamagedHeadHolds, OpenHunkHolds, RemovedLineHolds,
     AddedLineHolds, ContextLineHolds, HunkTruncatedHolds, MalformedHolds, HunkCompleteHolds,
     GobbleHunkHolds, ReinitializeHolds DEF Next
<1>3. CASE Finished
  BY <1>1, <1>3 DEF Finished
<1> QED
  BY <1>1, <1>2, <1>3

-----------------------------------------------------------------------------
(* The results *)

\* The invariant of patch-c over one patch file.
THEOREM Invariance == Spec => []IInv
<1>1. Init => IInv
  BY InitHolds
<1>2. IInv /\ [Next]_vars => IInv'
  BY NextHolds
<1> QED
  BY <1>1, <1>2, PTL DEF Spec

\* Whatever the patch file holds, the parser's positions never leave it.
THEOREM TypeCorrect == Spec => []TypeOK
<1>1. IInv => TypeOK
  BY DEF IInv
<1> QED
  BY <1>1, Invariance, PTL

\* However the lines of a hunk are damaged, a hunk that is written removes, adds
\* and keeps as many lines as its header says.
THEOREM CountsAlwaysAgree == Spec => []CountsAgree
<1>1. IInv => CountsAgree
  BY DEF IInv
<1> QED
  BY <1>1, Invariance, PTL

\* Sections in that order, each a header and its text, are a PIR.
LEMMA SectionsArePIR == ASSUME SectionsSound(out) PROVE WritesPIR
<1> DEFINE f == WrittenKinds
           N == Len(out)
<1>1. N \in Nat /\ DOMAIN out = 1..N
  BY DEF SectionsSound
<1>2. /\ f = [n \in 1..(2 * N) |-> IF n % 2 = 1 THEN KindOf(out[(n + 1) \div 2]) ELSE Text]
      /\ DOMAIN f = 1..(2 * N)
  BY DEF WrittenKinds
<1>3. Len(f) = 2 * N
  BY <1>1, <1>2
<1> HIDE DEF f, N
<1>4. ASSUME NEW m \in 1..N PROVE f[2 * m - 1] = KindOf(out[m]) /\ f[2 * m] = Text
  <2>1. 2 * m - 1 \in 1..(2 * N) /\ 2 * m \in 1..(2 * N)
    BY <1>1
  <2>2. (2 * m - 1) % 2 = 1 /\ (2 * m) % 2 = 0 /\ ((2 * m - 1) + 1) \div 2 = m
    BY <1>1
  <2> QED
    BY <1>2, <2>1, <2>2
<1>5. ASSUME NEW m \in 1..N PROVE KindOf(out[m]) = out[m].sec /\ out[m].sec \in Headers
  BY <1>1 DEF SectionsSound, KindOf
<1>6. Len(f) % 2 = 0 /\ Len(f) \div 2 = N
  BY <1>1, <1>3
<1>7. Len(f) > 0 => f[1] = PHEADER
  <2>1. SUFFICES ASSUME N > 0 PROVE f[1] = PHEADER
    BY <1>1, <1>3
  <2>2. out[1].sec = PHEADER /\ 1 \in 1..N
    BY <1>1, <2>1 DEF SectionsSound, N
  <2>3. f[2 * 1 - 1] = KindOf(out[1])
    BY <1>4, <2>2
  <2> QED
    BY <1>5, <2>2, <2>3
<1>8. ASSUME NEW n \in DOMAIN f, f[n] = PHEADER
      PROVE  n + 2 \in DOMAIN f /\ f[n + 2] = FHEADER
  <2>1. n = 1
    <3>1. PICK m \in 1..N : n = 2 * m - 1 \/ n = 2 * m
      <4>1. n \in 1..(2 * N)
        BY <1>2
      <4>2. (n + 1) \div 2 \in 1..N /\ (n = 2 * ((n + 1) \div 2) - 1 \/ n = 2 * ((n + 1) \div 2))
        BY <1>1, <4>1
      <4> QED
        BY <4>2
    <3>2. n # 2 * m
      BY <1>4, <1>8, <3>1 DEF PHEADER, Text
    <3>3. out[m].sec = PHEADER
      BY <1>4, <1>5, <1>8, <3>1, <3>2
    <3>4. ~(m > 1)
      BY <1>1, <3>3 DEF SectionsSound
    <3> QED
      BY <3>1, <3>2, <3>4
  <2>2. N >= 2 /\ out[2].sec = FHEADER
    BY <1>1, <1>2, <2>1 DEF SectionsSound, N
  <2>3. f[2 * 2 - 1] = KindOf(out[2]) /\ KindOf(out[2]) = FHEADER /\ 3 \in 1..(2 * N)
    BY <1>1, <1>4, <1>5, <2>2
  <2> QED
    BY <1>2, <2>1, <2>3
<1>9. \A n \in 1..(Len(f) \div 2) : f[2 * n - 1] \in Headers /\ f[2 * n] = Text
  BY <1>4, <1>5, <1>6
<1> QED
  BY <1>6, <1>7, <1>8, <1>9 DEF WritesPIR, IsPatchCOutput, f

\* Whatever the patch file holds, as long as its headers count lines from 1,
\* what patch-c has written is a PIR the decoder accepts.
THEOREM PIRWritten == Spec => []WritesPIR
<1>1. IInv => WritesPIR
  BY SectionsArePIR DEF IInv
<1> QED
  BY <1>1, Invariance, PTL
=============================================================================
