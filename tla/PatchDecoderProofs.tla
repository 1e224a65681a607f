------------------------- MODULE PatchDecoderProofs -------------------------
(***************************************************************************)
(* Proofs about PatchDecoder, for every set of files and of drivers: the   *)
(* push-back is sound, the hunks a driver uses come in file order, each    *)
(* with its own control line, and nothing of a file of patch-c is lost.    *)
(*                                                                         *)
(* The first invariant relates every position the program holds (the       *)
(* buffer, the names and the hunk in hand, the hunks already used) to the  *)
(* number of lines behind the decoder, whether or not one line is pushed   *)
(* back.  The second, for files of patch-c, says that the decoder stands   *)
(* between two sections and that the names in hand are those it stands in. *)
(***************************************************************************)
EXTENDS PatchDecoder, TLAPS

\* A line state that may be left behind: inside the file, the buffer holding
\* the last line read or nothing, and at most a section header pushed back.
StreamSound(s) ==
  /\ s \in StreamType
  /\ s.pos <= Len(file)
  /\ s.buf = 0 \/ s.buf = s.pos
  /\ s.rewind => s.buf = s.pos /\ s.buf > 0 /\ Overcrosses(s)

\* The lines behind a decoder in line state s.
BehindOf(s) == IF s.rewind THEN s.pos - 1 ELSE s.pos

\* The names in hand lie behind the decoder, in the order of their sections.
NamesBehind ==
  /\ pc = "next_chapter" => patch.name <= Behind
  /\ pc \in {"match_file", "skip", "next_hunk", "use_hunk"} => patch.name < chap /\ chap <= Behind

\* The hunk in hand is two lines, the last two read.
HunkInHand ==
  pc = "use_hunk" =>
    /\ ~st.rewind
    /\ st.buf = st.pos
    /\ st.buf = hunk + 1
    /\ file[hunk] = HHEADER
    /\ chap < hunk

\* The hunks used lie behind the decoder, and before the hunk in hand.
UsedBehind ==
  \A n \in DOMAIN delivered :
    /\ delivered[n].ctrl <= Behind
    /\ pc = "use_hunk" => delivered[n].ctrl < hunk

IInv ==
  /\ TypeOK
  /\ StreamSound(st)
  /\ NamesBehind
  /\ HunkInHand
  /\ UsedBehind
  /\ HunksInOrder

-----------------------------------------------------------------------------
\* next_line from a sound state yields the line after those behind it, or no
\* line, and leaves nothing pushed back.
LEMMA NextLineReads ==
  ASSUME NEW s, StreamSound(s), Len(file) \in Nat
  PROVE  /\ StreamSound(NextLine(s))
         /\ ~NextLine(s).rewind
         /\ NextLine(s).buf = 0 \/ NextLine(s).buf = BehindOf(s) + 1
         /\ BehindOf(NextLine(s)) \in Nat
         /\ BehindOf(s) \in Nat
         /\ BehindOf(s) <= BehindOf(NextLine(s))
<1>1. CASE s.rewind
  <2>1. NextLine(s) = [s EXCEPT !.rewind = FALSE]
    BY <1>1 DEF NextLine
  <2>2. /\ NextLine(s) \in StreamType
        /\ NextLine(s).pos = s.pos
        /\ NextLine(s).buf = s.buf
        /\ ~NextLine(s).rewind
    BY <2>1 DEF StreamSound, StreamType
  <2>3. BehindOf(s) = s.pos - 1
    BY <1>1 DEF BehindOf
  <2> QED
    BY <1>1, <2>2, <2>3 DEF StreamSound, StreamType, BehindOf
<1>2. CASE ~s.rewind
  <2>1. NextLine(s) = ReadOn(s)
    BY <1>2 DEF NextLine
  <2>2. BehindOf(s) = s.pos
    BY <1>2 DEF BehindOf
  <2> QED
    BY <1>2, <2>1, <2>2 DEF StreamSound, StreamType, ReadOn, BehindOf
<1> QED
  BY <1>1, <1>2

\* A pushed-back header is sound, and leaves behind what lay behind before it.
LEMMA UngetSound ==
  ASSUME NEW s, StreamSound(s), ~s.rewind, Overcrosses(s)
  PROVE  /\ StreamSound(Unget(s))
         /\ BehindOf(Unget(s)) = s.buf - 1
<1>1. s.buf # 0
  BY DEF Overcrosses, Kind, PHEADER, FHEADER, Empty
<1>2. /\ Unget(s) \in StreamType
      /\ Unget(s).pos = s.pos
      /\ Unget(s).buf = s.buf
      /\ Unget(s).rewind
  BY DEF Unget, StreamSound, StreamType
<1>3. Overcrosses(Unget(s))
  BY <1>2 DEF Overcrosses, Kind
<1> QED
  BY <1>1, <1>2, <1>3 DEF StreamSound, StreamType, BehindOf

\* What a method knows of the first and of the second line it reads.
LEMMA TwoLines ==
  ASSUME IInv
  PROVE  /\ Behind = BehindOf(st) /\ Behind \in Nat
         /\ StreamSound(Line1) /\ ~Line1.rewind
         /\ Line1.buf = 0 \/ Line1.buf = Behind + 1
         /\ Behind <= BehindOf(Line1)
         /\ StreamSound(Line2) /\ ~Line2.rewind
         /\ Behind <= BehindOf(Line2)
         /\ Line1.buf # 0 => Line2.buf = 0 \/ Line2.buf = Line1.buf + 1
         /\ BehindOf(Line1) = Line1.pos /\ BehindOf(Line2) = Line2.pos
<1>1. StreamSound(st) /\ Len(file) \in Nat
  BY DEF IInv, TypeOK
<1>2. Behind = BehindOf(st)
  BY DEF Behind, BehindOf
<1>3. /\ StreamSound(Line1) /\ ~Line1.rewind
      /\ Line1.buf = 0 \/ Line1.buf = Behind + 1
      /\ Behind \in Nat /\ BehindOf(Line1) \in Nat /\ Behind <= BehindOf(Line1)
  BY <1>1, <1>2, NextLineReads DEF Line1
<1>4. /\ StreamSound(Line2) /\ ~Line2.rewind
      /\ Line2.buf = 0 \/ Line2.buf = BehindOf(Line1) + 1
      /\ BehindOf(Line2) \in Nat /\ BehindOf(Line1) <= BehindOf(Line2)
  BY <1>1, <1>3, NextLineReads DEF Line2
<1>5. BehindOf(Line1) = Line1.pos /\ BehindOf(Line2) = Line2.pos
  BY <1>3, <1>4 DEF BehindOf
<1> QED
  BY <1>2, <1>3, <1>4, <1>5 DEF StreamSound

\* A line of a kind other than the empty one is in the buffer.
LEMMA LineInBuffer ==
  ASSUME NEW s, Kind(s) # Empty
  PROVE  s.buf # 0 /\ Kind(s) = file[s.buf]
  BY DEF Kind

-----------------------------------------------------------------------------
\* The hunks used are records of lines.
LEMMA UsedTyped ==
  ASSUME IInv, NEW n \in DOMAIN delivered
  PROVE  delivered[n] \in UsedHunks
<1>1. delivered \in Seq(UsedHunks)
  BY DEF IInv, TypeOK
<1> QED
  BY <1>1

(***************************************************************************)
(* The part of the invariant that no step but OpenHunk and UseHunk moves:  *)
(* it is kept when the line state left is sound and gives nothing up.      *)
(***************************************************************************)
LEMMA UsedKept ==
  ASSUME IInv, NEW s, st' = s, StreamSound(s), Behind <= BehindOf(s), BehindOf(s) \in Nat,
         UNCHANGED <<file, driver, delivered>>, pc' # "use_hunk"
  PROVE  /\ StreamSound(st)' /\ Behind' = BehindOf(s)
         /\ HunkInHand' /\ UsedBehind' /\ HunksInOrder'
         /\ st'.pos <= Len(file') /\ st'.buf <= st'.pos /\ st' \in StreamType
         /\ delivered' \in Seq(UsedHunks)
         /\ file' \in Seq(LineKinds) /\ driver' \in Drivers
<1>1. StreamSound(st)'
  BY DEF StreamSound, Overcrosses, Kind
<1>2. Behind' = BehindOf(s)
  BY DEF Behind, BehindOf
<1>3. UsedBehind'
  <2>1. ASSUME NEW n \in DOMAIN delivered
        PROVE  delivered[n].ctrl <= BehindOf(s)
    <3>1. delivered[n].ctrl <= Behind /\ delivered[n].ctrl \in Nat
      BY UsedTyped DEF IInv, UsedBehind, UsedHunks
    <3>2. Behind \in Nat
      BY TwoLines
    <3> QED
      BY <3>1, <3>2
  <2> QED
    BY <1>2, <2>1 DEF UsedBehind
<1>4. HunksInOrder'
  BY DEF IInv, HunksInOrder
<1>5. HunkInHand'
  BY DEF HunkInHand
<1>6. st'.pos <= Len(file') /\ st'.buf <= st'.pos /\ st' \in StreamType
  BY DEF StreamSound, StreamType
<1> QED
  BY <1>1, <1>2, <1>3, <1>4, <1>5, <1>6 DEF IInv, TypeOK

\* The program ends in a decoder method.
LEMMA StopHolds ==
  ASSUME IInv, NEW how \in Ended, NEW s \in {Line1, Line2}, Stop(how, s)
  PROVE  IInv'
<1>1. StreamSound(s) /\ Behind <= BehindOf(s) /\ BehindOf(s) \in Nat
  BY TwoLines DEF StreamSound, StreamType
<1>2. pc' = how /\ how # "use_hunk" /\ how \notin {"next_chapter", "match_file", "skip", "next_hunk"}
  BY DEF Stop, Ended
<1>3. NamesBehind'
  BY <1>2 DEF NamesBehind
<1>4. TypeOK'
  BY <1>1, <1>2, UsedKept DEF Stop, IInv, TypeOK
<1> QED
  BY <1>1, <1>2, <1>3, <1>4, UsedKept DEF Stop, IInv

(***************************************************************************)
(* A step that moves the line state soundly and leaves the sections' names *)
(* and the hunk in hand alone.                                             *)
(***************************************************************************)
LEMMA MoveHolds ==
  ASSUME IInv, NEW s, st' = s, StreamSound(s), Behind <= BehindOf(s), BehindOf(s) \in Nat,
         pc' \in {"next_patch", "next_chapter", "match_file", "skip", "next_hunk"},
         patch' \in [state : {"none", "live", "deleted"}, name : Nat],
         patch'.name = patch.name,
         pc' # "next_patch" => NamesBehind' ,
         skipped' \subseteq Nat,
         UNCHANGED <<file, driver, chap, hunk, delivered>>
  PROVE  IInv'
<1>1. NamesBehind'
  BY DEF NamesBehind
<1>2. TypeOK'
  BY UsedKept DEF IInv, TypeOK, Ended
<1> QED
  BY <1>1, <1>2, UsedKept DEF IInv

\* A header pushed back leaves behind what lay behind before it was read.
LEMMA PushedBack ==
  ASSUME IInv, Overcrosses(Line1)
  PROVE  StreamSound(Unget(Line1)) /\ BehindOf(Unget(Line1)) = Behind
<1>1. Line1.buf # 0
  BY DEF Overcrosses, Kind, PHEADER, FHEADER, Empty
<1> QED
  BY <1>1, TwoLines, UngetSound

-----------------------------------------------------------------------------
(* One lemma per action *)

LEMMA ReadsCutLineHolds == ASSUME IInv, ReadsCutLine PROVE IInv'
<1>1. Stop("died", Line1) \/ Stop("died", Line2)
  BY DEF ReadsCutLine
<1> QED
  BY <1>1, StopHolds DEF Ended

LEMMA NoMorePatchesHolds == ASSUME IInv, NoMorePatches PROVE IInv'
  BY StopHolds DEF NoMorePatches, Ended

LEMMA BadPatchHolds == ASSUME IInv, BadPatch PROVE IInv'
<1>1. Stop("syntax error", Line1) \/ Stop("syntax error", Line2)
  BY DEF BadPatch, SyntaxError
<1> QED
  BY <1>1, StopHolds DEF Ended

LEMMA DeletePatchAgainHolds == ASSUME IInv, DeletePatchAgain PROVE IInv'
  BY StopHolds DEF DeletePatchAgain, Ended

LEMMA OpenPatchHolds == ASSUME IInv, OpenPatch PROVE IInv'
<1>1. Line1.buf # 0 /\ Line2.buf # 0
  BY LineInBuffer DEF OpenPatch, PHEADER, Empty
<1>2. /\ StreamSound(Line2) /\ ~Line2.rewind
      /\ Behind <= BehindOf(Line2) /\ BehindOf(Line2) = Line2.pos
      /\ Line2.pos \in Nat /\ Line2.buf = Line2.pos
  BY <1>1, TwoLines DEF StreamSound, StreamType
<1>3. /\ st' = Line2
      /\ pc' = "next_chapter"
      /\ patch' = [state |-> "live", name |-> Line2.buf]
      /\ UNCHANGED <<file, driver, chap, hunk, skipped, delivered>>
  BY DEF OpenPatch
<1>4. NamesBehind'
  <2>1. Behind' = Line2.pos
    BY <1>2, <1>3, UsedKept
  <2> QED
    BY <1>2, <1>3, <2>1 DEF NamesBehind
<1>5. TypeOK'
  BY <1>2, <1>3, UsedKept DEF IInv, TypeOK
<1> QED
  BY <1>2, <1>3, <1>4, <1>5, UsedKept DEF IInv

LEMMA NoMoreChaptersHolds == ASSUME IInv, NoMoreChapters PROVE IInv'
<1>1. \E s \in {Line1, Line2, Unget(Line1)} :
        st' = s /\ StreamSound(s) /\ Behind <= BehindOf(s) /\ BehindOf(s) \in Nat
  <2>1. CASE st' = Line1
    BY <2>1, TwoLines DEF StreamSound, StreamType
  <2>2. CASE Kind(Line1) = PHEADER /\ st' = Unget(Line1)
    BY <2>2, TwoLines, PushedBack DEF Overcrosses
  <2>3. CASE st' = Line2
    BY <2>3, TwoLines DEF StreamSound, StreamType
  <2> QED
    BY <2>1, <2>2, <2>3 DEF NoMoreChapters
<1>2. /\ pc' = "next_patch"
      /\ patch' = IF driver = "PerfScope" THEN [patch EXCEPT !.state = "deleted"] ELSE patch
      /\ UNCHANGED <<file, driver, chap, hunk, skipped, delivered>>
  BY DEF NoMoreChapters, AfterChapters
<1>3. patch' \in [state : {"none", "live", "deleted"}, name : Nat] /\ patch'.name = patch.name
  BY <1>2 DEF IInv, TypeOK
<1>4. skipped' \subseteq Nat
  BY <1>2 DEF IInv, TypeOK
<1> QED
  BY <1>1, <1>2, <1>3, <1>4, MoveHolds

LEMMA BadChapterHolds == ASSUME IInv, BadChapter PROVE IInv'
  BY StopHolds DEF BadChapter, SyntaxError, Ended

LEMMA OpenChapterHolds == ASSUME IInv, OpenChapter PROVE IInv'
<1>1. Line1.buf # 0 /\ Line2.buf # 0
  BY LineInBuffer DEF OpenChapter, FHEADER, Empty
<1>2. /\ StreamSound(Line2) /\ ~Line2.rewind
      /\ Behind <= BehindOf(Line2) /\ BehindOf(Line2) = Line2.pos
      /\ Line2.pos \in Nat /\ Line2.buf = Line2.pos
      /\ Line2.buf = Behind + 2
  BY <1>1, TwoLines DEF StreamSound, StreamType
<1>3. /\ st' = Line2 /\ chap' = Line2.buf /\ hunk' = 0
      /\ pc = "next_chapter" /\ pc' = "match_file"
      /\ UNCHANGED <<file, driver, patch, skipped, delivered>>
  BY DEF OpenChapter
<1>4. Behind' = Line2.pos
  BY <1>2, <1>3, UsedKept
<1>5. NamesBehind'
  <2>1. patch.name \in Nat /\ patch.name <= Behind /\ Behind \in Nat
    BY <1>3, TwoLines DEF IInv, TypeOK, NamesBehind
  <2>2. patch.name < Line2.buf /\ Line2.buf <= Line2.pos
    BY <1>2, <2>1
  <2>3. patch'.name < chap' /\ chap' <= Behind'
    BY <1>3, <1>4, <2>2
  <2> QED
    BY <1>3, <2>3 DEF NamesBehind
<1>6. TypeOK'
  BY <1>2, <1>3, UsedKept DEF IInv, TypeOK
<1> QED
  BY <1>2, <1>3, <1>5, <1>6, UsedKept DEF IInv

LEMMA MatchFileHolds == ASSUME IInv, MatchFile PROVE IInv'
<1>1. /\ pc = "match_file" /\ pc' \in {"next_hunk", "skip"}
      /\ skipped' \in {skipped, skipped \cup {chap}}
      /\ UNCHANGED <<file, driver, st, patch, chap, hunk, delivered>>
  BY DEF MatchFile
<1>2. StreamSound(st) /\ Behind = BehindOf(st) /\ Behind \in Nat /\ Behind <= BehindOf(st)
  BY TwoLines DEF IInv
<1>3. NamesBehind'
  BY <1>1 DEF IInv, NamesBehind, Behind
<1>4. skipped' \subseteq Nat /\ patch' \in [state : {"none", "live", "deleted"}, name : Nat]
  BY <1>1 DEF IInv, TypeOK
<1> QED
  BY <1>1, <1>2, <1>3, <1>4, MoveHolds

\* Steps that leave the names alone and give nothing up keep them behind.
LEMMA NamesKept ==
  ASSUME IInv, pc \in {"skip", "next_hunk"}, pc' \in {"skip", "next_hunk", "next_chapter"},
         UNCHANGED <<patch, chap>>, Behind <= Behind', Behind' \in Nat
  PROVE  NamesBehind'
<1>1. patch.name \in Nat /\ chap \in Nat /\ Behind \in Nat
  BY TwoLines DEF IInv, TypeOK
<1>2. patch.name < chap /\ chap <= Behind
  BY DEF IInv, NamesBehind
<1> QED
  BY <1>1, <1>2 DEF NamesBehind

LEMMA SkipLineHolds == ASSUME IInv, SkipLine PROVE IInv'
<1>1. /\ st' = Line1 /\ pc = "skip" /\ pc' = "skip"
      /\ UNCHANGED <<file, driver, patch, chap, hunk, skipped, delivered>>
  BY DEF SkipLine
<1>2. StreamSound(Line1) /\ Behind <= BehindOf(Line1) /\ BehindOf(Line1) \in Nat
  BY TwoLines DEF StreamSound, StreamType
<1>3. NamesBehind'
  BY <1>1, <1>2, UsedKept, NamesKept
<1>4. skipped' \subseteq Nat /\ patch' \in [state : {"none", "live", "deleted"}, name : Nat]
  BY <1>1 DEF IInv, TypeOK
<1> QED
  BY <1>1, <1>2, <1>3, <1>4, MoveHolds

\* The section ends: at a line read and not pushed back, or at a header.
LEMMA SectionEndHolds ==
  ASSUME IInv, pc \in {"skip", "next_hunk"}, pc' = "next_chapter",
         st' = Line1 \/ (Overcrosses(Line1) /\ st' = Unget(Line1)),
         UNCHANGED <<file, driver, patch, chap, hunk, skipped, delivered>>
  PROVE  IInv'
<1>1. \E s \in {Line1, Unget(Line1)} :
        st' = s /\ StreamSound(s) /\ Behind <= BehindOf(s) /\ BehindOf(s) \in Nat
  BY TwoLines, PushedBack DEF StreamSound, StreamType
<1>2. NamesBehind'
  BY <1>1, UsedKept, NamesKept
<1>3. skipped' \subseteq Nat /\ patch' \in [state : {"none", "live", "deleted"}, name : Nat]
  BY DEF IInv, TypeOK
<1> QED
  BY <1>1, <1>2, <1>3, MoveHolds

LEMMA SkipEndsHolds == ASSUME IInv, SkipEnds PROVE IInv'
<1>1. st' = Line1 \/ (Overcrosses(Line1) /\ st' = Unget(Line1))
  BY DEF SkipEnds, SkipStops, AfterSkip
<1> QED
  BY <1>1, SectionEndHolds DEF SkipEnds

LEMMA NoMoreHunksHolds == ASSUME IInv, NoMoreHunks PROVE IInv'
  BY SectionEndHolds DEF NoMoreHunks

LEMMA BadHunkHolds == ASSUME IInv, BadHunk PROVE IInv'
<1>1. Stop("syntax error", Line1) \/ Stop("syntax error", Line2)
  BY DEF BadHunk, SyntaxError
<1> QED
  BY <1>1, StopHolds DEF Ended

LEMMA HunkAbortsHolds == ASSUME IInv, HunkAborts PROVE IInv'
<1>1. Stop("aborted", Line2)
  BY DEF HunkAborts
<1> QED
  BY <1>1, StopHolds DEF Ended

\* The hunk handed out is the two lines just read, behind no used one.
LEMMA OpenHunkHolds == ASSUME IInv, OpenHunk PROVE IInv'
<1>1. Line1.buf # 0 /\ Line2.buf # 0 /\ file[Line1.buf] = HHEADER
  BY LineInBuffer DEF OpenHunk, HHEADER, Text, Empty
<1>2. /\ StreamSound(Line2) /\ ~Line2.rewind
      /\ BehindOf(Line2) = Line2.pos
      /\ Line2.pos \in Nat /\ Line2.buf = Line2.pos
      /\ Line1.buf = Behind + 1 /\ Line2.buf = Line1.buf + 1 /\ Behind \in Nat
  BY <1>1, TwoLines DEF StreamSound, StreamType
<1>3. /\ st' = Line2 /\ hunk' = Line1.buf
      /\ pc = "next_hunk" /\ pc' = "use_hunk"
      /\ UNCHANGED <<file, driver, patch, chap, skipped, delivered>>
  BY DEF OpenHunk, HunkRead
<1>4. StreamSound(st)'
  BY <1>2, <1>3 DEF StreamSound, Overcrosses, Kind
<1>5. Behind' = Line2.pos
  BY <1>2, <1>3 DEF Behind
<1>6. patch.name < chap /\ chap <= Behind /\ patch.name \in Nat /\ chap \in Nat
  BY <1>3 DEF IInv, NamesBehind, TypeOK
<1>7. NamesBehind'
  <2>1. chap <= Line2.pos
    BY <1>2, <1>6
  <2>2. patch'.name < chap' /\ chap' <= Behind'
    BY <1>3, <1>5, <1>6, <2>1
  <2> QED
    BY <1>3, <2>2 DEF NamesBehind
<1>8. HunkInHand'
  <2>1. /\ ~st'.rewind /\ st'.buf = st'.pos /\ st'.buf = hunk' + 1
        /\ file'[hunk'] = HHEADER
    BY <1>1, <1>2, <1>3
  <2>2. chap < Line1.buf
    BY <1>2, <1>6
  <2> QED
    BY <1>3, <2>1, <2>2 DEF HunkInHand
<1>9. UsedBehind'
  <2>1. ASSUME NEW n \in DOMAIN delivered
        PROVE  delivered[n].ctrl <= Line2.pos /\ delivered[n].ctrl < Line1.buf
    <3>1. delivered[n].ctrl <= Behind /\ delivered[n].ctrl \in Nat
      BY UsedTyped DEF IInv, UsedBehind, UsedHunks
    <3> QED
      BY <1>2, <3>1
  <2> QED
    BY <1>3, <1>5, <2>1 DEF UsedBehind
<1>10. HunksInOrder'
  BY <1>3 DEF IInv, HunksInOrder
<1>11. TypeOK'
  BY <1>2, <1>3, <1>4 DEF StreamSound, StreamType, IInv, TypeOK
<1> QED
  BY <1>4, <1>7, <1>8, <1>9, <1>10, <1>11 DEF IInv

\* The hunk used joins the others behind them.
LEMMA UseHunkHolds == ASSUME IInv, UseHunk PROVE IInv'
<1> DEFINE new == [patch |-> patch.name, chap |-> chap, head |-> hunk, ctrl |-> st.buf]
<1>1. /\ delivered' = Append(delivered, new)
      /\ pc = "use_hunk" /\ pc' = "next_hunk"
      /\ UNCHANGED <<file, driver, st, patch, chap, hunk, skipped>>
  BY DEF UseHunk
<1>2. /\ ~st.rewind /\ st.buf = st.pos /\ st.buf = hunk + 1
      /\ file[hunk] = HHEADER /\ chap < hunk /\ patch.name < chap
      /\ hunk \in Nat /\ chap \in Nat /\ patch.name \in Nat /\ st.buf \in Nat
  BY <1>1 DEF IInv, HunkInHand, NamesBehind, TypeOK, StreamType
<1>3. Behind = st.buf /\ Behind' = st.buf
  BY <1>1, <1>2 DEF Behind
<1>4. new \in UsedHunks /\ delivered \in Seq(UsedHunks)
  BY <1>2 DEF UsedHunks, IInv, TypeOK
<1>5. /\ delivered' \in Seq(UsedHunks)
      /\ Len(delivered') = Len(delivered) + 1
      /\ DOMAIN delivered = 1..Len(delivered)
      /\ DOMAIN delivered' = 1..(Len(delivered) + 1)
      /\ \A n \in 1..Len(delivered) : delivered'[n] = delivered[n]
      /\ delivered'[Len(delivered) + 1] = new
      /\ Len(delivered) \in Nat
  BY <1>1, <1>4
<1>6. ASSUME NEW n \in 1..Len(delivered)
      PROVE  delivered[n].ctrl < hunk /\ delivered[n].ctrl \in Nat
  BY <1>1, <1>5, <1>6, UsedTyped DEF IInv, UsedBehind, UsedHunks
<1>7. new.head = hunk /\ new.ctrl = hunk + 1 /\ new.chap = chap /\ new.patch = patch.name
  BY <1>2
<1> HIDE DEF new
<1>8. UsedBehind'
  <2>1. ASSUME NEW n \in 1..(Len(delivered) + 1)
        PROVE  delivered'[n].ctrl <= st.buf
    <3>1. CASE n = Len(delivered) + 1
      BY <1>2, <1>5, <1>7, <3>1
    <3>2. CASE n \in 1..Len(delivered)
      BY <1>2, <1>5, <1>6, <3>2
    <3> QED
      BY <1>5, <3>1, <3>2
  <2> QED
    BY <1>1, <1>3, <1>5, <2>1 DEF UsedBehind
<1>9. HunksInOrder'
  <2>1. ASSUME NEW n \in 1..(Len(delivered) + 1)
        PROVE  /\ file[delivered'[n].head] = HHEADER
               /\ delivered'[n].ctrl = delivered'[n].head + 1
               /\ delivered'[n].patch < delivered'[n].chap
               /\ delivered'[n].chap < delivered'[n].head
    <3>1. CASE n = Len(delivered) + 1
      BY <1>2, <1>5, <1>7, <3>1
    <3>2. CASE n \in 1..Len(delivered)
      BY <1>5, <3>2 DEF IInv, HunksInOrder
    <3> QED
      BY <1>5, <3>1, <3>2
  <2>2. ASSUME NEW m \in 1..(Len(delivered) + 1), NEW n \in 1..(Len(delivered) + 1), m < n
        PROVE  delivered'[m].ctrl < delivered'[n].head
    <3>1. m \in 1..Len(delivered)
      BY <1>5, <2>2
    <3>2. CASE n = Len(delivered) + 1
      BY <1>5, <1>6, <1>7, <3>1, <3>2
    <3>3. CASE n \in 1..Len(delivered)
      BY <1>5, <2>2, <3>1, <3>3 DEF IInv, HunksInOrder
    <3> QED
      BY <1>5, <3>2, <3>3
  <2> QED
    BY <1>1, <1>5, <2>1, <2>2 DEF HunksInOrder
<1>10. StreamSound(st)' /\ NamesBehind' /\ HunkInHand'
  <2>1. StreamSound(st)'
    BY <1>1 DEF IInv, StreamSound, Overcrosses, Kind
  <2>2. NamesBehind'
    BY <1>1, <1>2, <1>3 DEF IInv, NamesBehind
  <2>3. HunkInHand'
    BY <1>1 DEF HunkInHand
  <2> QED
    BY <2>1, <2>2, <2>3
<1>11. TypeOK'
  BY <1>1, <1>5 DEF IInv, TypeOK
<1> QED
  BY <1>8, <1>9, <1>10, <1>11 DEF IInv

-----------------------------------------------------------------------------
\* At the start nothing is read, pushed back or used.
LEMMA InitHolds == ASSUME Init PROVE IInv
<1>1. file \in Seq(LineKinds) /\ Len(file) \in Nat
  BY FilesAssumption DEF Init
<1>2. st = [pos |-> 0, buf |-> 0, rewind |-> FALSE] /\ delivered = <<>> /\ pc = "next_patch"
  BY DEF Init
<1>3. StreamSound(st)
  BY <1>1, <1>2 DEF StreamSound, StreamType
<1>4. NamesBehind /\ HunkInHand /\ UsedBehind /\ HunksInOrder
  BY <1>2 DEF NamesBehind, HunkInHand, UsedBehind, HunksInOrder
<1>5. TypeOK
  BY <1>1, <1>2 DEF Init, TypeOK, StreamType
<1> QED
  BY <1>3, <1>4, <1>5 DEF IInv

LEMMA NextHolds == ASSUME IInv, [Next]_vars PROVE IInv'
<1>1. CASE UNCHANGED vars
  BY <1>1 DEF vars, IInv, TypeOK, StreamSound, NamesBehind, HunkInHand, UsedBehind, HunksInOrder,
              Behind, Overcrosses, Kind
<1>2. CASE Next /\ ~Finished
  BY <1>2, ReadsCutLineHolds, NoMorePatchesHolds, BadPatchHolds, DeletePatchAgainHolds, OpenPatchHolds,
     NoMoreChaptersHolds, BadChapterHolds, OpenChapterHolds, MatchFileHolds, SkipLineHolds,
     SkipEndsHolds, NoMoreHunksHolds, BadHunkHolds, HunkAbortsHolds, OpenHunkHolds, UseHunkHolds DEF Next
<1>3. CASE Finished
  BY <1>1, <1>3 DEF Finished
<1> QED
  BY <1>1, <1>2, <1>3

\* The invariant of the decoder and its driver.
THEOREM Invariance == Spec => []IInv
<1>1. Init => IInv
  BY InitHolds
<1>2. IInv /\ [Next]_vars => IInv'
  BY NextHolds
<1> QED
  BY <1>1, <1>2, PTL DEF Spec

\* The state keeps its types, and the decoder's position never leaves the file.
THEOREM TypeCorrect == Spec => []TypeOK
<1>1. IInv => TypeOK
  BY DEF IInv
<1> QED
  BY <1>1, Invariance, PTL

\* The one-line push-back of unget_line is sound, whatever the file holds.
THEOREM PushBackCorrect == Spec => []PushBackSound
<1>1. IInv => PushBackSound
  BY DEF IInv, StreamSound, PushBackSound
<1> QED
  BY <1>1, Invariance, PTL

\* Every driver uses the hunks of every file once each, in file order, each with
\* the control line that follows its header in the buffer it points into.
THEOREM HunksInOrderAlways == Spec => []HunksInOrder
<1>1. IInv => HunksInOrder
  BY DEF IInv
<1> QED
  BY <1>1, Invariance, PTL
-----------------------------------------------------------------------------
(***************************************************************************)
(* Files of patch-c.  The decoder stands between two sections whenever it  *)
(* does not skip, the next section is one the method called next can read, *)
(* and the names in hand are those of the sections it stands in.           *)
(***************************************************************************)
InPatch == {"next_chapter", "match_file", "skip", "next_hunk", "use_hunk"}
InChapter == InPatch \ {"next_chapter"}

\* No line from the name of a section up to the decoder begins another of its kind.
LastSection(h, name) ==
  /\ name \in 2..Behind
  /\ file[name - 1] = h
  /\ \A k \in name..Behind : file[k] # h

Aligned == pc \in InPatch \cup {"next_patch"} /\ pc # "skip" => Behind % 2 = 0

Expected ==
  /\ pc = "next_patch" => Behind = Len(file) \/ file[Behind + 1] = PHEADER
  /\ pc = "next_chapter" => Behind = Len(file) \/ file[Behind + 1] \in {PHEADER, FHEADER}

SectionsInHand ==
  /\ pc \in InPatch => LastSection(PHEADER, patch.name)
  /\ pc \in InChapter => LastSection(FHEADER, chap)
  /\ pc = "use_hunk" => hunk = Behind - 1
  /\ pc = "skip" => chap \in skipped

Accepted == pc \notin {"syntax error", "died", "aborted"} /\ (pc = "done" => Behind = Len(file))

PIRState == Aligned /\ Expected /\ SectionsInHand /\ HunksReached /\ Accepted

PIRInv == IsPatchCOutput(file) => PIRState

\* What a line of such a file is, by its place.
LEMMA LineOfPIR ==
  ASSUME IsPatchCOutput(file), file \in Seq(LineKinds), NEW n \in 1..Len(file)
  PROVE  /\ Len(file) \in Nat /\ Len(file) % 2 = 0
         /\ n % 2 = 1 => file[n] \in Headers /\ n + 1 \in 1..Len(file) /\ file[n + 1] = Text
         /\ n % 2 = 0 => file[n] = Text
         /\ file[n] \in Headers => n % 2 = 1
         /\ file[n] = PHEADER => n + 2 \in 1..Len(file) /\ file[n + 2] = FHEADER
         /\ file[n] \in Headers \cup {Text}
<1>1. Len(file) \in Nat /\ Len(file) % 2 = 0 /\ DOMAIN file = 1..Len(file)
  BY DEF IsPatchCOutput
<1>2. \A m \in 1..(Len(file) \div 2) : file[2 * m - 1] \in Headers /\ file[2 * m] = Text
  BY DEF IsPatchCOutput
<1>3. n % 2 = 1 \/ n % 2 = 0
  OBVIOUS
<1>4. ASSUME n % 2 = 1
      PROVE  file[n] \in Headers /\ n + 1 \in 1..Len(file) /\ file[n + 1] = Text
  <2>1. PICK m \in Int : n = 2 * m - 1 /\ m = (n + 1) \div 2
    BY <1>4
  <2>2. m \in 1..(Len(file) \div 2) /\ n + 1 = 2 * m /\ n + 1 \in 1..Len(file)
    BY <2>1, <1>1
  <2> QED
    BY <2>1, <2>2, <1>2
<1>5. ASSUME n % 2 = 0 PROVE file[n] = Text
  <2>1. PICK m \in Int : n = 2 * m /\ m = n \div 2
    BY <1>5
  <2>2. m \in 1..(Len(file) \div 2)
    BY <2>1, <1>1
  <2> QED
    BY <2>1, <2>2, <1>2
<1>6. Text \notin Headers
  BY DEF Text, Headers, PHEADER, FHEADER, HHEADER
<1>7. file[n] = PHEADER => n + 2 \in 1..Len(file) /\ file[n + 2] = FHEADER
  BY <1>1 DEF IsPatchCOutput
<1> QED
  BY <1>1, <1>3, <1>4, <1>5, <1>6, <1>7

\* next_line takes the line after those behind, if there is one.
LEMMA NextLineIs ==
  ASSUME NEW s, StreamSound(s), Len(file) \in Nat
  PROVE  /\ BehindOf(s) \in Nat /\ BehindOf(s) <= Len(file)
         /\ BehindOf(s) = Len(file) =>
              NextLine(s).buf = 0 /\ BehindOf(NextLine(s)) = BehindOf(s)
         /\ BehindOf(s) # Len(file) =>
              /\ NextLine(s).buf = BehindOf(s) + 1
              /\ BehindOf(NextLine(s)) = BehindOf(s) + 1
<1>1. s.pos \in Nat /\ s.buf \in Nat /\ s.rewind \in BOOLEAN /\ s.pos <= Len(file)
  BY DEF StreamSound, StreamType
<1>2. CASE s.rewind
  <2>1. NextLine(s) = [s EXCEPT !.rewind = FALSE]
    BY <1>2 DEF NextLine
  <2>2. NextLine(s).pos = s.pos /\ NextLine(s).buf = s.buf /\ ~NextLine(s).rewind
    BY <2>1 DEF StreamSound, StreamType
  <2>3. s.buf = s.pos /\ s.buf > 0 /\ BehindOf(s) = s.pos - 1
    BY <1>2 DEF StreamSound, BehindOf
  <2>4. BehindOf(NextLine(s)) = s.pos
    BY <2>2 DEF BehindOf
  <2> QED
    BY <1>1, <2>2, <2>3, <2>4
<1>3. CASE ~s.rewind
  <2>1. NextLine(s) = ReadOn(s) /\ BehindOf(s) = s.pos
    BY <1>3 DEF NextLine, BehindOf
  <2>2. CASE s.pos < Len(file)
    BY <1>1, <2>1, <2>2 DEF ReadOn, BehindOf
  <2>3. CASE ~(s.pos < Len(file))
    BY <1>1, <2>1, <2>3 DEF ReadOn, BehindOf
  <2> QED
    BY <2>2, <2>3
<1> QED
  BY <1>2, <1>3

\* What a method reads first and second of a file of patch-c.
LEMMA LinesOfPIR ==
  ASSUME IInv, IsPatchCOutput(file)
  PROVE  /\ Behind \in Nat /\ Behind <= Len(file) /\ Len(file) \in Nat
         /\ Behind = Len(file) => IsNull(Line1) /\ BehindOf(Line1) = Behind
         /\ Behind # Len(file) =>
              /\ Behind + 1 \in 1..Len(file) /\ Line1.buf = Behind + 1
              /\ BehindOf(Line1) = Behind + 1
              /\ Kind(Line1) = file[Behind + 1]
              /\ Kind(Line1) \in Headers \cup {Text}
         /\ Behind + 1 < Len(file) =>
              /\ Behind + 2 \in 1..Len(file) /\ Line2.buf = Behind + 2
              /\ BehindOf(Line2) = Behind + 2
              /\ Kind(Line2) = file[Behind + 2]
              /\ Kind(Line2) \in Headers \cup {Text}
         /\ Behind + 1 = Len(file) => IsNull(Line2)
<1>1. /\ StreamSound(st) /\ file \in Seq(LineKinds) /\ Len(file) \in Nat
      /\ Behind = BehindOf(st)
  BY DEF IInv, TypeOK, Behind, BehindOf
<1>2. /\ Behind \in Nat /\ Behind <= Len(file)
      /\ Behind = Len(file) => Line1.buf = 0 /\ BehindOf(Line1) = Behind
      /\ Behind # Len(file) => Line1.buf = Behind + 1 /\ BehindOf(Line1) = Behind + 1
  BY <1>1, NextLineIs DEF Line1
<1>3. StreamSound(Line1)
  BY TwoLines
<1>4. /\ BehindOf(Line1) = Len(file) => Line2.buf = 0
      /\ BehindOf(Line1) # Len(file) =>
           Line2.buf = BehindOf(Line1) + 1 /\ BehindOf(Line2) = BehindOf(Line1) + 1
  BY <1>1, <1>3, NextLineIs DEF Line2
<1>5. ASSUME Behind # Len(file)
      PROVE  /\ Behind + 1 \in 1..Len(file) /\ Kind(Line1) = file[Behind + 1]
             /\ file[Behind + 1] \in Headers \cup {Text}
  <2>1. Behind + 1 \in 1..Len(file) /\ Behind + 1 # 0
    BY <1>1, <1>2, <1>5
  <2> QED
    BY <2>1, <1>1, <1>2, <1>5, LineOfPIR DEF Kind
<1>6. ASSUME Behind + 1 < Len(file)
      PROVE  /\ Behind + 2 \in 1..Len(file) /\ Kind(Line2) = file[Behind + 2]
             /\ Line2.buf = Behind + 2 /\ BehindOf(Line2) = Behind + 2
             /\ file[Behind + 2] \in Headers \cup {Text}
  <2>1. Behind + 2 \in 1..Len(file) /\ Behind + 2 # 0 /\ Behind # Len(file)
    BY <1>1, <1>2, <1>6
  <2>2. Line2.buf = Behind + 2 /\ BehindOf(Line2) = Behind + 2
    BY <2>1, <1>1, <1>2, <1>4, <1>6
  <2> QED
    BY <2>1, <2>2, <1>1, LineOfPIR DEF Kind
<1>7. Behind + 1 = Len(file) => IsNull(Line2)
  BY <1>1, <1>2, <1>4 DEF IsNull, Kind
<1>8. Behind = Len(file) => IsNull(Line1)
  BY <1>2 DEF IsNull, Kind
<1> QED
  BY <1>1, <1>2, <1>5, <1>6, <1>7, <1>8

\* Between two sections, a header and its text are read, or the end.
LEMMA SectionOfPIR ==
  ASSUME IInv, IsPatchCOutput(file), Behind % 2 = 0
  PROVE  /\ Behind = Len(file) /\ Kind(Line1) = Empty /\ BehindOf(Line1) = Behind
         \/ /\ Behind # Len(file) /\ Kind(Line1) \in Headers /\ Kind(Line1) = file[Behind + 1]
            /\ Kind(Line2) = Text /\ file[Behind + 2] = Text
            /\ Line1.buf = Behind + 1 /\ Line2.buf = Behind + 2
            /\ BehindOf(Line1) = Behind + 1 /\ BehindOf(Line2) = Behind + 2
            /\ Behind + 1 \in 1..Len(file) /\ Behind + 2 \in 1..Len(file)
            /\ (Behind + 2) % 2 = 0
<1>1. file \in Seq(LineKinds) /\ Behind \in Nat /\ Behind <= Len(file) /\ Len(file) \in Nat
  BY LinesOfPIR DEF IInv, TypeOK
<1>2. CASE Behind = Len(file)
  BY <1>2, LinesOfPIR DEF IsNull
<1>3. CASE Behind # Len(file)
  <2>1. Behind + 1 \in 1..Len(file) /\ (Behind + 1) % 2 = 1 /\ (Behind + 1) + 1 = Behind + 2
        /\ (Behind + 2) % 2 = 0
    BY <1>1, <1>3
  <2>2. file[Behind + 1] \in Headers /\ Behind + 2 \in 1..Len(file) /\ file[Behind + 2] = Text
    BY <2>1, <1>1, LineOfPIR
  <2>3. Behind + 1 < Len(file)
    BY <2>2, <1>1
  <2> QED
    BY <2>1, <2>2, <2>3, <1>3, LinesOfPIR
<1> QED
  BY <1>2, <1>3

-----------------------------------------------------------------------------
\* A line lies in one section of a kind.
LEMMA SectionIs ==
  ASSUME NEW h, NEW n \in Nat, NEW m \in 2..n, file[m - 1] = h,
         \A k \in (m + 1)..n : file[k - 1] # h
  PROVE  SectionOf(h, n) = m
<1> DEFINE P(r) == file[r - 1] = h /\ \A k \in (r + 1)..n : file[k - 1] # h
<1>1. P(m)
  OBVIOUS
<1>2. ASSUME NEW r \in 2..n, P(r) PROVE r = m
  <2>1. ~(r < m)
    <3>1. r < m => m \in (r + 1)..n
      OBVIOUS
    <3> QED
      BY <3>1, <1>2
  <2>2. ~(m < r)
    <3>1. m < r => r \in (m + 1)..n
      OBVIOUS
    <3> QED
      BY <3>1, <1>2
  <2> QED
    BY <2>1, <2>2
<1> HIDE DEF P
<1>3. m = CHOOSE r \in 2..n : P(r)
  BY <1>1, <1>2
<1> QED
  BY <1>3 DEF P, SectionOf

\* The section in hand is that of every line up to the one after the decoder.
LEMMA InHandIs ==
  ASSUME NEW h, NEW name, LastSection(h, name), Behind \in Nat,
         NEW n \in name..(Behind + 1)
  PROVE  SectionOf(h, n) = name
<1>1. name \in Nat /\ n \in Nat /\ name \in 2..n
  BY DEF LastSection
<1>2. \A k \in (name + 1)..n : k - 1 \in name..Behind
  BY <1>1
<1> QED
  BY <1>1, <1>2, SectionIs DEF LastSection

\* The lines behind grow by others than headers of this kind.
LEMMA LastSectionGrows ==
  ASSUME file' = file, Behind \in Nat, Behind' \in Nat, Behind <= Behind',
         NEW h, NEW name, LastSection(h, name),
         \A k \in (Behind + 1)..Behind' : file[k] # h
  PROVE  /\ name \in 2..Behind'
         /\ file'[name - 1] = h
         /\ \A k \in name..Behind' : file'[k] # h
<1>1. \A k \in name..Behind' : k \in name..Behind \/ k \in (Behind + 1)..Behind'
  BY DEF LastSection
<1> QED
  BY <1>1 DEF LastSection

\* The hunks reached after a step that leaves the file alone.
LEMMA ReachedBy ==
  ASSUME file' = file,
         \A n \in 1..Behind' :
           file[n] = HHEADER =>
             \/ SectionOf(FHEADER, n) \in skipped'
             \/ pc' = "use_hunk" /\ n = hunk'
             \/ \E d \in DOMAIN delivered' :
                  /\ delivered'[d].head = n
                  /\ delivered'[d].chap = SectionOf(FHEADER, n)
                  /\ delivered'[d].patch = SectionOf(PHEADER, n)
  PROVE  HunksReached'
  BY DEF HunksReached, SectionOf

\* Hunks once reached stay reached; those the decoder passes are given up or in hand.
LEMMA ReachedGrows ==
  ASSUME HunksReached, IsPatchCOutput(file), file' = file,
         Behind \in Nat, Behind' \in Nat, Behind <= Behind', pc # "use_hunk",
         skipped \subseteq skipped', delivered' = delivered,
         \A n \in (Behind + 1)..Behind' :
           file[n] = HHEADER => \/ SectionOf(FHEADER, n) \in skipped'
                                \/ pc' = "use_hunk" /\ n = hunk'
  PROVE  HunksReached'
<1> SUFFICES ASSUME NEW n \in 1..Behind', file[n] = HHEADER
             PROVE  \/ SectionOf(FHEADER, n) \in skipped'
                    \/ pc' = "use_hunk" /\ n = hunk'
                    \/ \E d \in DOMAIN delivered' :
                         /\ delivered'[d].head = n
                         /\ delivered'[d].chap = SectionOf(FHEADER, n)
                         /\ delivered'[d].patch = SectionOf(PHEADER, n)
  BY ReachedBy
<1>1. n \in 1..Behind \/ n \in (Behind + 1)..Behind'
  OBVIOUS
<1>2. CASE n \in 1..Behind
  BY <1>2 DEF HunksReached
<1> QED
  BY <1>1, <1>2

\* A step that passes no line keeps what was reached.
LEMMA StandsStill ==
  ASSUME HunksReached, IsPatchCOutput(file), file' = file,
         Behind \in Nat, Behind' = Behind, pc # "use_hunk",
         skipped \subseteq skipped', delivered' = delivered
  PROVE  HunksReached'
  BY ReachedGrows

\* The kinds of line are distinct.
LEMMA KindsDiffer ==
  /\ Headers = {PHEADER, FHEADER, HHEADER}
  /\ PHEADER # FHEADER /\ PHEADER # HHEADER /\ FHEADER # HHEADER
  /\ Text \notin Headers /\ Empty \notin Headers \cup {Text} /\ Cut \notin Headers \cup {Text}
  /\ Empty # Cut
  BY DEF Headers, PHEADER, FHEADER, HHEADER, Text, Empty, Cut

-----------------------------------------------------------------------------
(* One lemma per action: a file of patch-c stays understood. *)

\* Lines patch-c writes are neither cut short nor out of place.
LEMMA NoErrorPIR ==
  ASSUME IInv, IsPatchCOutput(file), PIRState
  PROVE  ~ReadsCutLine /\ ~BadPatch /\ ~BadChapter /\ ~BadHunk /\ ~HunkAborts
<1>1. Kind(Line1) # Cut
  BY LinesOfPIR, KindsDiffer DEF IsNull
<1>2. ASSUME pc \in {"next_patch", "next_chapter", "next_hunk"}
      PROVE  /\ Behind % 2 = 0
             /\ Kind(Line1) \in Headers => Kind(Line2) = Text
  <2>1. Behind % 2 = 0
    BY <1>2 DEF PIRState, Aligned, InPatch
  <2> QED
    BY <2>1, SectionOfPIR, KindsDiffer
<1>3. ~ReadsCutLine
  BY <1>1, <1>2, KindsDiffer DEF ReadsCutLine
<1>4. ASSUME pc = "next_patch"
      PROVE  Kind(Line1) = Empty \/ (Kind(Line1) = PHEADER /\ Kind(Line2) = Text)
  BY <1>4, <1>2, SectionOfPIR, KindsDiffer DEF PIRState, Expected
<1>5. ASSUME pc = "next_chapter" PROVE Kind(Line1) \in {Empty, PHEADER, FHEADER}
  BY <1>5, <1>2, SectionOfPIR, KindsDiffer DEF PIRState, Expected
<1>6. ASSUME pc = "next_hunk"
      PROVE  Kind(Line1) = Empty \/ (Kind(Line1) \in Headers /\ Kind(Line2) = Text)
  BY <1>6, <1>2, SectionOfPIR
<1>7. {HHEADER1, Garbled} \cap (Headers \cup {Empty}) = {}
  BY DEF HHEADER1, Garbled, Headers, PHEADER, FHEADER, HHEADER, Empty
<1>8. ~BadPatch
  BY <1>4, KindsDiffer DEF BadPatch, IsNull
<1>9. ~BadChapter
  BY <1>5 DEF BadChapter
<1>10. ~BadHunk
  <2>1. HHEADER \in Headers /\ HHEADER # Empty
    BY KindsDiffer
  <2> QED
    BY <1>6, <1>7, <2>1, KindsDiffer DEF BadHunk, IsNull
<1>11. ~HunkAborts
  BY <1>6, KindsDiffer DEF HunkAborts
<1> QED
  BY <1>3, <1>8, <1>9, <1>10, <1>11

LEMMA NoMorePatchesPIR == ASSUME IInv, IsPatchCOutput(file), PIRState, NoMorePatches PROVE PIRState'
<1>1. /\ pc = "next_patch" /\ Kind(Line1) = Empty /\ pc' = "done" /\ st' = Line1
      /\ UNCHANGED <<file, driver, patch, chap, hunk, skipped, delivered>>
  BY DEF NoMorePatches, IsNull, Stop
<1>2. Behind % 2 = 0
  BY <1>1 DEF PIRState, Aligned, InPatch
<1>3. Behind = Len(file) /\ BehindOf(Line1) = Behind /\ Behind \in Nat
  BY <1>1, <1>2, SectionOfPIR, LinesOfPIR, KindsDiffer
<1>4. Behind' = Behind
  BY <1>1, <1>3 DEF Behind, BehindOf
<1>5. HunksReached'
  BY <1>1, <1>3, <1>4, StandsStill DEF PIRState
<1> QED
  BY <1>1, <1>3, <1>4, <1>5 DEF PIRState, Aligned, Expected, SectionsInHand, Accepted, InPatch, InChapter

\* The header and the name of the next patch lie behind the decoder.
LEMMA PatchRead ==
  ASSUME IInv, IsPatchCOutput(file), PIRState, file' = file, st' = Line2,
         pc = "next_patch", Kind(Line1) = PHEADER,
         delivered' = delivered, skipped' = skipped
  PROVE  /\ HunksReached' /\ Behind' = Behind + 2 /\ Behind' % 2 = 0
         /\ Behind' \in 1..Len(file) /\ Behind \in Nat /\ Line2.buf = Behind'
         /\ file[Behind + 1] = PHEADER /\ file[Behind + 2] = Text
<1>1. Behind % 2 = 0
  BY DEF PIRState, Aligned, InPatch
<1>2. /\ Behind \in Nat /\ file[Behind + 1] = PHEADER /\ file[Behind + 2] = Text
      /\ Line2.buf = Behind + 2 /\ BehindOf(Line2) = Behind + 2
      /\ Behind + 2 \in 1..Len(file) /\ (Behind + 2) % 2 = 0
  BY <1>1, SectionOfPIR, LinesOfPIR, KindsDiffer
<1>3. Behind' = Behind + 2
  BY <1>2 DEF Behind, BehindOf
<1>4. \A n \in (Behind + 1)..(Behind + 2) : file[n] # HHEADER
  <2>1. \A n \in (Behind + 1)..(Behind + 2) : n = Behind + 1 \/ n = Behind + 2
    BY <1>2
  <2> QED
    BY <1>2, <2>1, KindsDiffer
<1>5. HunksReached'
  <2> HIDE DEF Behind
  <2> QED
    BY <1>2, <1>3, <1>4, ReachedGrows DEF PIRState
<1> QED
  BY <1>2, <1>3, <1>5

LEMMA DeletePatchAgainPIR == ASSUME IInv, IsPatchCOutput(file), PIRState, DeletePatchAgain PROVE PIRState'
<1>1. /\ pc = "next_patch" /\ Kind(Line1) = PHEADER /\ pc' = "undefined" /\ st' = Line2
      /\ UNCHANGED <<file, driver, patch, chap, hunk, skipped, delivered>>
  BY DEF DeletePatchAgain, Stop
<1>2. HunksReached'
  BY <1>1, PatchRead
<1> QED
  BY <1>1, <1>2 DEF PIRState, Aligned, Expected, SectionsInHand, Accepted, InPatch, InChapter

LEMMA OpenPatchPIR == ASSUME IInv, IsPatchCOutput(file), PIRState, OpenPatch PROVE PIRState'
<1>1. /\ pc = "next_patch" /\ Kind(Line1) = PHEADER /\ pc' = "next_chapter" /\ st' = Line2
      /\ patch'.name = Line2.buf
      /\ UNCHANGED <<file, driver, chap, hunk, skipped, delivered>>
  BY DEF OpenPatch
<1>2. /\ HunksReached' /\ Behind' = Behind + 2 /\ Behind' % 2 = 0
      /\ Behind' \in 1..Len(file) /\ Behind \in Nat /\ Line2.buf = Behind'
      /\ file[Behind + 1] = PHEADER /\ file[Behind + 2] = Text
  BY <1>1, PatchRead
<1> DEFINE b == Behind'
<1>3. b \in Nat /\ Len(file) \in Nat /\ b = Behind + 2 /\ Behind \in Nat
  BY <1>2, LinesOfPIR
<1> HIDE DEF b
<1>4. Behind' = b /\ Line2.buf = b
  BY <1>2 DEF b
<1>5. file[b + 1] = FHEADER
  <2>1. file \in Seq(LineKinds) /\ Behind + 1 \in 1..Len(file)
    BY <1>2, <1>3 DEF IInv, TypeOK
  <2>2. file[Behind + 1 + 2] = FHEADER
    BY <1>2, <2>1, LineOfPIR
  <2>3. Behind + 1 + 2 = b + 1
    BY <1>3
  <2> QED
    BY <2>2, <2>3
<1>6. b \in 2..b /\ file[b - 1] = PHEADER /\ \A k \in b..b : file[k] # PHEADER
  <2>1. b \in 2..b /\ b - 1 = Behind + 1 /\ \A k \in b..b : k = b
    BY <1>3
  <2>2. file[b] = Text
    BY <1>2, <1>3
  <2> QED
    BY <1>2, <2>1, <2>2, KindsDiffer
<1>7. LastSection(PHEADER, patch.name)'
  BY <1>1, <1>4, <1>6 DEF LastSection
<1>8. Aligned' /\ Expected' /\ SectionsInHand' /\ Accepted'
  BY <1>1, <1>2, <1>4, <1>5, <1>7 DEF Aligned, Expected, SectionsInHand, Accepted, InPatch, InChapter
<1> QED
  BY <1>2, <1>8 DEF PIRState

\* A header read and pushed back, or the end, leaves the decoder where it was.
LEMMA SectionEndPIR ==
  ASSUME IInv, IsPatchCOutput(file), file' = file,
         \/ Kind(Line1) = Empty /\ st' = Line1
         \/ Kind(Line1) \in {PHEADER, FHEADER} /\ st' = Unget(Line1)
  PROVE  /\ Behind \in Nat /\ Behind' = Behind /\ Behind % 2 = 0
         /\ \/ Behind = Len(file) /\ Kind(Line1) = Empty
            \/ /\ Behind # Len(file) /\ Kind(Line1) = file[Behind + 1]
               /\ Kind(Line1) \in {PHEADER, FHEADER}
<1>1. /\ Behind \in Nat /\ Len(file) \in Nat /\ file \in Seq(LineKinds) /\ Behind = BehindOf(st)
      /\ Behind' = BehindOf(st')
  BY LinesOfPIR DEF IInv, TypeOK, Behind, BehindOf
<1>2. CASE Kind(Line1) = Empty /\ st' = Line1
  <2>1. Behind = Len(file) /\ BehindOf(Line1) = Behind
    BY <1>2, LinesOfPIR, KindsDiffer
  <2>2. Behind % 2 = 0
    BY <2>1 DEF IsPatchCOutput
  <2> QED
    BY <1>1, <1>2, <2>1, <2>2
<1>3. CASE Kind(Line1) \in {PHEADER, FHEADER} /\ st' = Unget(Line1)
  <2>1. /\ Behind # Len(file) /\ Behind + 1 \in 1..Len(file)
        /\ Kind(Line1) = file[Behind + 1]
    BY <1>3, LinesOfPIR, KindsDiffer DEF IsNull
  <2>2. (Behind + 1) % 2 = 1
    BY <1>1, <1>3, <2>1, LineOfPIR, KindsDiffer
  <2>3. Behind % 2 = 0
    BY <1>1, <2>2
  <2>4. BehindOf(Unget(Line1)) = Behind
    BY <1>3, PushedBack DEF Overcrosses
  <2> QED
    BY <1>1, <1>3, <2>1, <2>3, <2>4
<1> QED
  BY <1>2, <1>3

LEMMA NoMoreChaptersPIR == ASSUME IInv, IsPatchCOutput(file), PIRState, NoMoreChapters PROVE PIRState'
<1>1. /\ pc = "next_chapter" /\ pc' = "next_patch"
      /\ UNCHANGED <<file, driver, chap, hunk, skipped, delivered>>
  BY DEF NoMoreChapters, AfterChapters
<1>2. Behind % 2 = 0
  BY <1>1 DEF PIRState, Aligned, InPatch
<1>3. \/ Kind(Line1) = Empty /\ st' = Line1
      \/ Kind(Line1) = PHEADER /\ st' = Unget(Line1)
  BY <1>2, SectionOfPIR, KindsDiffer DEF NoMoreChapters, IsNull
<1>4. /\ Behind \in Nat /\ Behind' = Behind
      /\ \/ Behind = Len(file) /\ Kind(Line1) = Empty
         \/ /\ Behind # Len(file) /\ Kind(Line1) = file[Behind + 1]
            /\ Kind(Line1) \in {PHEADER, FHEADER}
  BY <1>1, <1>3, SectionEndPIR
<1>5. Behind = Len(file) \/ file[Behind + 1] = PHEADER
  BY <1>3, <1>4, KindsDiffer
<1>6. HunksReached'
  BY <1>1, <1>4, StandsStill DEF PIRState
<1> QED
  BY <1>1, <1>2, <1>4, <1>5, <1>6 DEF PIRState, Aligned, Expected, SectionsInHand, Accepted, InPatch, InChapter

LEMMA OpenChapterPIR == ASSUME IInv, IsPatchCOutput(file), PIRState, OpenChapter PROVE PIRState'
<1>1. /\ pc = "next_chapter" /\ Kind(Line1) = FHEADER /\ pc' = "match_file" /\ st' = Line2
      /\ chap' = Line2.buf
      /\ UNCHANGED <<file, driver, patch, skipped, delivered>>
  BY DEF OpenChapter
<1>2. Behind % 2 = 0
  BY <1>1 DEF PIRState, Aligned, InPatch
<1> DEFINE b == Behind + 2
<1>3. /\ Behind \in Nat /\ file[Behind + 1] = FHEADER /\ file[Behind + 2] = Text
      /\ Line2.buf = b /\ BehindOf(Line2) = b /\ b \in 1..Len(file) /\ b % 2 = 0
  BY <1>1, <1>2, SectionOfPIR, LinesOfPIR, KindsDiffer
<1>4. Behind' = b
  BY <1>1, <1>3 DEF Behind, BehindOf
<1>5. b \in Nat /\ b = Behind + 2 /\ file[b - 1] = FHEADER /\ file[b] = Text /\ Behind <= b
  <2>1. b - 1 = Behind + 1
    BY <1>3
  <2> QED
    BY <1>3, <2>1
<1> HIDE DEF b
<1>6. \A n \in (Behind + 1)..b : file[n] \in {FHEADER, Text}
  <2>1. \A n \in (Behind + 1)..b : n = b - 1 \/ n = b
    BY <1>3, <1>5
  <2> QED
    BY <1>5, <2>1
<1>7. HunksReached'
  BY <1>1, <1>3, <1>4, <1>5, <1>6, KindsDiffer, ReachedGrows DEF PIRState
<1>8. LastSection(PHEADER, patch.name)'
  <2>1. LastSection(PHEADER, patch.name)
    BY <1>1 DEF PIRState, SectionsInHand, InPatch
  <2>2. \A k \in (Behind + 1)..Behind' : file[k] # PHEADER
    BY <1>4, <1>6, KindsDiffer
  <2>3. /\ patch.name \in 2..Behind'
        /\ file'[patch.name - 1] = PHEADER
        /\ \A k \in patch.name..Behind' : file'[k] # PHEADER
    BY <1>1, <1>3, <1>4, <1>5, <2>1, <2>2, LastSectionGrows
  <2> QED
    BY <1>1, <2>3 DEF LastSection
<1>9. LastSection(FHEADER, chap)'
  <2>1. b \in 2..b /\ \A k \in b..b : k = b
    BY <1>3, <1>5
  <2>2. b \in 2..b /\ file[b - 1] = FHEADER /\ \A k \in b..b : file[k] # FHEADER
    BY <1>5, <2>1, KindsDiffer
  <2> QED
    BY <1>1, <1>3, <1>4, <2>2 DEF LastSection
<1> QED
  BY <1>1, <1>3, <1>4, <1>7, <1>8, <1>9
     DEF PIRState, Aligned, Expected, SectionsInHand, Accepted, InPatch, InChapter

LEMMA MatchFilePIR == ASSUME IInv, IsPatchCOutput(file), PIRState, MatchFile PROVE PIRState'
<1>1. /\ pc = "match_file" /\ pc' \in {"next_hunk", "skip"}
      /\ skipped \subseteq skipped'
      /\ pc' = "skip" => chap \in skipped'
      /\ UNCHANGED <<file, driver, st, patch, chap, hunk, delivered>>
  BY DEF MatchFile
<1>2. Behind' = Behind /\ Behind \in Nat /\ Behind % 2 = 0
  BY <1>1, LinesOfPIR DEF Behind, PIRState, Aligned, InPatch
<1>3. HunksReached'
  BY <1>1, <1>2, StandsStill DEF PIRState
<1>4. LastSection(PHEADER, patch.name)' /\ LastSection(FHEADER, chap)'
  BY <1>1, <1>2 DEF PIRState, SectionsInHand, InPatch, InChapter, LastSection
<1> QED
  BY <1>1, <1>2, <1>3, <1>4 DEF PIRState, Aligned, Expected, SectionsInHand, Accepted, InPatch, InChapter

LEMMA SkipLinePIR == ASSUME IInv, IsPatchCOutput(file), PIRState, SkipLine PROVE PIRState'
<1>1. /\ pc = "skip" /\ pc' = "skip" /\ st' = Line1
      /\ Kind(Line1) # Empty /\ Kind(Line1) \notin {PHEADER, FHEADER}
      /\ UNCHANGED <<file, driver, patch, chap, hunk, skipped, delivered>>
  BY DEF SkipLine, SkipStops, Overcrosses
<1> DEFINE b == Behind + 1
<1>2. Behind \in Nat /\ BehindOf(Line1) = b /\ Kind(Line1) = file[b] /\ Behind <= b /\ b \in Nat
  BY <1>1, LinesOfPIR, KindsDiffer DEF IsNull
<1>3. Behind' = b
  BY <1>1, <1>2 DEF Behind, BehindOf
<1>4. b = Behind + 1 /\ \A n \in (Behind + 1)..b : n = b
  BY <1>2
<1> HIDE DEF b
<1>5. LastSection(PHEADER, patch.name) /\ LastSection(FHEADER, chap) /\ chap \in skipped
  BY <1>1 DEF PIRState, SectionsInHand, InPatch, InChapter
<1>6. \A n \in (Behind + 1)..b : SectionOf(FHEADER, n) \in skipped
  <2>1. b \in chap..(Behind + 1)
    BY <1>2, <1>4, <1>5 DEF LastSection
  <2>2. SectionOf(FHEADER, b) = chap
    BY <1>2, <1>5, <2>1, InHandIs
  <2> QED
    BY <1>4, <1>5, <2>2
<1>7. HunksReached'
  BY <1>1, <1>2, <1>3, <1>6, ReachedGrows DEF PIRState
<1>8. \A k \in (Behind + 1)..Behind' : file[k] # PHEADER /\ file[k] # FHEADER
  BY <1>1, <1>2, <1>3, <1>4
<1>9. LastSection(PHEADER, patch.name)'
  <2>1. /\ patch.name \in 2..Behind'
        /\ file'[patch.name - 1] = PHEADER
        /\ \A k \in patch.name..Behind' : file'[k] # PHEADER
    BY <1>1, <1>2, <1>3, <1>5, <1>8, LastSectionGrows
  <2> QED
    BY <1>1, <2>1 DEF LastSection
<1>10. LastSection(FHEADER, chap)'
  <2>1. /\ chap \in 2..Behind'
        /\ file'[chap - 1] = FHEADER
        /\ \A k \in chap..Behind' : file'[k] # FHEADER
    BY <1>1, <1>2, <1>3, <1>5, <1>8, LastSectionGrows
  <2> QED
    BY <1>1, <2>1 DEF LastSection
<1> QED
  BY <1>1, <1>5, <1>7, <1>9, <1>10
     DEF PIRState, Aligned, Expected, SectionsInHand, Accepted, InPatch, InChapter

\* Both ways out of a chapter stand before the next section or at the end.
LEMMA ChapterEndPIR ==
  ASSUME IInv, IsPatchCOutput(file), PIRState,
         pc \in {"skip", "next_hunk"}, pc' = "next_chapter",
         \/ Kind(Line1) = Empty /\ st' = Line1
         \/ Kind(Line1) \in {PHEADER, FHEADER} /\ st' = Unget(Line1),
         UNCHANGED <<file, driver, patch, chap, hunk, skipped, delivered>>
  PROVE  PIRState'
<1>1. /\ Behind \in Nat /\ Behind' = Behind /\ Behind % 2 = 0
      /\ \/ Behind = Len(file) /\ Kind(Line1) = Empty
         \/ /\ Behind # Len(file) /\ Kind(Line1) = file[Behind + 1]
            /\ Kind(Line1) \in {PHEADER, FHEADER}
  BY SectionEndPIR
<1>2. Behind = Len(file) \/ file[Behind + 1] \in {PHEADER, FHEADER}
  BY <1>1, KindsDiffer
<1>3. HunksReached'
  BY <1>1, StandsStill DEF PIRState
<1>4. LastSection(PHEADER, patch.name)'
  BY <1>1 DEF PIRState, SectionsInHand, InPatch, LastSection
<1> QED
  BY <1>1, <1>2, <1>3, <1>4 DEF PIRState, Aligned, Expected, SectionsInHand, Accepted, InPatch, InChapter

LEMMA SkipEndsPIR == ASSUME IInv, IsPatchCOutput(file), PIRState, SkipEnds PROVE PIRState'
<1>1. \/ Kind(Line1) = Empty /\ st' = Line1
      \/ Kind(Line1) \in {PHEADER, FHEADER} /\ st' = Unget(Line1)
  BY KindsDiffer DEF SkipEnds, SkipStops, AfterSkip, Overcrosses, IsNull
<1> QED
  BY <1>1, ChapterEndPIR DEF SkipEnds

LEMMA NoMoreHunksPIR == ASSUME IInv, IsPatchCOutput(file), PIRState, NoMoreHunks PROVE PIRState'
  BY ChapterEndPIR DEF NoMoreHunks, Overcrosses, IsNull

LEMMA OpenHunkPIR == ASSUME IInv, IsPatchCOutput(file), PIRState, OpenHunk PROVE PIRState'
<1>1. /\ pc = "next_hunk" /\ Kind(Line1) = HHEADER /\ pc' = "use_hunk" /\ st' = Line2
      /\ hunk' = Line1.buf
      /\ UNCHANGED <<file, driver, patch, chap, skipped, delivered>>
  BY DEF OpenHunk, HunkRead
<1>2. Behind % 2 = 0
  BY <1>1 DEF PIRState, Aligned, InPatch
<1> DEFINE b == Behind + 2
<1>3. /\ Behind \in Nat /\ file[Behind + 1] = HHEADER /\ file[Behind + 2] = Text
      /\ Line1.buf = Behind + 1
      /\ BehindOf(Line2) = b /\ b \in 1..Len(file) /\ b % 2 = 0
  BY <1>1, <1>2, SectionOfPIR, LinesOfPIR, KindsDiffer
<1>4. Behind' = b
  BY <1>1, <1>3 DEF Behind, BehindOf
<1>5. /\ b \in Nat /\ b = Behind + 2 /\ Behind <= b
      /\ hunk' = b - 1 /\ file[b - 1] = HHEADER /\ file[b] = Text
  <2>1. b - 1 = Behind + 1
    BY <1>3
  <2> QED
    BY <1>1, <1>3, <2>1
<1> HIDE DEF b
<1>6. \A n \in (Behind + 1)..b : n = b - 1 \/ n = b
  BY <1>3, <1>5
<1>7. HunksReached'
  <2>1. \A n \in (Behind + 1)..Behind' : file[n] = HHEADER => n = hunk'
    BY <1>4, <1>5, <1>6, KindsDiffer
  <2> QED
    BY <1>1, <1>3, <1>4, <1>5, <2>1, ReachedGrows DEF PIRState
<1>8. \A k \in (Behind + 1)..Behind' : file[k] # PHEADER /\ file[k] # FHEADER
  BY <1>4, <1>5, <1>6, KindsDiffer
<1>9. LastSection(PHEADER, patch.name) /\ LastSection(FHEADER, chap)
  BY <1>1 DEF PIRState, SectionsInHand, InPatch, InChapter
<1>10. LastSection(PHEADER, patch.name)'
  <2>1. /\ patch.name \in 2..Behind'
        /\ file'[patch.name - 1] = PHEADER
        /\ \A k \in patch.name..Behind' : file'[k] # PHEADER
    BY <1>1, <1>3, <1>4, <1>5, <1>8, <1>9, LastSectionGrows
  <2> QED
    BY <1>1, <2>1 DEF LastSection
<1>11. LastSection(FHEADER, chap)'
  <2>1. /\ chap \in 2..Behind'
        /\ file'[chap - 1] = FHEADER
        /\ \A k \in chap..Behind' : file'[k] # FHEADER
    BY <1>1, <1>3, <1>4, <1>5, <1>8, <1>9, LastSectionGrows
  <2> QED
    BY <1>1, <2>1 DEF LastSection
<1>12. Aligned' /\ Expected' /\ Accepted'
  BY <1>1, <1>3, <1>4 DEF Aligned, Expected, Accepted, InPatch
<1>13. SectionsInHand'
  BY <1>1, <1>4, <1>5, <1>10, <1>11 DEF SectionsInHand, InPatch, InChapter
<1> QED
  BY <1>7, <1>12, <1>13 DEF PIRState

LEMMA UseHunkPIR == ASSUME IInv, IsPatchCOutput(file), PIRState, UseHunk PROVE PIRState'
<1> DEFINE new == [patch |-> patch.name, chap |-> chap, head |-> hunk, ctrl |-> st.buf]
<1>1. /\ delivered' = Append(delivered, new)
      /\ pc = "use_hunk" /\ pc' = "next_hunk"
      /\ UNCHANGED <<file, driver, st, patch, chap, hunk, skipped>>
  BY DEF UseHunk
<1>2. delivered \in Seq(UsedHunks) /\ hunk \in Nat
  BY DEF IInv, TypeOK
<1>3. /\ DOMAIN delivered' = 1..(Len(delivered) + 1) /\ DOMAIN delivered = 1..Len(delivered)
      /\ Len(delivered) \in Nat
      /\ \A d \in DOMAIN delivered : d \in DOMAIN delivered' /\ delivered'[d] = delivered[d]
      /\ delivered'[Len(delivered) + 1] = new /\ Len(delivered) + 1 \in DOMAIN delivered'
  BY <1>1, <1>2
<1>4. new.head = hunk /\ new.chap = chap /\ new.patch = patch.name
  OBVIOUS
<1> HIDE DEF new
<1>5. Behind' = Behind /\ Behind \in Nat /\ Behind % 2 = 0
  BY <1>1, LinesOfPIR DEF Behind, PIRState, Aligned, InPatch
<1>6. LastSection(PHEADER, patch.name) /\ LastSection(FHEADER, chap) /\ hunk = Behind - 1
  BY <1>1 DEF PIRState, SectionsInHand, InPatch, InChapter
<1>7. SectionOf(FHEADER, hunk) = chap /\ SectionOf(PHEADER, hunk) = patch.name
  <2>1. patch.name < chap /\ chap < hunk /\ patch.name \in Nat /\ chap \in Nat
    BY <1>1 DEF IInv, TypeOK, NamesBehind, HunkInHand
  <2>2. hunk \in chap..(Behind + 1) /\ hunk \in patch.name..(Behind + 1)
    BY <1>2, <1>5, <1>6, <2>1
  <2> QED
    BY <1>5, <1>6, <2>2, InHandIs
<1>8. HunksReached'
  <2> SUFFICES ASSUME NEW n \in 1..Behind, file[n] = HHEADER,
                      SectionOf(FHEADER, n) \notin skipped
               PROVE  \E d \in DOMAIN delivered' :
                         /\ delivered'[d].head = n
                         /\ delivered'[d].chap = SectionOf(FHEADER, n)
                         /\ delivered'[d].patch = SectionOf(PHEADER, n)
    BY <1>1, <1>5, ReachedBy
  <2>1. CASE n = hunk
    BY <1>3, <1>4, <1>7, <2>1
  <2>2. CASE n # hunk
    <3>1. \E d \in DOMAIN delivered :
             /\ delivered[d].head = n
             /\ delivered[d].chap = SectionOf(FHEADER, n)
             /\ delivered[d].patch = SectionOf(PHEADER, n)
      BY <2>2 DEF PIRState, HunksReached
    <3> QED
      BY <1>3, <3>1
  <2> QED
    BY <2>1, <2>2
<1>9. LastSection(PHEADER, patch.name)' /\ LastSection(FHEADER, chap)'
  BY <1>1, <1>5, <1>6 DEF LastSection
<1> QED
  BY <1>1, <1>5, <1>8, <1>9 DEF PIRState, Aligned, Expected, SectionsInHand, Accepted, InPatch, InChapter

-----------------------------------------------------------------------------
LEMMA InitPIR == ASSUME Init PROVE PIRInv
<1> SUFFICES ASSUME IsPatchCOutput(file) PROVE PIRState
  BY DEF PIRInv
<1>1. pc = "next_patch" /\ Behind = 0 /\ delivered = <<>>
  BY DEF Init, Behind
<1>2. Len(file) \in Nat
  BY FilesAssumption DEF Init
<1>3. Len(file) = 0 \/ file[1] = PHEADER
  BY <1>2 DEF IsPatchCOutput
<1>4. HunksReached
  BY <1>1 DEF HunksReached
<1>5. Expected
  BY <1>1, <1>2, <1>3 DEF Expected
<1> QED
  BY <1>1, <1>4, <1>5 DEF PIRState, Aligned, SectionsInHand, Accepted, InPatch, InChapter

LEMMA NextPIR == ASSUME IInv, PIRInv, [Next]_vars PROVE PIRInv'
<1>1. CASE UNCHANGED vars
  <2>1. file' = file /\ Behind' = Behind /\ UNCHANGED <<pc, patch, chap, hunk, skipped, delivered>>
    BY <1>1 DEF vars, Behind
  <2> SUFFICES ASSUME IsPatchCOutput(file), PIRState PROVE PIRState'
    BY <2>1 DEF PIRInv
  <2>2. HunksReached'
    BY <2>1, ReachedBy DEF PIRState, HunksReached
  <2> QED
    BY <2>1, <2>2 DEF PIRState, Aligned, Expected, SectionsInHand, Accepted, InPatch, InChapter, LastSection
<1>2. CASE Next /\ ~Finished
  <2>1. file' = file
    BY <1>2 DEF Next, ReadsCutLine, NoMorePatches, BadPatch, DeletePatchAgain, OpenPatch, NoMoreChapters,
                AfterChapters, BadChapter, OpenChapter, MatchFile, SkipLine, SkipEnds, NoMoreHunks, BadHunk,
                HunkAborts, OpenHunk, UseHunk, SyntaxError, Stop
  <2> SUFFICES ASSUME IsPatchCOutput(file), PIRState PROVE PIRState'
    BY <2>1 DEF PIRInv
  <2> QED
    BY <1>2, NoErrorPIR, NoMorePatchesPIR, DeletePatchAgainPIR, OpenPatchPIR, NoMoreChaptersPIR,
       OpenChapterPIR, MatchFilePIR, SkipLinePIR, SkipEndsPIR, NoMoreHunksPIR, OpenHunkPIR, UseHunkPIR
       DEF Next
<1>3. CASE Finished
  BY <1>1, <1>3 DEF Finished
<1> QED
  BY <1>1, <1>2, <1>3

\* Of every file patch-c writes, nothing is lost: the decoder accepts it to its
\* last line, and each hunk behind it was used under the chapter and the patch
\* it lies in, unless the driver gave that chapter up.
THEOREM NothingEverLost == Spec => []NothingLost
<1>1. Init => IInv /\ PIRInv
  BY InitHolds, InitPIR
<1>2. IInv /\ PIRInv /\ [Next]_vars => (IInv /\ PIRInv)'
  BY NextHolds, NextPIR
<1>3. PIRInv => NothingLost
  BY DEF PIRInv, PIRState, Accepted, NothingLost, HunksReached, AcceptsPatchCOutput
<1> QED
  BY <1>1, <1>2, <1>3, PTL DEF Spec
=============================================================================
