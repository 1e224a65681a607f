---------------------------- MODULE PatchDecoder ----------------------------
(***************************************************************************)
(* The pull parser over a PIR file (PatchDecoder, Patch and Chapter of     *)
(* lib/parser/PatchIRDecoder/PatchDecoder.cpp) and the loops that drive it *)
(* (analyze of tools/PerfScope/PerfScope.cpp and the test drivers).        *)
(*                                                                         *)
(* next_patch, next_chapter, next_hunk and skip_rest_of_hunks share one    *)
(* line buffer.  A method that reads the header of the next section pushes *)
(* it back by raising `rewind`, and the next call to next_line, by         *)
(* whichever method, returns the buffer again instead of reading.  The     *)
(* Hunk handed out points into that same buffer.                           *)
(*                                                                         *)
(* A line is its kind.  Names, line numbers and control sequences are      *)
(* identified by the position of their line in the file.  Hunk::reduce,    *)
(* which next_hunk calls, is module HunkReduce: here it returns true of    *)
(* Text and false of any other line.                                       *)
(***************************************************************************)
EXTENDS Integers, Sequences, PIR

CONSTANTS
  Files,     \* PIR files: sequences of line kinds
  Drivers    \* programs that drive the decoder

ASSUME FilesAssumption == Files \subseteq Seq(LineKinds)
ASSUME DriversAssumption == Drivers \subseteq {"PerfScope", "TestMapper", "TestDecoder"}

VARIABLES
  file,       \* the file being read
  driver,     \* the program reading it
  pc,         \* the call the driver makes next, or how it ended
  st,         \* the decoder's line state: lines read, line in buf (0: none), rewind
  patch,      \* the decoder's Patch: "none", "live" or "deleted", and its name line
  chap,       \* the name line of the current Chapter
  hunk,       \* the header line of the Hunk in hand, 0 when there is none
  skipped,    \* chapters the driver gave up
  delivered   \* hunks the driver used: [patch, chap, head, ctrl], lines of the file

vars == <<file, driver, pc, st, patch, chap, hunk, skipped, delivered>>

Ended == {"done", "syntax error", "died", "aborted", "undefined"}

(***************************************************************************)
(* next_line over fgetline.  The end of the file and an empty line both    *)
(* give chars_read = 0 and a NULL line.                                    *)
(*                                                                         *)
(* Slips: rewind left raised; the end of the file not noticed.             *)
(***************************************************************************)
ReadOn(s) ==
  IF s.pos < Len(file) THEN [pos |-> s.pos + 1, buf |-> s.pos + 1, rewind |-> FALSE]
  ELSE [pos |-> s.pos, buf |-> 0, rewind |-> FALSE]
NextLineKeepsRewind(s) == IF s.rewind THEN s ELSE ReadOn(s)
NextLinePastEnd(s) == IF s.rewind THEN [s EXCEPT !.rewind = FALSE] ELSE [ReadOn(s) EXCEPT !.pos = s.pos + 1]
NextLine(s) == IF s.rewind THEN [s EXCEPT !.rewind = FALSE] ELSE ReadOn(s)

Kind(s) == IF s.buf = 0 THEN Empty ELSE file[s.buf]
IsNull(s) == Kind(s) = Empty
Overcrosses(s) == Kind(s) \in {PHEADER, FHEADER}

\* unget_line.  Slip: forgotten.
UngetForgotten(s) == s
Unget(s) == [s EXCEPT !.rewind = TRUE]

\* Where skip_rest_of_hunks stops.  Slips: at chapters only, or pushing back
\* the end of the file as well.
SkipStopsAtChapter(s) == Kind(s) = FHEADER
SkipStops(s) == Overcrosses(s)
SkipUngetsEnd(s) == Unget(s)
AfterSkip(s) == IF IsNull(s) THEN s ELSE Unget(s)

\* The first and the second line the next call reads.
Line1 == NextLine(st)
Line2 == NextLine(Line1)

-----------------------------------------------------------------------------
Init ==
  /\ file \in Files
  /\ driver \in Drivers
  /\ pc = "next_patch"
  /\ st = [pos |-> 0, buf |-> 0, rewind |-> FALSE]
  /\ patch = [state |-> "none", name |-> 0]
  /\ chap = 0
  /\ hunk = 0
  /\ skipped = {}
  /\ delivered = <<>>

(***************************************************************************)
(* The program ends inside a decoder method: syntaxError exits, fgetline   *)
(* dies on a line the end of the file cuts short.                          *)
(***************************************************************************)
Stop(how, s) ==
  /\ pc' = how
  /\ st' = s
  /\ UNCHANGED <<file, driver, patch, chap, hunk, skipped, delivered>>

SyntaxError(s) == Stop("syntax error", s)

\* A method that reads two lines reads the second only after a good header.
ReadsCutLine ==
  \/ pc \in {"next_patch", "next_chapter", "next_hunk", "skip"} /\ Kind(Line1) = Cut /\ Stop("died", Line1)
  \/ /\ \/ pc = "next_patch" /\ Kind(Line1) = PHEADER
        \/ pc = "next_chapter" /\ Kind(Line1) = FHEADER
        \/ pc = "next_hunk" /\ Kind(Line1) = HHEADER
     /\ Kind(Line2) = Cut
     /\ Stop("died", Line2)

-----------------------------------------------------------------------------
(* PatchDecoder::next_patch *)

NoMorePatches ==
  /\ pc = "next_patch"
  /\ IsNull(Line1)
  /\ Stop("done", Line1)

BadPatch ==
  /\ pc = "next_patch"
  /\ \/ Kind(Line1) \notin {PHEADER, Empty, Cut} /\ SyntaxError(Line1)
     \/ Kind(Line1) = PHEADER /\ IsNull(Line2) /\ SyntaxError(Line2)

\* `if (patch != NULL) delete patch` of a Patch the driver deleted already.
DeletePatchAgain ==
  /\ pc = "next_patch"
  /\ Kind(Line1) = PHEADER
  /\ Kind(Line2) \notin {Empty, Cut}
  /\ patch.state = "deleted"
  /\ Stop("undefined", Line2)

OpenPatch ==
  /\ pc = "next_patch"
  /\ Kind(Line1) = PHEADER
  /\ Kind(Line2) \notin {Empty, Cut}
  /\ patch.state # "deleted"
  /\ patch' = [state |-> "live", name |-> Line2.buf]
  /\ st' = Line2
  /\ pc' = "next_chapter"
  /\ UNCHANGED <<file, driver, chap, hunk, skipped, delivered>>

-----------------------------------------------------------------------------
(* Patch::next_chapter *)

\* analyze deletes the Patch after its last chapter; the test drivers do not.
AfterChapters ==
  /\ pc' = "next_patch"
  /\ patch' = IF driver = "PerfScope" THEN [patch EXCEPT !.state = "deleted"] ELSE patch
  /\ UNCHANGED <<file, driver, chap, hunk, skipped, delivered>>

\* The end, the next patch, or a chapter whose name line is missing.
NoMoreChapters ==
  /\ pc = "next_chapter"
  /\ \/ IsNull(Line1) /\ st' = Line1
     \/ Kind(Line1) = PHEADER /\ st' = Unget(Line1)
     \/ Kind(Line1) = FHEADER /\ IsNull(Line2) /\ st' = Line2
  /\ AfterChapters

BadChapter ==
  /\ pc = "next_chapter"
  /\ Kind(Line1) \notin {PHEADER, FHEADER, Empty, Cut}
  /\ SyntaxError(Line1)

OpenChapter ==
  /\ pc = "next_chapter"
  /\ Kind(Line1) = FHEADER
  /\ Kind(Line2) \notin {Empty, Cut}
  /\ chap' = Line2.buf
  /\ hunk' = 0
  /\ st' = Line2
  /\ pc' = "match_file"
  /\ UNCHANGED <<file, driver, patch, skipped, delivered>>

(***************************************************************************)
(* The driver's choice: src2obj and resetTarget find the chapter's file in *)
(* some module, and its hunks are read; otherwise they are skipped.        *)
(* TestDecoder reads the hunks of every chapter.                           *)
(***************************************************************************)
MatchFile ==
  /\ pc = "match_file"
  /\ \/ pc' = "next_hunk" /\ UNCHANGED skipped
     \/ driver # "TestDecoder" /\ pc' = "skip" /\ skipped' = skipped \cup {chap}
  /\ UNCHANGED <<file, driver, st, patch, chap, hunk, delivered>>

-----------------------------------------------------------------------------
(* Chapter::skip_rest_of_hunks: one iteration of its loop *)

SkipLine ==
  /\ pc = "skip"
  /\ Kind(Line1) \notin {Empty, Cut}
  /\ ~SkipStops(Line1)
  /\ st' = Line1
  /\ UNCHANGED <<file, driver, pc, patch, chap, hunk, skipped, delivered>>

SkipEnds ==
  /\ pc = "skip"
  /\ IsNull(Line1) \/ SkipStops(Line1)
  /\ st' = AfterSkip(Line1)
  /\ pc' = "next_chapter"
  /\ UNCHANGED <<file, driver, patch, chap, hunk, skipped, delivered>>

-----------------------------------------------------------------------------
(* Chapter::next_hunk *)

NoMoreHunks ==
  /\ pc = "next_hunk"
  /\ \/ IsNull(Line1) /\ st' = Line1
     \/ Overcrosses(Line1) /\ st' = Unget(Line1)
  /\ pc' = "next_chapter"
  /\ UNCHANGED <<file, driver, patch, chap, hunk, skipped, delivered>>

BadHunk ==
  /\ pc = "next_hunk"
  /\ \/ Kind(Line1) \in {HHEADER1, Text, Garbled} /\ SyntaxError(Line1)
     \/ Kind(Line1) = HHEADER /\ IsNull(Line2) /\ SyntaxError(Line2)

\* `assert(hunk->reduce())`: the line is no control sequence.
HunkAborts ==
  /\ pc = "next_hunk"
  /\ Kind(Line1) = HHEADER
  /\ Kind(Line2) \notin {Text, Empty, Cut}
  /\ Stop("aborted", Line2)

\* The lines read before the Hunk is handed out.
\* Slip: next_hunk reads ahead to see whether the chapter goes on.
HunkReadsAhead == Unget(NextLine(Line2))
HunkRead == Line2

OpenHunk ==
  /\ pc = "next_hunk"
  /\ Kind(Line1) = HHEADER
  /\ Kind(Line2) = Text
  /\ hunk' = Line1.buf
  /\ st' = HunkRead
  /\ pc' = "use_hunk"
  /\ UNCHANGED <<file, driver, patch, chap, skipped, delivered>>

\* The driver works on the hunk.  ctrlseq points into the decoder's buffer,
\* so what it holds is the line the buffer holds now.
UseHunk ==
  /\ pc = "use_hunk"
  /\ delivered' = Append(delivered, [patch |-> patch.name, chap |-> chap, head |-> hunk, ctrl |-> st.buf])
  /\ pc' = "next_hunk"
  /\ UNCHANGED <<file, driver, st, patch, chap, hunk, skipped>>

-----------------------------------------------------------------------------
Finished == pc \in Ended /\ UNCHANGED vars

Next ==
  \/ ReadsCutLine
  \/ NoMorePatches \/ BadPatch \/ DeletePatchAgain \/ OpenPatch
  \/ NoMoreChapters \/ BadChapter \/ OpenChapter
  \/ MatchFile
  \/ SkipLine \/ SkipEnds
  \/ NoMoreHunks \/ BadHunk \/ HunkAborts \/ OpenHunk
  \/ UseHunk
  \/ Finished

\* The program is sequential: it takes its next step.
Spec == Init /\ [][Next]_vars /\ WF_vars(Next)

-----------------------------------------------------------------------------
(* Properties *)

UsedHunks == [patch : Nat, chap : Nat, head : Nat, ctrl : Nat]
StreamType == [pos : Nat, buf : Nat, rewind : BOOLEAN]

\* The shape of the state; the decoder's position never leaves the file.
TypeOK ==
  /\ file \in Seq(LineKinds)
  /\ driver \in Drivers
  /\ pc \in {"next_patch", "next_chapter", "match_file", "skip", "next_hunk", "use_hunk"} \cup Ended
  /\ st \in StreamType
  /\ st.pos <= Len(file)
  /\ st.buf <= st.pos
  /\ patch \in [state : {"none", "live", "deleted"}, name : Nat]
  /\ chap \in Nat
  /\ hunk \in Nat
  /\ skipped \subseteq Nat
  /\ delivered \in Seq(UsedHunks)

\* The one-line push-back is sound: while a line is pushed back, the buffer
\* still holds it, it is the last line read, and it is a section header, so
\* the method that reads it again takes the branch of a header.
PushBackSound ==
  st.rewind => st.buf = st.pos /\ st.buf > 0 /\ Overcrosses(st)

\* Whatever the file holds, a hunk reaches the driver with its own control
\* line, after the name of its chapter and that after the name of its patch,
\* and hunks are used once each, in the order of the file.
HunksInOrder ==
  /\ \A n \in DOMAIN delivered :
       /\ file[delivered[n].head] = HHEADER
       /\ delivered[n].ctrl = delivered[n].head + 1
       /\ delivered[n].patch < delivered[n].chap
       /\ delivered[n].chap < delivered[n].head
  /\ \A m, n \in DOMAIN delivered : m < n => delivered[m].ctrl < delivered[n].head

\* The line that names the section of kind h a line lies in.
SectionOf(h, n) == CHOOSE m \in 2..n : file[m - 1] = h /\ \A k \in (m + 1)..n : file[k - 1] # h

\* Of a file patch-c wrote, every hunk behind the decoder's position was used
\* under its own patch and chapter, unless the driver gave its chapter up.
Behind == IF st.rewind THEN st.pos - 1 ELSE st.pos
HunksReached ==
  IsPatchCOutput(file) =>
    \A n \in 1..Behind :
      file[n] = HHEADER =>
        \/ SectionOf(FHEADER, n) \in skipped
        \/ pc = "use_hunk" /\ n = hunk
        \/ \E d \in DOMAIN delivered :
             /\ delivered[d].head = n
             /\ delivered[d].chap = SectionOf(FHEADER, n)
             /\ delivered[d].patch = SectionOf(PHEADER, n)

\* The decoder accepts whatever patch-c writes: no syntax error, no fatal read
\* and no failed assertion, and a normal end only after the last line.
AcceptsPatchCOutput ==
  IsPatchCOutput(file) =>
    /\ pc \notin {"syntax error", "died", "aborted"}
    /\ pc = "done" => Behind = Len(file)

\* Nothing of a file patch-c wrote is lost, neither a hunk on the way nor the
\* rest of the file after a mistaken end (PatchDecoder.cpp:514).
NothingLost == HunksReached /\ AcceptsPatchCOutput

\* Whatever the file holds, the program ends.
Terminates == <>(pc \in Ended)

(***************************************************************************)
(* What the sources say of the program, and the code does not do.          *)
(***************************************************************************)

\* next_chapter leaves the header of the next patch to next_patch ("We
\* overcross the next patch"), which then reads that patch.
NextPatchIsRead == pc # "undefined"
=============================================================================
