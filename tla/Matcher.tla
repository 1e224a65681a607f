------------------------------- MODULE Matcher -------------------------------
(***************************************************************************)
(* The mapping of one chapter of a patch to the instructions it touches:   *)
(* Matcher::matchFunction and Matcher::matchInstruction of lib/mapper/     *)
(* Matcher.cpp, and the loops of analyze (tools/PerfScope/PerfScope.cpp)   *)
(* that drive them over the hunks of the chapter.                          *)
(*                                                                         *)
(* Three cursors move forward together and are never moved back: I over    *)
(* the sorted subprograms of the compile unit, HI over the Mods of the     *)
(* hunk and fi over the instructions of the function.  I and fi survive    *)
(* from one hunk to the next.  One step is one iteration of a loop, or one *)
(* of the two halves of an iteration of matchFunction.                     *)
(*                                                                         *)
(* A subprogram is its first line, the lines of its instructions (0 when   *)
(* an instruction has no location), whether it is in the file of the       *)
(* chapter and whether the module holds its Function.                      *)
(***************************************************************************)
EXTENDS Integers, Sequences

CONSTANTS
  Units,     \* compile units: sequences of subprograms, as processSubprograms sorts them
  Chapters   \* chapters: sequences of hunks, a hunk being the sequence of its Mods

ModRecords == [type : {"ADD", "DEL", "REP"}, begin : Nat, end : Nat]
SubprogramRecords == [line : Nat \ {0}, insts : Seq(Nat), mine : BOOLEAN, fn : BOOLEAN]

\* What the Hunk of module HunkReduce guarantees of the Mods (ModsOrdered),
\* and a diff of its hunks.
Follows(a, b) ==
  /\ a.end <= b.begin
  /\ a.type # "DEL" /\ b.type # "DEL" => a.end < b.begin

IsHunk(hk) ==
  /\ hk \in Seq(ModRecords) /\ hk # <<>>
  /\ \A n \in DOMAIN hk : hk[n].begin <= hk[n].end
  /\ \A m, n \in DOMAIN hk : m < n => Follows(hk[m], hk[n])

ASSUME ChaptersAssumption ==
  \A c \in Chapters :
    /\ c \in Seq(Seq(ModRecords))
    /\ \A k \in DOMAIN c : IsHunk(c[k])
    /\ \A j, k \in DOMAIN c : j < k => Follows(c[j][Len(c[j])], c[k][1])

\* processSubprograms drops subprograms at line 0 and sorts by file and line;
\* the iterator starts at the first subprogram of the chapter's file.
ASSUME UnitsAssumption ==
  \A u \in Units :
    /\ u \in Seq(SubprogramRecords) /\ u # <<>> /\ u[1].mine
    /\ \A m, n \in DOMAIN u : m < n /\ u[n].mine => u[m].mine /\ u[m].line <= u[n].line

VARIABLES
  sps, hunks,      \* the compile unit and the chapter, chosen by Init
  pc,              \* where analyze is
  last,            \* lastline of each subprogram, 0 while unknown
  I,               \* the subprogram iterator
  h,               \* hunks taken from the chapter
  scope,           \* what is left of the hunk's rep_enclosing_scope
  multiple,        \* the loop over the functions of the hunk goes on
  func, prevfunc,  \* the function matched, and the one before; 0 for NULL
  mods, HI,        \* the Mods of the hunk, and the iterator over them
  fi,              \* the instruction iterator
  s,               \* 1 once the hunk has entered a function (it is only compared with 0)
  insignificant,   \* no hunk has entered a function
  instmap          \* the instructions collected for each function

vars == <<sps, hunks, pc, last, I, h, scope, multiple, func, prevfunc, mods, HI, fi, s,
          insignificant, instmap>>

chapterVars == <<sps, hunks, h>>
matchVars == <<last, I, scope, multiple, func>>
modVars == <<prevfunc, mods, HI, fi, s, insignificant, instmap>>

\* getLastLine: the line of the last instruction; 0 without Function or location.
GetLastLine(sp) == IF sp.fn /\ sp.insts # <<>> THEN sp.insts[Len(sp.insts)] ELSE 0

(***************************************************************************)
(* Helpers of one idea each; a Slip is a mistake the code could contain.   *)
(***************************************************************************)

\* The subprogram does not reach beyond the scope's first line.  A function
\* that ends on that line is passed unless it is one line long.
\* Slip: the one-line function passed as well.
PassedOneLine(f) == last[f] <= scope.begin
Passed(f) == ~(last[f] > scope.begin \/ (last[f] = scope.begin /\ last[f] = sps[f].line))

\* Case (1) of matchFunction: the scope ends before the subprogram.
Before(f) == sps[f].line > scope.end \/ (sps[f].line = scope.end /\ last[f] > sps[f].line)

\* lastline of a subprogram that has none, from the subprogram after it.
InferredLast(f) ==
  IF sps[f].line = sps[f + 1].line THEN sps[f + 1].line ELSE sps[f + 1].line - 1

\* The iterator once a function matched.  Slip: one further.
IterMovesOn == I + 1
IterAfterMatch == I

\* `if (prevfunc != func) fi = inst_begin(func)`.
FiOnEntry == IF prevfunc # func THEN 1 ELSE fi

\* A Mod the function lies behind.
ModSkipped(m) == m.type = "DEL" \/ m.end < sps[func].line

\* An instruction at line l > scope.begin is still in the Mod.  Slip: not tested.
AnyLine(l, m) == TRUE
InMod(l, m) == l <= m.end

\* fi after an instruction is returned.  Slips: not moved, or moved back.
FiStays == fi
FiMovesBack == fi - 1
FiAfterTake == fi + 1

\* HI after a DEL.  Slip: the continue skips the increment.
HiStays == HI
HiAfterDel == HI + 1

\* insignificant after a hunk.  Slip: the last hunk decides.
LastHunkDecides == s = 0
InsignificantAfter == insignificant /\ s = 0

-----------------------------------------------------------------------------
Init ==
  /\ sps \in Units
  /\ hunks \in Chapters
  /\ pc = "next_hunk"
  /\ last = [f \in DOMAIN sps |-> GetLastLine(sps[f])]
  /\ I = 1
  /\ h = 0
  /\ scope = [begin |-> 0, end |-> 0]
  /\ multiple = TRUE
  /\ func = 0
  /\ prevfunc = 0
  /\ mods = <<>>
  /\ HI = 1
  /\ fi = 1
  /\ s = 0
  /\ insignificant = TRUE
  /\ instmap = [f \in DOMAIN sps |-> <<>>]

-----------------------------------------------------------------------------
(* analyze: the loop over the hunks *)

TakeHunk ==
  /\ pc = "next_hunk"
  /\ h < Len(hunks)
  /\ h' = h + 1
  /\ mods' = hunks[h + 1]
  /\ scope' = [begin |-> hunks[h + 1][1].begin, end |-> hunks[h + 1][Len(hunks[h + 1])].end]
  /\ HI' = 1
  /\ s' = 0
  /\ multiple' = TRUE
  /\ pc' = "match"
  /\ UNCHANGED <<sps, hunks, last, I, func, prevfunc, fi, insignificant, instmap>>

NoMoreHunks ==
  /\ pc = "next_hunk"
  /\ h = Len(hunks)
  /\ pc' = "done"
  /\ UNCHANGED <<chapterVars, matchVars, modVars>>

\* After the loop over the functions of a hunk.
EndHunk ==
  /\ pc = "end_hunk"
  /\ insignificant' = InsignificantAfter
  /\ pc' = "next_hunk"
  /\ UNCHANGED <<chapterVars, matchVars, prevfunc, mods, HI, fi, s, instmap>>

-----------------------------------------------------------------------------
(* Matcher::matchFunction *)

\* The iterator is at a subprogram of the chapter's file, the scope not empty.
AtTarget == I \in DOMAIN sps /\ sps[I].mine /\ scope.begin <= scope.end

\* NULL is returned: the scope is empty, the subprograms are used up, those of
\* another file begin, or the scope ends before the next subprogram.
MatchNothing ==
  /\ pc = "match"
  /\ \/ ~AtTarget
     \/ AtTarget /\ last[I] # 0 /\ ~Passed(I) /\ Before(I)
  /\ func' = 0
  /\ pc' = "end_hunk"
  /\ UNCHANGED <<chapterVars, last, I, scope, multiple, modVars>>

\* The last subprogram is returned at once when its last line is unknown.
MatchUnknown ==
  /\ pc = "match"
  /\ AtTarget /\ last[I] = 0 /\ I = Len(sps)
  /\ func' = IF sps[I].fn THEN I ELSE 0
  /\ pc' = IF sps[I].fn THEN "skip_mods" ELSE "end_hunk"
  /\ UNCHANGED <<chapterVars, last, I, scope, multiple, modVars>>

\* An unknown last line is inferred, and stays known to later calls.
InferLastLine ==
  /\ pc = "match"
  /\ AtTarget /\ last[I] = 0 /\ I < Len(sps)
  /\ last' = [last EXCEPT ![I] = InferredLast(I)]
  /\ pc' = IF InferredLast(I) < sps[I].line THEN "assert" ELSE "match"
  /\ UNCHANGED <<chapterVars, I, scope, multiple, func, modVars>>

PassFunction ==
  /\ pc = "match"
  /\ AtTarget /\ last[I] # 0 /\ Passed(I)
  /\ I' = I + 1
  /\ UNCHANGED <<chapterVars, pc, last, scope, multiple, func, modVars>>

\* Cases (2) to (5).  multiple is raised in cases (4) and (5), and then
\* lowered in all.
MatchHit ==
  /\ pc = "match"
  /\ AtTarget /\ last[I] # 0 /\ ~Passed(I) /\ ~Before(I)
  /\ scope' = IF last[I] < scope.end THEN [scope EXCEPT !.begin = last[I] + 1] ELSE scope
  /\ multiple' = FALSE
  /\ func' = IF sps[I].fn THEN I ELSE 0
  /\ pc' = IF sps[I].fn THEN "skip_mods" ELSE "end_hunk"
  /\ I' = IterAfterMatch
  /\ UNCHANGED <<chapterVars, last, modVars>>

-----------------------------------------------------------------------------
(* analyze: the Mods of the hunk against the function matched *)

SkipMod ==
  /\ pc = "skip_mods"
  /\ HI <= Len(mods) /\ ModSkipped(mods[HI])
  /\ HI' = HI + 1
  /\ UNCHANGED <<chapterVars, pc, matchVars, prevfunc, mods, fi, s, insignificant, instmap>>

\* The break leaves prevfunc as it was.
NoModLeft ==
  /\ pc = "skip_mods"
  /\ HI > Len(mods)
  /\ pc' = "end_hunk"
  /\ UNCHANGED <<chapterVars, matchVars, modVars>>

EnterFunction ==
  /\ pc = "skip_mods"
  /\ HI <= Len(mods) /\ ~ModSkipped(mods[HI])
  /\ s' = 1
  /\ fi' = FiOnEntry
  /\ pc' = "next_mod"
  /\ UNCHANGED <<chapterVars, matchVars, prevfunc, mods, HI, insignificant, instmap>>

ModReaches == HI <= Len(mods) /\ mods[HI].begin <= last[func]

PassDel ==
  /\ pc = "next_mod"
  /\ ModReaches /\ mods[HI].type = "DEL"
  /\ HI' = HiAfterDel
  /\ UNCHANGED <<chapterVars, pc, matchVars, prevfunc, mods, fi, s, insignificant, instmap>>

\* The Mod's rep_scope is cut down to the function, in place.
ClampMod ==
  /\ pc = "next_mod"
  /\ ModReaches /\ mods[HI].type # "DEL"
  /\ LET m == mods[HI]
         b == IF m.begin < sps[func].line THEN sps[func].line ELSE m.begin
         e == IF m.end > last[func] THEN last[func] ELSE m.end
     IN mods' = [mods EXCEPT ![HI] = [@ EXCEPT !.begin = b, !.end = e]]
  /\ pc' = "match_inst"
  /\ UNCHANGED <<chapterVars, matchVars, prevfunc, HI, fi, s, insignificant, instmap>>

LeaveFunction ==
  /\ pc = "next_mod"
  /\ ~ModReaches
  /\ prevfunc' = func
  /\ pc' = IF multiple THEN "match" ELSE "end_hunk"
  /\ UNCHANGED <<chapterVars, matchVars, mods, HI, fi, s, insignificant, instmap>>

-----------------------------------------------------------------------------
(* Matcher::matchInstruction, called until it returns NULL *)

InstLine == sps[func].insts[fi]
InstLeft == mods[HI].begin <= mods[HI].end /\ fi <= Len(sps[func].insts)

PassInst ==
  /\ pc = "match_inst"
  /\ InstLeft /\ (InstLine = 0 \/ InstLine < mods[HI].begin)
  /\ fi' = fi + 1
  /\ UNCHANGED <<chapterVars, pc, matchVars, prevfunc, mods, HI, s, insignificant, instmap>>

\* The instruction is returned and collected; the Mod begins at its line now.
TakeInst ==
  /\ pc = "match_inst"
  /\ InstLeft /\ InstLine # 0
  /\ \/ InstLine = mods[HI].begin
     \/ InstLine > mods[HI].begin /\ InMod(InstLine, mods[HI])
  /\ fi' = FiAfterTake
  /\ mods' = [mods EXCEPT ![HI].begin = InstLine]
  /\ instmap' = [instmap EXCEPT ![func] = Append(@, fi)]
  /\ UNCHANGED <<chapterVars, pc, matchVars, prevfunc, HI, s, insignificant>>

NoInst ==
  /\ pc = "match_inst"
  /\ \/ ~InstLeft
     \/ InstLeft /\ InstLine > mods[HI].begin /\ ~InMod(InstLine, mods[HI])
  /\ HI' = HI + 1
  /\ pc' = "next_mod"
  /\ UNCHANGED <<chapterVars, matchVars, prevfunc, mods, fi, s, insignificant, instmap>>

-----------------------------------------------------------------------------
Ended == {"done", "assert"}
Finished == pc \in Ended /\ UNCHANGED vars

Next ==
  \/ TakeHunk \/ NoMoreHunks \/ EndHunk
  \/ MatchNothing \/ MatchUnknown \/ InferLastLine \/ PassFunction \/ MatchHit
  \/ SkipMod \/ NoModLeft \/ EnterFunction
  \/ PassDel \/ ClampMod \/ LeaveFunction
  \/ PassInst \/ TakeInst \/ NoInst
  \/ Finished

\* The program is sequential: it takes its next step.
Spec == Init /\ [][Next]_vars /\ WF_vars(Next)

-----------------------------------------------------------------------------
(* Properties *)

Subprograms == DOMAIN sps

\* The shape of the state.
TypeOK ==
  /\ pc \in {"next_hunk", "match", "skip_mods", "next_mod", "match_inst", "end_hunk"} \cup Ended
  /\ last \in [Subprograms -> Nat]
  /\ I \in 1..(Len(sps) + 1)
  /\ h \in 0..Len(hunks)
  /\ scope \in [begin : Nat, end : Nat]
  /\ multiple \in BOOLEAN /\ insignificant \in BOOLEAN
  /\ func \in 0..Len(sps) /\ prevfunc \in 0..Len(sps)
  /\ mods \in Seq(ModRecords)
  /\ HI \in 1..(Len(mods) + 1)
  /\ fi \in Nat \ {0}
  /\ s \in {0, 1}
  /\ instmap \in [Subprograms -> Seq(Nat)]

\* Lines of the new file the hunk k added or replaced.
AddedLines(k) == UNION {hunks[k][n].begin..hunks[k][n].end : n \in {m \in DOMAIN hunks[k] : hunks[k][m].type # "DEL"}}

\* Only what the patch changed is analysed: every instruction collected has a
\* line that one of the hunks taken added, and its function is one of the
\* chapter's file, though Mods are cut down in place and all cursors are shared.
CollectedWasChanged ==
  \A f \in Subprograms : \A n \in DOMAIN instmap[f] :
    /\ sps[f].mine /\ sps[f].fn
    /\ \E k \in 1..h : sps[f].insts[instmap[f][n]] \in AddedLines(k)

\* No instruction is collected twice, though several hunks and several Mods may
\* fall into one function: each is collected once, in the order of the function.
CollectedOnce ==
  \A f \in Subprograms : \A m, n \in DOMAIN instmap[f] : m < n => instmap[f][m] < instmap[f][n]

(***************************************************************************)
(* What matchFunction looks for, without its cursor and its lazily         *)
(* inferred lines: the first subprogram of the file with a line beyond the *)
(* first line of the hunk, or the one-line subprogram on it, unless the    *)
(* hunk ends before it or on its first line.                               *)
(***************************************************************************)
EndOf(f) ==
  IF GetLastLine(sps[f]) # 0 \/ f = Len(sps) THEN GetLastLine(sps[f])
  ELSE IF sps[f].line = sps[f + 1].line THEN sps[f].line ELSE sps[f + 1].line - 1

HunkBegin(k) == hunks[k][1].begin
HunkEnd(k) == hunks[k][Len(hunks[k])].end
OneLine(f) == sps[f].line = EndOf(f)

Reached(f, k) == sps[f].mine /\ (EndOf(f) > HunkBegin(k) \/ (OneLine(f) /\ EndOf(f) = HunkBegin(k)))
FirstReached(f, k) == Reached(f, k) /\ \A g \in 1..(f - 1) : ~Reached(g, k)
Touched(f, k) == sps[f].line < HunkEnd(k) \/ (OneLine(f) /\ sps[f].line = HunkEnd(k))
IsTarget(f, k) == FirstReached(f, k) /\ Touched(f, k) /\ sps[f].fn

Ordered(f) ==
  LET located == {n \in DOMAIN sps[f].insts : sps[f].insts[n] # 0}
  IN \A m, n \in located : m < n => sps[f].insts[m] <= sps[f].insts[n]

Collected(f) == {instmap[f][n] : n \in DOMAIN instmap[f]}
AddedIn(f, k) == {n \in DOMAIN sps[f].insts : sps[f].insts[n] \in AddedLines(k) \cap (sps[f].line..EndOf(f))}

HunksFinished == IF pc \in {"next_hunk", "done"} THEN h ELSE h - 1

\* No change to the first function a hunk touches is lost, whatever the hunks
\* before it did to the cursors: when a hunk is finished, every instruction of
\* that function on a line the hunk added has been collected, provided the
\* instructions are laid out in line order.
FirstFunctionComplete ==
  pc # "assert" =>
    \A k \in 1..HunksFinished, f \in Subprograms :
      IsTarget(f, k) /\ Ordered(f) => AddedIn(f, k) \subseteq Collected(f)

\* "trivial" is printed only when nothing was collected from any hunk.
TrivialMeansNothing ==
  pc = "done" /\ insignificant => \A f \in Subprograms : instmap[f] = <<>>

\* The functions searched are those from the iterator on, and no function
\* behind it could still be the target of a hunk not yet taken.
NothingBehindIterator ==
  \A k \in (h + 1)..Len(hunks), f \in 1..(I - 1) : f \in Subprograms => ~IsTarget(f, k)

\* What is collected of a chapter is what its hunks changed in the functions
\* they touch first, each instruction once, no cursor has passed what a later
\* hunk still needs, and only nothing is called trivial (Matcher.cpp:400,
\* PerfScope.cpp:182).
CollectedExactly ==
  CollectedWasChanged /\ CollectedOnce /\ FirstFunctionComplete /\ NothingBehindIterator /\ TrivialMeansNothing

\* The loops over hunks, functions, Mods and instructions all end.
Terminates == <>(pc \in Ended)

(***************************************************************************)
(* What the sources say of the program, and the code does not do.          *)
(***************************************************************************)

\* The comment of matchFunction: with more than one function in the scope, the
\* caller's loop gets them all.  Every function a hunk reaches and does not
\* only meet at its first or last line has its added instructions collected.
EveryFunctionComplete ==
  pc # "assert" =>
    \A k \in 1..HunksFinished, f \in Subprograms :
      Reached(f, k) /\ Touched(f, k) /\ sps[f].fn /\ Ordered(f) => AddedIn(f, k) \subseteq Collected(f)

\* The same comment: the caller may loop until matchFunction returns NULL.  The
\* loop over the functions of a hunk ends.
CallerLoopEnds == pc = "match" ~> pc \in {"end_hunk", "assert"}
=============================================================================
