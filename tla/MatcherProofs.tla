---------------------------- MODULE MatcherProofs ----------------------------
(***************************************************************************)
(* Proofs about the two searches of class Matcher.                         *)
(*                                                                         *)
(* Of Matcher, for all sorted compile units and all chapters of ordered    *)
(* hunks: what is collected is exactly what the hunks changed in the       *)
(* functions they touch first, and each instruction once.  Of LoopSearch,  *)
(* at the end, for all loops: the loop found is the one the lines ask for. *)
(*                                                                         *)
(* The three cursors never move back, so the invariant says for each what  *)
(* lies behind it: behind I no function a hunk still to come can reach;    *)
(* behind HI Mods that are done with the function matched; and behind fi   *)
(* instructions that are collected, or that no Mod left can want.          *)
(***************************************************************************)
EXTENDS Matcher, LoopSearch, SequenceTheorems, WellFoundedInduction, TLAPS

\* Where analyze is: at a hunk, at a function of it, at a Mod in that function.
InHunk == pc \in {"match", "skip_mods", "next_mod", "match_inst", "end_hunk"}
InFunction == pc \in {"skip_mods", "next_mod", "match_inst"}
Inside == pc \in {"next_mod", "match_inst"}

\* The function the instruction iterator stands in, 0 before the first.
Entered == IF Inside THEN func ELSE prevfunc

\* A last line is the one the instructions or the next subprogram give.
LastInv ==
  \A f \in Subprograms : IF last[f] = 0 THEN GetLastLine(sps[f]) = 0 ELSE last[f] = EndOf(f)

\* The function matched is the one at the iterator, and its last line known
\* unless it is the last one; only then does the loop over functions go on.
FunctionInv ==
  InFunction =>
    /\ func = I /\ I \in Subprograms /\ sps[I].mine /\ sps[I].fn
    /\ last[I] = 0 => I = Len(sps)
    /\ multiple => last[I] = 0

\* A search begins with the whole hunk, and with its first Mod but in that loop.
SearchInv ==
  /\ InHunk => h > 0
  /\ pc = "match" \/ (InFunction /\ multiple) => scope = [begin |-> HunkBegin(h), end |-> HunkEnd(h)]
  /\ pc = "match" => HI = 1 \/ (I = Len(sps) /\ last[I] = 0)

\* The Mods not yet reached are those of the hunk.
ModsInv ==
  InHunk =>
    /\ Len(mods) = Len(hunks[h])
    /\ \A n \in HI..Len(mods) : ~(pc = "match_inst" /\ n = HI) => mods[n] = hunks[h][n]

\* The Mod being matched was cut down to the function, and begins where it
\* did or at the last instruction taken.
ClampInv ==
  pc = "match_inst" =>
    /\ HI \in 1..Len(mods)
    /\ hunks[h][HI].type # "DEL"
    /\ mods[HI].end = IF hunks[h][HI].end > last[func] THEN last[func] ELSE hunks[h][HI].end
    /\ hunks[h][HI].begin <= mods[HI].begin
    /\ \/ mods[HI].begin = hunks[h][HI].begin
       \/ mods[HI].begin = sps[func].line
       \/ /\ mods[HI].begin <= mods[HI].end
          /\ \E n \in DOMAIN sps[func].insts :
               n < fi /\ sps[func].insts[n] # 0 /\ mods[HI].begin = sps[func].insts[n]

\* The subprograms behind the iterator are reached neither by the hunk taken
\* last nor by one after it.
IteratorInv ==
  /\ h = 0 => I = 1
  /\ prevfunc <= I
  /\ \A f \in Subprograms, k \in DOMAIN hunks : f < I /\ h <= k => ~Reached(f, k)

\* The only target a hunk can have is the function matched.
TargetInv ==
  InFunction => \A f \in Subprograms, k \in DOMAIN hunks : k = h /\ IsTarget(f, k) => f = func

\* Instruction n of f no longer matters to what is left of the chapter: it is
\* collected, lies before the function, or before all Mods that are left.
Settled(f, n) ==
  \/ n \in Collected(f)
  \/ sps[f].insts[n] < sps[f].line
  \/ \A k \in DOMAIN hunks, m \in Nat :
       (k > h \/ (k = h /\ m >= HI)) /\ m \in DOMAIN hunks[k] => sps[f].insts[n] < hunks[k][m].begin

PositionInv ==
  \A f \in Subprograms : f = Entered /\ Ordered(f) =>
    \A n \in DOMAIN sps[f].insts : n < fi => Settled(f, n)

\* A Mod wants the instructions on its lines of the function; those before HI
\* are done with the function matched.
Wants(f, k, m, n) ==
  /\ hunks[k][m].type # "DEL"
  /\ sps[f].insts[n] \in (hunks[k][m].begin..hunks[k][m].end) \cap (sps[f].line..EndOf(f))

DoneInv ==
  InFunction =>
    \A f \in Subprograms, k \in DOMAIN hunks : f = func /\ k = h /\ Ordered(f) =>
      \A m \in DOMAIN hunks[k], n \in DOMAIN sps[f].insts :
        m < HI /\ Wants(f, k, m, n) => n \in Collected(f)

HunksMatched == IF pc \in {"next_hunk", "end_hunk", "done"} THEN h ELSE h - 1

CompleteInv ==
  \A k \in 1..HunksMatched, f \in Subprograms :
    IsTarget(f, k) /\ Ordered(f) => AddedIn(f, k) \subseteq Collected(f)

\* Nothing is collected of a function not yet entered, nor beyond the iterator.
CursorInv ==
  /\ \A f \in Subprograms : f > Entered => instmap[f] = <<>>
  /\ \A f \in Subprograms : \A n \in DOMAIN instmap[f] :
       instmap[f][n] \in DOMAIN sps[f].insts /\ (f = Entered => instmap[f][n] < fi)

TrivialInv ==
  /\ Inside => s = 1
  /\ insignificant /\ (s = 0 \/ pc \in {"next_hunk", "done"}) => \A f \in Subprograms : instmap[f] = <<>>

IInv ==
  /\ sps \in Units /\ hunks \in Chapters
  /\ TypeOK
  /\ LastInv /\ FunctionInv /\ SearchInv /\ ModsInv /\ ClampInv
  /\ IteratorInv /\ TargetInv
  /\ PositionInv /\ DoneInv /\ CompleteInv
  /\ CursorInv /\ CollectedWasChanged /\ CollectedOnce /\ TrivialInv

-----------------------------------------------------------------------------
(* The unit and the chapter *)

LEMMA UnitShape ==
  ASSUME sps \in Units
  PROVE  /\ sps \in Seq(SubprogramRecords) /\ Len(sps) \in Nat /\ Len(sps) > 0
         /\ Subprograms = 1..Len(sps)
         /\ \A f \in Subprograms :
              /\ sps[f].line \in Nat \ {0} /\ sps[f].insts \in Seq(Nat)
              /\ sps[f].mine \in BOOLEAN /\ sps[f].fn \in BOOLEAN
              /\ \A g \in Subprograms :
                   f < g /\ sps[g].mine => sps[f].mine /\ sps[f].line <= sps[g].line
         /\ sps[1].mine
<1>1. sps \in Seq(SubprogramRecords) /\ sps # <<>> /\ sps[1].mine
  BY UnitsAssumption
<1>2. \A f, g \in DOMAIN sps : f < g /\ sps[g].mine => sps[f].mine /\ sps[f].line <= sps[g].line
  BY UnitsAssumption
<1>3. Len(sps) \in Nat /\ Len(sps) > 0 /\ Subprograms = 1..Len(sps)
  BY <1>1 DEF Subprograms
<1>4. \A f \in Subprograms : sps[f] \in SubprogramRecords
  BY <1>1, <1>3
<1> QED
  BY <1>1, <1>2, <1>3, <1>4 DEF SubprogramRecords, Subprograms

LEMMA HunkShape ==
  ASSUME hunks \in Chapters
  PROVE  /\ hunks \in Seq(Seq(ModRecords)) /\ Len(hunks) \in Nat /\ DOMAIN hunks = 1..Len(hunks)
         /\ \A k \in DOMAIN hunks :
              /\ hunks[k] \in Seq(ModRecords)
              /\ Len(hunks[k]) \in Nat /\ Len(hunks[k]) > 0
              /\ DOMAIN hunks[k] = 1..Len(hunks[k])
              /\ \A m \in DOMAIN hunks[k] :
                   /\ hunks[k][m] \in ModRecords
                   /\ hunks[k][m].begin \in Nat /\ hunks[k][m].end \in Nat
                   /\ hunks[k][m].begin <= hunks[k][m].end
                   /\ \A n \in DOMAIN hunks[k] : m < n => Follows(hunks[k][m], hunks[k][n])
<1>1. hunks \in Seq(Seq(ModRecords)) /\ \A k \in DOMAIN hunks : IsHunk(hunks[k])
  BY ChaptersAssumption
<1>2. ASSUME NEW k \in DOMAIN hunks
      PROVE  /\ hunks[k] \in Seq(ModRecords)
             /\ Len(hunks[k]) \in Nat /\ Len(hunks[k]) > 0
             /\ DOMAIN hunks[k] = 1..Len(hunks[k])
             /\ \A m \in DOMAIN hunks[k] : hunks[k][m] \in ModRecords
             /\ \A m \in DOMAIN hunks[k] : hunks[k][m].begin <= hunks[k][m].end
             /\ \A m, n \in DOMAIN hunks[k] : m < n => Follows(hunks[k][m], hunks[k][n])
  <2>1. hunks[k] \in Seq(ModRecords) /\ hunks[k] # <<>>
    BY <1>1 DEF IsHunk
  <2> QED
    BY <1>1, <2>1 DEF IsHunk
<1> QED
  BY <1>1, <1>2 DEF ModRecords

\* The Mods of a hunk begin in ascending order, those of the next hunks after them.
LEMMA ModsAscend ==
  ASSUME hunks \in Chapters, NEW k \in DOMAIN hunks,
         NEW m \in DOMAIN hunks[k], NEW n \in DOMAIN hunks[k], m <= n
  PROVE  hunks[k][m].begin <= hunks[k][n].begin /\ hunks[k][m].begin <= hunks[k][n].end
         /\ hunks[k][m].end <= hunks[k][n].end
<1>1. m \in Nat /\ n \in Nat
  BY HunkShape
<1>2. CASE m = n
  BY <1>2, HunkShape
<1>3. CASE m < n
  <2>1. hunks[k][m].end <= hunks[k][n].begin
    BY <1>3, HunkShape DEF Follows
  <2>2. /\ hunks[k][m].begin \in Nat /\ hunks[k][m].end \in Nat
        /\ hunks[k][n].begin \in Nat /\ hunks[k][n].end \in Nat
        /\ hunks[k][m].begin <= hunks[k][m].end /\ hunks[k][n].begin <= hunks[k][n].end
    BY HunkShape
  <2> QED
    BY <2>1, <2>2
<1> QED
  BY <1>1, <1>2, <1>3

LEMMA HunksAscend ==
  ASSUME hunks \in Chapters, NEW j \in DOMAIN hunks, NEW k \in DOMAIN hunks, j < k,
         NEW m \in DOMAIN hunks[j], NEW n \in DOMAIN hunks[k]
  PROVE  hunks[j][m].begin <= hunks[k][n].begin
<1>1. hunks[j][Len(hunks[j])].end <= hunks[k][1].begin
  BY ChaptersAssumption DEF Follows
<1>2. /\ Len(hunks[j]) \in DOMAIN hunks[j] /\ m <= Len(hunks[j])
      /\ 1 \in DOMAIN hunks[k] /\ 1 <= n
  BY HunkShape
<1>3. hunks[j][m].begin <= hunks[j][Len(hunks[j])].end
  BY <1>2, ModsAscend
<1>4. hunks[k][1].begin <= hunks[k][n].begin
  BY <1>2, ModsAscend
<1>5. /\ hunks[j][m].begin \in Nat /\ hunks[k][n].begin \in Nat /\ hunks[k][1].begin \in Nat
      /\ hunks[j][Len(hunks[j])].end \in Nat
  BY <1>2, HunkShape
<1> QED
  BY <1>1, <1>3, <1>4, <1>5

\* Where a hunk begins and ends.
LEMMA HunkRange ==
  ASSUME hunks \in Chapters, NEW k \in DOMAIN hunks
  PROVE  /\ HunkBegin(k) \in Nat /\ HunkEnd(k) \in Nat /\ HunkBegin(k) <= HunkEnd(k)
         /\ \A j \in DOMAIN hunks : k <= j => HunkBegin(k) <= HunkBegin(j)
         /\ \A m \in DOMAIN hunks[k] : HunkBegin(k) <= hunks[k][m].begin
<1>1. 1 \in DOMAIN hunks[k] /\ Len(hunks[k]) \in DOMAIN hunks[k] /\ 1 <= Len(hunks[k])
      /\ \A m \in DOMAIN hunks[k] : 1 <= m
  BY HunkShape
<1>2. HunkBegin(k) \in Nat /\ HunkEnd(k) \in Nat
  BY <1>1, HunkShape DEF HunkBegin, HunkEnd
<1>3. HunkBegin(k) <= HunkEnd(k) /\ \A m \in DOMAIN hunks[k] : HunkBegin(k) <= hunks[k][m].begin
  BY <1>1, ModsAscend DEF HunkBegin, HunkEnd
<1>4. ASSUME NEW j \in DOMAIN hunks, k <= j PROVE HunkBegin(k) <= HunkBegin(j)
  <2>1. CASE k = j
    BY <1>2, <2>1
  <2>2. CASE k < j
    <3>1. 1 \in DOMAIN hunks[j]
      BY HunkShape
    <3> QED
      BY <1>1, <2>2, <3>1, HunksAscend DEF HunkBegin
  <2>3. k \in Nat /\ j \in Nat
    BY HunkShape
  <2> QED
    BY <1>4, <2>1, <2>2, <2>3
<1> QED
  BY <1>2, <1>3, <1>4

\* The last line of a subprogram is a number; that of the last subprogram
\* without one is no line.
LEMMA EndOfType ==
  ASSUME sps \in Units, NEW f \in Subprograms
  PROVE  /\ GetLastLine(sps[f]) \in Nat
         /\ EndOf(f) \in Nat
         /\ f = Len(sps) => EndOf(f) = GetLastLine(sps[f])
         /\ GetLastLine(sps[f]) # 0 => EndOf(f) = GetLastLine(sps[f])
         /\ GetLastLine(sps[f]) = 0 /\ f # Len(sps) => EndOf(f) = InferredLast(f)
         /\ f # Len(sps) => InferredLast(f) \in Nat
<1>1. sps[f].insts \in Seq(Nat) /\ f \in 1..Len(sps) /\ Len(sps) \in Nat
  BY UnitShape
<1>2. GetLastLine(sps[f]) \in Nat
  BY <1>1 DEF GetLastLine
<1>3. f # Len(sps) => f + 1 \in Subprograms
  BY <1>1, UnitShape
<1>4. f # Len(sps) => sps[f].line \in Nat /\ sps[f + 1].line \in Nat \ {0}
  BY <1>3, UnitShape
<1>5. f # Len(sps) => InferredLast(f) \in Nat
  BY <1>4 DEF InferredLast
<1> QED
  BY <1>1, <1>2, <1>4, <1>5 DEF EndOf, InferredLast

\* What a hunk does not reach none after it does.
LEMMA ReachedNoLonger ==
  ASSUME sps \in Units, hunks \in Chapters, NEW f \in Subprograms,
         NEW j \in DOMAIN hunks, NEW k \in DOMAIN hunks, j <= k, ~Reached(f, j)
  PROVE  ~Reached(f, k)
<1>1. HunkBegin(j) \in Nat /\ HunkBegin(k) \in Nat /\ HunkBegin(j) <= HunkBegin(k)
  BY HunkRange
<1>2. EndOf(f) \in Nat
  BY EndOfType
<1> QED
  BY <1>1, <1>2 DEF Reached

-----------------------------------------------------------------------------
(* What a step leaves alone *)

LEMMA Changes ==
  ASSUME [Next]_vars
  PROVE  /\ sps' = sps /\ hunks' = hunks
         /\ last' = last \/ InferLastLine
         /\ h' = h \/ TakeHunk
         /\ I' = I \/ PassFunction
         /\ prevfunc' = prevfunc \/ LeaveFunction
         /\ instmap' = instmap \/ TakeInst
         /\ fi' = fi \/ EnterFunction \/ PassInst \/ TakeInst
         /\ HI' = HI \/ TakeHunk \/ SkipMod \/ PassDel \/ NoInst
         /\ mods' = mods \/ TakeHunk \/ ClampMod \/ TakeInst
         /\ insignificant' = insignificant \/ EndHunk
         /\ s' = s \/ TakeHunk \/ EnterFunction
<1>1. TakeHunk => UNCHANGED <<sps, hunks, last, I, prevfunc, instmap, fi, insignificant>>
  BY DEF TakeHunk
<1>2. NoMoreHunks => UNCHANGED <<sps, hunks, last, h, I, prevfunc, instmap, fi, HI, mods, insignificant, s>>
  BY DEF NoMoreHunks, chapterVars, matchVars, modVars
<1>3. EndHunk => UNCHANGED <<sps, hunks, last, h, I, prevfunc, instmap, fi, HI, mods, s>>
  BY DEF EndHunk, chapterVars, matchVars
<1>4. MatchNothing => UNCHANGED <<sps, hunks, last, h, I, prevfunc, instmap, fi, HI, mods, insignificant, s>>
  BY DEF MatchNothing, chapterVars, modVars
<1>5. MatchUnknown => UNCHANGED <<sps, hunks, last, h, I, prevfunc, instmap, fi, HI, mods, insignificant, s>>
  BY DEF MatchUnknown, chapterVars, modVars
<1>6. InferLastLine => UNCHANGED <<sps, hunks, h, I, prevfunc, instmap, fi, HI, mods, insignificant, s>>
  BY DEF InferLastLine, chapterVars, modVars
<1>7. PassFunction => UNCHANGED <<sps, hunks, last, h, prevfunc, instmap, fi, HI, mods, insignificant, s>>
  BY DEF PassFunction, chapterVars, modVars
<1>8. MatchHit => UNCHANGED <<sps, hunks, last, h, I, prevfunc, instmap, fi, HI, mods, insignificant, s>>
  BY DEF MatchHit, IterAfterMatch, chapterVars, modVars
<1>9. SkipMod => UNCHANGED <<sps, hunks, last, h, I, prevfunc, instmap, fi, mods, insignificant, s>>
  BY DEF SkipMod, chapterVars, matchVars
<1>10. NoModLeft => UNCHANGED <<sps, hunks, last, h, I, prevfunc, instmap, fi, HI, mods, insignificant, s>>
  BY DEF NoModLeft, chapterVars, matchVars, modVars
<1>11. EnterFunction => UNCHANGED <<sps, hunks, last, h, I, prevfunc, instmap, HI, mods, insignificant>>
  BY DEF EnterFunction, chapterVars, matchVars
<1>12. PassDel => UNCHANGED <<sps, hunks, last, h, I, prevfunc, instmap, fi, mods, insignificant, s>>
  BY DEF PassDel, chapterVars, matchVars
<1>13. ClampMod => UNCHANGED <<sps, hunks, last, h, I, prevfunc, instmap, fi, HI, insignificant, s>>
  BY DEF ClampMod, chapterVars, matchVars
<1>14. LeaveFunction => UNCHANGED <<sps, hunks, last, h, I, instmap, fi, HI, mods, insignificant, s>>
  BY DEF LeaveFunction, chapterVars, matchVars
<1>15. PassInst => UNCHANGED <<sps, hunks, last, h, I, prevfunc, instmap, HI, mods, insignificant, s>>
  BY DEF PassInst, chapterVars, matchVars
<1>16. TakeInst => UNCHANGED <<sps, hunks, last, h, I, prevfunc, HI, insignificant, s>>
  BY DEF TakeInst, chapterVars, matchVars
<1>17. NoInst => UNCHANGED <<sps, hunks, last, h, I, prevfunc, instmap, fi, mods, insignificant, s>>
  BY DEF NoInst, chapterVars, matchVars
<1>18. UNCHANGED vars => UNCHANGED <<sps, hunks, last, h, I, prevfunc, instmap, fi, HI, mods, insignificant, s>>
  BY DEF vars
<1> QED
  BY ONLY [Next]_vars, <1>1, <1>2, <1>3, <1>4, <1>5, <1>6, <1>7, <1>8, <1>9, <1>10, <1>11, <1>12, <1>13, <1>14, <1>15, <1>16, <1>17, <1>18 DEF Next, Finished

\* Where analyze goes, and what it keeps there.
LEMMA Moves ==
  ASSUME [Next]_vars
  PROVE  \/ pc' = pc /\ UNCHANGED <<scope, multiple, func>>
         \/ TakeHunk \/ NoMoreHunks \/ EndHunk
         \/ MatchNothing \/ MatchUnknown \/ InferLastLine \/ MatchHit
         \/ NoModLeft \/ EnterFunction \/ ClampMod \/ LeaveFunction \/ NoInst
  BY DEF Next, PassFunction, SkipMod, PassDel, PassInst, TakeInst, Finished, vars, chapterVars, matchVars, modVars

\* The hunk that is matched, and the function.
LEMMA AtHunk ==
  ASSUME IInv, InHunk
  PROVE  /\ h \in DOMAIN hunks /\ h \in Nat /\ h > 0
         /\ Len(mods) = Len(hunks[h]) /\ Len(mods) \in Nat
         /\ DOMAIN hunks[h] = 1..Len(mods) /\ DOMAIN mods = 1..Len(mods)
<1>1. h \in DOMAIN hunks /\ h \in Nat /\ h > 0
  BY HunkShape DEF IInv, TypeOK, SearchInv
<1> QED
  BY <1>1, HunkShape DEF IInv, ModsInv, TypeOK

LEMMA AtFunction ==
  ASSUME IInv, InFunction
  PROVE  /\ InHunk
         /\ func = I /\ func \in Subprograms /\ func \in Nat \ {0}
         /\ sps[func].mine /\ sps[func].fn
         /\ sps[func].line \in Nat \ {0} /\ sps[func].insts \in Seq(Nat)
         /\ last[func] \in Nat /\ last[func] = EndOf(func)
<1>1. /\ func = I /\ func \in Subprograms /\ sps[func].mine /\ sps[func].fn
      /\ last[func] = 0 => func = Len(sps)
  BY DEF IInv, FunctionInv
<1>2. InHunk
  BY DEF InHunk, InFunction
<1>3. last[func] \in Nat
  BY <1>1 DEF IInv, TypeOK
<1>4. last[func] = EndOf(func)
  BY <1>1, EndOfType DEF IInv, LastInv
<1>5. sps[func].line \in Nat \ {0} /\ sps[func].insts \in Seq(Nat) /\ func \in Nat \ {0}
  BY <1>1, UnitShape DEF IInv
<1> QED
  BY <1>1, <1>2, <1>3, <1>4, <1>5

-----------------------------------------------------------------------------
(* The types *)

LEMMA TypeHolds == ASSUME IInv, [Next]_vars PROVE TypeOK'
<1>1. TypeOK /\ Subprograms' = Subprograms /\ Len(sps) \in Nat /\ Subprograms = 1..Len(sps)
      /\ sps' = sps /\ hunks' = hunks /\ Len(hunks) \in Nat /\ DOMAIN hunks = 1..Len(hunks)
  BY Changes, UnitShape, HunkShape DEF IInv, Subprograms
<1>2. /\ pc' \in {"next_hunk", "match", "skip_mods", "next_mod", "match_inst", "end_hunk"} \cup Ended
      /\ multiple' \in BOOLEAN /\ insignificant' \in BOOLEAN /\ s' \in {0, 1}
  <2>1. pc' \in {"next_hunk", "match", "skip_mods", "next_mod", "match_inst", "end_hunk"} \cup Ended
    BY <1>1, Moves DEF TypeOK, Ended, TakeHunk, NoMoreHunks, EndHunk, MatchNothing, MatchUnknown, InferLastLine,
       MatchHit, NoModLeft, EnterFunction, ClampMod, LeaveFunction, NoInst
  <2>2. multiple' \in BOOLEAN
    BY <1>1, Moves DEF TypeOK, TakeHunk, NoMoreHunks, EndHunk, MatchNothing, MatchUnknown, InferLastLine,
       MatchHit, NoModLeft, EnterFunction, ClampMod, LeaveFunction, NoInst, matchVars
  <2>3. insignificant' \in BOOLEAN
    BY <1>1, Changes, Zenon DEF TypeOK, EndHunk, InsignificantAfter
  <2>4. s' \in {0, 1}
    BY <1>1, Changes DEF TypeOK, TakeHunk, EnterFunction
  <2> QED
    BY <2>1, <2>2, <2>3, <2>4
<1>3. last' \in [Subprograms -> Nat]
  <2>1. ASSUME InferLastLine PROVE last' \in [Subprograms -> Nat]
    <3>1. I \in Subprograms /\ InferredLast(I) \in Nat
      BY <2>1, EndOfType DEF InferLastLine, AtTarget, IInv, Subprograms
    <3> QED
      BY <1>1, <2>1, <3>1 DEF InferLastLine, TypeOK
  <2> QED
    BY <1>1, <2>1, Changes DEF TypeOK
<1>4. I' \in 1..(Len(sps) + 1)
  <2>1. PassFunction => I \in 1..Len(sps) /\ I' = I + 1
    BY <1>1 DEF PassFunction, AtTarget, Subprograms
  <2> QED
    BY <1>1, <2>1, Changes DEF TypeOK
<1>5. h' \in 0..Len(hunks) /\ (TakeHunk => h + 1 \in DOMAIN hunks)
  <2>1. h \in 0..Len(hunks) /\ (TakeHunk => h < Len(hunks) /\ h' = h + 1)
    BY <1>1 DEF TypeOK, TakeHunk
  <2> QED
    BY <1>1, <2>1, Changes
<1>6. scope' \in [begin : Nat, end : Nat]
  <2>1. ASSUME TakeHunk PROVE scope' \in [begin : Nat, end : Nat]
    <3>1. HunkBegin(h + 1) \in Nat /\ HunkEnd(h + 1) \in Nat
      BY <1>5, <2>1, HunkRange DEF IInv
    <3> QED
      BY <2>1, <3>1 DEF TakeHunk, HunkBegin, HunkEnd
  <2>2. ASSUME MatchHit PROVE scope' \in [begin : Nat, end : Nat]
    <3>1. last[I] \in Nat /\ scope \in [begin : Nat, end : Nat]
      BY <1>1, <2>2 DEF MatchHit, AtTarget, TypeOK, Subprograms
    <3>2. scope' \in {scope, [scope EXCEPT !.begin = last[I] + 1]}
      BY <2>2 DEF MatchHit
    <3> QED
      BY <3>1, <3>2
  <2> QED
    BY <1>1, <2>1, <2>2, Moves DEF TypeOK, NoMoreHunks, EndHunk, MatchNothing, MatchUnknown, InferLastLine,
       NoModLeft, EnterFunction, ClampMod, LeaveFunction, NoInst, matchVars
<1>7. func' \in 0..Len(sps) /\ prevfunc' \in 0..Len(sps)
  <2>1. func' \in 0..Len(sps)
    <3>1. MatchUnknown \/ MatchHit => I \in 1..Len(sps) /\ func' \in {0, I}
      BY <1>1 DEF MatchUnknown, MatchHit, AtTarget, Subprograms
    <3>2. MatchUnknown \/ MatchHit \/ func' \in {0, func}
      BY Moves DEF TakeHunk, NoMoreHunks, EndHunk, MatchNothing, InferLastLine,
         NoModLeft, EnterFunction, ClampMod, LeaveFunction, NoInst, matchVars
    <3> QED
      BY <1>1, <3>1, <3>2 DEF TypeOK
  <2>2. prevfunc' \in 0..Len(sps)
    BY <1>1, Changes DEF TypeOK, LeaveFunction
  <2> QED
    BY <2>1, <2>2
<1>8. mods' \in Seq(ModRecords) /\ (Len(mods') = Len(mods) \/ TakeHunk)
  <2>1. ASSUME TakeHunk PROVE mods' \in Seq(ModRecords)
    BY <1>5, <2>1, HunkShape DEF TakeHunk, IInv
  <2>2. ASSUME ClampMod PROVE mods' \in Seq(ModRecords) /\ Len(mods') = Len(mods)
    <3>1. InFunction
      BY <2>2 DEF ClampMod, InFunction
    <3>2. HI \in DOMAIN mods /\ mods \in Seq(ModRecords) /\ mods[HI] \in ModRecords
      BY <1>1, <2>2 DEF TypeOK, ClampMod, ModReaches
    <3>3. PICK b \in Nat, e \in Nat : mods' = [mods EXCEPT ![HI] = [@ EXCEPT !.begin = b, !.end = e]]
      BY <2>2, <3>1, <3>2, AtFunction DEF ClampMod, ModRecords
    <3>4. [mods[HI] EXCEPT !.begin = b, !.end = e] \in ModRecords
      BY <3>2 DEF ModRecords
    <3> QED
      BY <3>2, <3>3, <3>4
  <2>3. ASSUME TakeInst PROVE mods' \in Seq(ModRecords) /\ Len(mods') = Len(mods)
    <3>1. InFunction /\ pc = "match_inst"
      BY <2>3 DEF TakeInst, InFunction
    <3>2. HI \in DOMAIN mods /\ mods \in Seq(ModRecords) /\ mods[HI] \in ModRecords
      BY <1>1, <3>1 DEF TypeOK, IInv, ClampInv
    <3>3. InstLine \in Nat
      <4>1. sps[func].insts \in Seq(Nat)
        BY <3>1, AtFunction
      <4>2. fi \in Nat \ {0} /\ fi <= Len(sps[func].insts)
        BY <1>1, <2>3 DEF TakeInst, InstLeft, TypeOK
      <4> QED
        BY <4>1, <4>2 DEF InstLine
    <3>4. mods' = [mods EXCEPT ![HI] = [mods[HI] EXCEPT !.begin = InstLine]]
      BY <2>3, <3>2 DEF TakeInst
    <3>5. [mods[HI] EXCEPT !.begin = InstLine] \in ModRecords
      BY <3>2, <3>3 DEF ModRecords
    <3> QED
      BY <3>2, <3>4, <3>5
  <2> QED
    BY <1>1, <2>1, <2>2, <2>3, Changes DEF TypeOK
<1>9. HI' \in 1..(Len(mods') + 1)
  <2>1. HI \in 1..(Len(mods) + 1) /\ Len(mods) \in Nat
    BY <1>1 DEF TypeOK
  <2>2. CASE TakeHunk
    BY <1>8, <2>2 DEF TakeHunk
  <2>3. CASE ~TakeHunk
    <3>1. pc = "match_inst" => HI \in 1..Len(mods)
      BY DEF IInv, ClampInv
    <3>2. HI' = HI \/ (HI' = HI + 1 /\ HI <= Len(mods))
      BY <2>1, <2>3, <3>1, Changes DEF SkipMod, PassDel, ModReaches, HiAfterDel, NoInst
    <3> QED
      BY <1>8, <2>1, <2>3, <3>2
  <2> QED
    BY <2>2, <2>3
<1>10. fi' \in Nat \ {0}
  <2>1. fi' \in {1, fi, fi + 1}
    BY Changes DEF EnterFunction, FiOnEntry, PassInst, TakeInst, FiAfterTake
  <2> QED
    BY <1>1, <2>1 DEF TypeOK
<1>11. instmap' \in [Subprograms -> Seq(Nat)]
  <2>1. ASSUME TakeInst PROVE instmap' \in [Subprograms -> Seq(Nat)]
    <3>1. func \in Subprograms /\ instmap[func] \in Seq(Nat) /\ fi \in Nat
      BY <1>1, <2>1, AtFunction DEF TypeOK, TakeInst, InFunction
    <3>2. Append(instmap[func], fi) \in Seq(Nat)
      BY <3>1
    <3> QED
      BY <1>1, <2>1, <3>1, <3>2 DEF TakeInst, TypeOK
  <2> QED
    BY <1>1, <2>1, Changes DEF TypeOK
<1> QED
  BY <1>1, <1>2, <1>3, <1>4, <1>5, <1>6, <1>7, <1>8, <1>9, <1>10, <1>11 DEF TypeOK

-----------------------------------------------------------------------------
(* The last lines, the function matched, the scope and the Mods *)

LEMMA LastHolds == ASSUME IInv, [Next]_vars PROVE LastInv'
<1>1. SUFFICES \A f \in Subprograms : IF last'[f] = 0 THEN GetLastLine(sps[f]) = 0 ELSE last'[f] = EndOf(f)
  BY Changes DEF LastInv, Subprograms, EndOf, GetLastLine
<1>2. \A f \in Subprograms : IF last[f] = 0 THEN GetLastLine(sps[f]) = 0 ELSE last[f] = EndOf(f)
  BY DEF IInv, LastInv
<1>3. CASE InferLastLine
  <2>1. /\ I \in Subprograms /\ I # Len(sps) /\ last[I] = 0
        /\ last' = [last EXCEPT ![I] = InferredLast(I)] /\ last \in [Subprograms -> Nat]
    <3>1. I \in DOMAIN sps /\ I < Len(sps) /\ last[I] = 0 /\ last' = [last EXCEPT ![I] = InferredLast(I)]
      BY <1>3 DEF InferLastLine, AtTarget
    <3>2. last \in [Subprograms -> Nat] /\ Len(sps) \in Nat
      BY UnitShape DEF IInv, TypeOK
    <3> QED
      BY <3>1, <3>2 DEF Subprograms
  <2>2. GetLastLine(sps[I]) = 0 /\ EndOf(I) = InferredLast(I)
    BY <1>2, <2>1, EndOfType DEF IInv
  <2> QED
    BY <1>2, <2>1, <2>2
<1> QED
  BY <1>2, <1>3, Changes

LEMMA FunctionHolds == ASSUME IInv, [Next]_vars PROVE FunctionInv'
<1>1. sps' = sps /\ Subprograms' = Subprograms
  BY Changes DEF Subprograms
<1>2. CASE InFunction /\ UNCHANGED <<func, multiple>>
  <2>1. pc # "match"
    BY <1>2 DEF InFunction
  <2>2. I' = I /\ last' = last
    BY <2>1, Changes DEF PassFunction, InferLastLine
  <2> QED
    BY <1>1, <1>2, <2>2 DEF IInv, FunctionInv
<1>3. CASE MatchUnknown
  BY <1>1, <1>3 DEF MatchUnknown, AtTarget, FunctionInv, InFunction, Subprograms
<1>4. CASE MatchHit
  BY <1>1, <1>4 DEF MatchHit, AtTarget, FunctionInv, InFunction, Subprograms, IterAfterMatch
<1>5. CASE ~InFunction'
  BY <1>5 DEF FunctionInv
<1>6. \/ InFunction /\ UNCHANGED <<func, multiple>>
      \/ MatchUnknown \/ MatchHit \/ ~InFunction'
  BY Moves DEF InFunction, TakeHunk, NoMoreHunks, EndHunk, MatchNothing, InferLastLine, NoModLeft,
     EnterFunction, ClampMod, LeaveFunction, NoInst, matchVars
<1> QED
  BY <1>2, <1>3, <1>4, <1>5, <1>6

LEMMA SearchHolds == ASSUME IInv, [Next]_vars PROVE SearchInv'
<1>1. SearchInv /\ h \in Nat
  BY DEF IInv, TypeOK
<1>2. InHunk' => h' > 0
  <2>1. CASE TakeHunk
    BY <1>1, <2>1 DEF TakeHunk
  <2>2. CASE ~TakeHunk
    <3>1. InHunk' => InHunk
      BY <2>2, Moves DEF InHunk, NoMoreHunks, EndHunk, MatchNothing, MatchUnknown, InferLastLine, MatchHit,
         NoModLeft, EnterFunction, ClampMod, LeaveFunction, NoInst
    <3> QED
      BY <1>1, <2>2, <3>1, Changes DEF SearchInv
  <2> QED
    BY <2>1, <2>2
<1>3. ASSUME pc' = "match" \/ (InFunction' /\ multiple')
      PROVE  scope' = [begin |-> HunkBegin(h'), end |-> HunkEnd(h')]
  <2>1. CASE TakeHunk
    BY <2>1 DEF TakeHunk, HunkBegin, HunkEnd
  <2>2. CASE ~TakeHunk
    <3>1. /\ pc = "match" \/ (InFunction /\ multiple)
          /\ scope' = scope
      BY <1>3, <2>2, Moves DEF InFunction, NoMoreHunks, EndHunk, MatchNothing, MatchUnknown, InferLastLine,
         MatchHit, NoModLeft, EnterFunction, ClampMod, LeaveFunction, NoInst, matchVars
    <3> QED
      BY <1>1, <2>2, <3>1, Changes DEF SearchInv
  <2> QED
    BY <2>1, <2>2
<1>4. ASSUME pc' = "match" PROVE HI' = 1 \/ (I' = Len(sps) /\ last'[I'] = 0)
  <2>1. CASE TakeHunk
    BY <2>1 DEF TakeHunk
  <2>2. CASE LeaveFunction
    <3>1. InFunction /\ multiple /\ UNCHANGED <<I, last>>
      BY <1>4, <2>2 DEF LeaveFunction, InFunction, matchVars
    <3> QED
      BY <3>1 DEF IInv, FunctionInv
  <2>3. CASE InferLastLine
    <3>1. I < Len(sps) /\ Len(sps) \in Nat /\ HI' = HI /\ pc = "match"
      BY <2>3, UnitShape DEF InferLastLine, modVars, IInv
    <3> QED
      BY <1>1, <3>1 DEF SearchInv
  <2>4. CASE PassFunction
    BY <1>1, <2>4 DEF PassFunction, modVars, SearchInv
  <2>5. CASE ~TakeHunk /\ ~LeaveFunction /\ ~InferLastLine /\ ~PassFunction
    <3>1. pc = "match"
      BY <1>4, <2>5, Moves DEF NoMoreHunks, EndHunk, MatchNothing, MatchUnknown, MatchHit,
         NoModLeft, EnterFunction, ClampMod, NoInst
    <3>2. UNCHANGED <<HI, I, last>>
      BY <2>5, <3>1, Changes DEF SkipMod, PassDel, NoInst
    <3> QED
      BY <1>1, <3>1, <3>2 DEF SearchInv
  <2> QED
    BY <2>1, <2>2, <2>3, <2>4, <2>5
<1> QED
  BY <1>2, <1>3, <1>4, Changes DEF SearchInv, HunkBegin, HunkEnd

LEMMA ModsHolds == ASSUME IInv, [Next]_vars PROVE ModsInv'
<1>1. hunks' = hunks
  BY Changes
<1>2. CASE TakeHunk
  <2>1. hunks[h + 1] \in Seq(ModRecords)
    <3>1. h + 1 \in DOMAIN hunks
      BY <1>2, HunkShape DEF TakeHunk, IInv, TypeOK
    <3> QED
      BY <3>1, HunkShape DEF IInv
  <2>2. mods' = hunks[h'] /\ pc' = "match"
    BY <1>2 DEF TakeHunk
  <2> QED
    BY <1>1, <2>1, <2>2 DEF ModsInv
<1>3. CASE ~TakeHunk
  <2>1. SUFFICES ASSUME InHunk'
                 PROVE  /\ Len(mods') = Len(hunks[h])
                        /\ \A n \in HI'..Len(mods') : ~(pc' = "match_inst" /\ n = HI') => mods'[n] = hunks[h][n]
    BY <1>1, <1>3, Changes DEF ModsInv
  <2>2. InHunk
    BY <1>3, <2>1, Moves DEF InHunk, NoMoreHunks, EndHunk, MatchNothing, MatchUnknown, InferLastLine, MatchHit,
         NoModLeft, EnterFunction, ClampMod, LeaveFunction, NoInst
  <2>3. /\ Len(mods) = Len(hunks[h])
        /\ \A n \in HI..Len(mods) : ~(pc = "match_inst" /\ n = HI) => mods[n] = hunks[h][n]
        /\ HI \in Nat \ {0} /\ mods \in Seq(ModRecords)
    BY <2>2 DEF IInv, ModsInv, TypeOK
  <2>4. CASE SkipMod \/ PassDel \/ NoInst
    <3>1. HI' = HI + 1 /\ mods' = mods
      BY <2>4 DEF SkipMod, PassDel, NoInst, HiAfterDel
    <3> QED
      BY <2>3, <3>1
  <2>5. CASE ClampMod \/ TakeInst
    <3>1. pc' = "match_inst" /\ HI' = HI
      BY <2>5, Changes DEF ClampMod, TakeInst
    <3>2. /\ Len(mods') = Len(mods)
          /\ \A n \in 1..Len(mods) : n # HI => mods'[n] = mods[n]
      BY <2>3, <2>5 DEF ClampMod, TakeInst
    <3> QED
      <4>1. \A n \in HI..Len(mods) : n \in 1..Len(mods)
        BY <2>3
      <4>2. \A n \in HI..Len(mods) : n # HI => mods'[n] = hunks[h][n]
        BY <2>3, <3>2, <4>1
      <4> QED
        BY <2>3, <3>1, <3>2, <4>2
  <2>6. CASE ~SkipMod /\ ~PassDel /\ ~NoInst /\ ~ClampMod /\ ~TakeInst
    <3>1. HI' = HI /\ mods' = mods
      BY <1>3, <2>6, Changes
    <3>2. pc = "match_inst" => pc' = "match_inst"
      BY <1>3, <2>6, Moves DEF NoMoreHunks, EndHunk, MatchNothing, MatchUnknown, InferLastLine, MatchHit,
         NoModLeft, EnterFunction, LeaveFunction
    <3> QED
      BY <2>3, <3>1, <3>2
  <2> QED
    BY <2>4, <2>5, <2>6
<1> QED
  BY <1>2, <1>3

LEMMA ClampHolds == ASSUME IInv, [Next]_vars PROVE ClampInv'
<1> SUFFICES ASSUME pc' = "match_inst" PROVE ClampInv'
  BY DEF ClampInv
<1>1. /\ InFunction /\ h' = h /\ func' = func /\ last' = last /\ sps' = sps /\ hunks' = hunks /\ HI' = HI
      /\ ClampMod \/ pc = "match_inst"
  <2>1. ClampMod \/ (pc = "match_inst" /\ func' = func)
    BY Moves DEF TakeHunk, NoMoreHunks, EndHunk, MatchNothing, MatchUnknown, InferLastLine, MatchHit,
       NoModLeft, EnterFunction, LeaveFunction, NoInst
  <2>2. pc \in {"next_mod", "match_inst"} /\ func' = func
    BY <2>1 DEF ClampMod, matchVars
  <2>3. UNCHANGED <<h, last, sps, hunks, HI>>
    BY <2>2, Changes DEF TakeHunk, InferLastLine, SkipMod, PassDel, NoInst
  <2> QED
    BY <2>1, <2>2, <2>3 DEF InFunction
<1>2. /\ sps[func].insts \in Seq(Nat) /\ sps[func].line \in Nat /\ last[func] \in Nat
      /\ mods \in Seq(ModRecords) /\ Len(mods) \in Nat /\ fi \in Nat \ {0}
  BY <1>1, AtFunction, SMTT(30) DEF IInv, TypeOK
<1>3. CASE ClampMod
  <2>1. HI \in 1..Len(mods) /\ mods[HI] = hunks[h][HI] /\ mods[HI] \in ModRecords
        /\ mods[HI].type # "DEL"
    BY <1>1, <1>2, <1>3 DEF ClampMod, ModReaches, IInv, ModsInv, TypeOK, InFunction, InHunk
  <2>2. mods[HI].begin \in Nat /\ mods[HI].end \in Nat
    BY <2>1 DEF ModRecords
  <2>3. /\ mods'[HI].begin = IF mods[HI].begin < sps[func].line THEN sps[func].line ELSE mods[HI].begin
        /\ mods'[HI].end = IF mods[HI].end > last[func] THEN last[func] ELSE mods[HI].end
        /\ Len(mods') = Len(mods)
    BY <1>2, <1>3, <2>1 DEF ClampMod, ModRecords
  <2> QED
    BY <1>1, <1>2, <2>1, <2>2, <2>3 DEF ClampInv
<1>4. CASE ~ClampMod
  <2>1. ClampInv /\ pc = "match_inst"
    BY <1>1, <1>4 DEF IInv
  <2>2. CASE TakeInst
    <3>1. HI \in 1..Len(mods) /\ mods[HI] \in ModRecords
      BY <1>2, <2>1 DEF ClampInv
    <3>2. fi \in DOMAIN sps[func].insts /\ InstLine = sps[func].insts[fi] /\ InstLine # 0 /\ InstLine \in Nat
      BY <1>2, <2>2 DEF TakeInst, InstLeft, InstLine
    <3>3. /\ mods'[HI].begin = InstLine /\ mods'[HI].end = mods[HI].end /\ Len(mods') = Len(mods)
          /\ mods[HI].begin <= InstLine /\ InstLine <= mods[HI].end /\ fi' = fi + 1
      <4>1. mods' = [mods EXCEPT ![HI].begin = InstLine] /\ fi' = fi + 1
        BY <2>2 DEF TakeInst, FiAfterTake
      <4>2. mods[HI].begin <= InstLine /\ InstLine <= mods[HI].end
        BY <2>2, <3>1, <3>2 DEF TakeInst, InMod, InstLeft, ModRecords
      <4> QED
        BY <1>2, <3>1, <4>1, <4>2 DEF ModRecords
    <3>4. fi < fi' /\ mods[HI].begin \in Nat /\ hunks[h][HI].begin \in Nat
      <4>1. h \in DOMAIN hunks /\ HI \in DOMAIN hunks[h]
        BY <1>1, <3>1, AtFunction, AtHunk
      <4> QED
        BY <1>2, <3>1, <3>3, <4>1, HunkShape DEF ModRecords, IInv
    <3>5. hunks[h][HI].begin <= mods'[HI].begin
      BY <2>1, <3>2, <3>3, <3>4 DEF ClampInv
    <3>6. /\ mods'[HI].begin <= mods'[HI].end
          /\ \E n \in DOMAIN sps[func].insts :
               n < fi' /\ sps[func].insts[n] # 0 /\ mods'[HI].begin = sps[func].insts[n]
      BY <3>2, <3>3, <3>4
    <3> QED
      BY <1>1, <2>1, <3>1, <3>3, <3>5, <3>6 DEF ClampInv
  <2>3. CASE ~TakeInst
    <3>1. mods' = mods /\ fi' \in Nat /\ fi <= fi'
      BY <1>2, <1>4, <2>1, <2>3, Changes DEF TakeHunk, EnterFunction, PassInst
    <3>2. \A n \in DOMAIN sps[func].insts : n < fi => n < fi'
      BY <1>2, <3>1
    <3> QED
      BY <1>1, <2>1, <3>1, <3>2 DEF ClampInv
  <2> QED
    BY <2>2, <2>3
<1> QED
  BY <1>3, <1>4

-----------------------------------------------------------------------------
(* The iterators *)

\* What the unit and the chapter alone decide.
LEMMA StaticKept ==
  ASSUME sps' = sps, hunks' = hunks
  PROVE  /\ Subprograms' = Subprograms
         /\ \A f, k : /\ Reached(f, k)' <=> Reached(f, k)
                      /\ IsTarget(f, k)' <=> IsTarget(f, k)
                      /\ AddedIn(f, k)' = AddedIn(f, k)
         /\ \A f : Ordered(f)' <=> Ordered(f)
         /\ \A k : AddedLines(k)' = AddedLines(k)
         /\ \A f, k, m, n : Wants(f, k, m, n)' <=> Wants(f, k, m, n)
<1>1. Subprograms' = Subprograms
  BY DEF Subprograms
<1>2. \A f, k : Reached(f, k)' <=> Reached(f, k)
  BY DEF Reached, EndOf, GetLastLine, OneLine, HunkBegin
<1>3. \A f, k : Touched(f, k)' <=> Touched(f, k)
  BY DEF Touched, EndOf, GetLastLine, OneLine, HunkEnd
<1>4. \A f, k : FirstReached(f, k)' <=> FirstReached(f, k)
  BY <1>2 DEF FirstReached
<1>5. \A f, k : IsTarget(f, k)' <=> IsTarget(f, k)
  BY <1>3, <1>4 DEF IsTarget
<1>6. \A k : AddedLines(k)' = AddedLines(k)
  BY DEF AddedLines
<1>7. \A f : EndOf(f)' = EndOf(f)
  BY DEF EndOf, GetLastLine
<1>8. \A f, k : AddedIn(f, k)' = AddedIn(f, k)
  BY <1>6, <1>7 DEF AddedIn
<1>9. \A f : Ordered(f)' <=> Ordered(f)
  BY DEF Ordered
<1>10. \A f, k, m, n : Wants(f, k, m, n)' <=> Wants(f, k, m, n)
  BY <1>7 DEF Wants
<1> QED
  BY <1>1, <1>2, <1>5, <1>6, <1>8, <1>9, <1>10

\* A function whose last line is known is passed when the hunk does not reach it.
LEMMA ReachedIs ==
  ASSUME IInv, pc = "match", AtTarget, last[I] # 0
  PROVE  /\ h \in DOMAIN hunks /\ I \in Subprograms
         /\ Reached(I, h) <=> ~Passed(I)
         /\ Before(I) => ~Touched(I, h)
<1>1. h \in DOMAIN hunks /\ scope = [begin |-> HunkBegin(h), end |-> HunkEnd(h)]
  BY AtHunk DEF InHunk, IInv, SearchInv
<1>2. I \in Subprograms /\ sps[I].mine /\ last[I] = EndOf(I)
  BY DEF AtTarget, IInv, LastInv, Subprograms
<1>3. HunkBegin(h) \in Nat /\ HunkEnd(h) \in Nat /\ EndOf(I) \in Nat /\ sps[I].line \in Nat
  BY <1>1, <1>2, HunkRange, EndOfType, UnitShape DEF IInv
<1> QED
  BY <1>1, <1>2, <1>3 DEF Reached, Passed, OneLine, Before, Touched

LEMMA IteratorHolds == ASSUME IInv, [Next]_vars PROVE IteratorInv'
<1>1. /\ IteratorInv /\ Len(sps) \in Nat /\ I \in Nat \ {0} /\ prevfunc \in Nat /\ h \in Nat
      /\ DOMAIN hunks = 1..Len(hunks) /\ Len(hunks) \in Nat
      /\ Subprograms = 1..Len(sps)
  BY UnitShape, HunkShape DEF IInv, TypeOK
<1>2. h' = 0 => I' = 1
  <2>1. PassFunction => h > 0
    BY DEF PassFunction, IInv, SearchInv, InHunk
  <2>2. TakeHunk => h' = h + 1
    BY DEF TakeHunk
  <2> QED
    BY <1>1, <2>1, <2>2, Changes DEF IteratorInv
<1>3. prevfunc' <= I'
  <2>1. PassFunction => I' = I + 1 /\ prevfunc' = prevfunc
    BY DEF PassFunction, modVars
  <2>2. LeaveFunction => prevfunc' = I /\ I' = I
    BY AtFunction DEF LeaveFunction, InFunction, matchVars
  <2> QED
    BY <1>1, <2>1, <2>2, Changes DEF IteratorInv
<1>4. ASSUME NEW f \in Subprograms, NEW k \in DOMAIN hunks, f < I', h' <= k
      PROVE  ~Reached(f, k)
  <2>1. h <= k
    <3>1. TakeHunk => h' = h + 1
      BY DEF TakeHunk
    <3>2. k \in Nat /\ (h' = h \/ TakeHunk)
      BY <1>1, Changes
    <3> QED
      BY <1>1, <1>4, <3>1, <3>2
  <2>2. CASE f < I
    BY <1>1, <2>1, <2>2 DEF IteratorInv
  <2>3. CASE ~(f < I)
    <3>1. PassFunction /\ f = I
      BY <1>1, <1>4, <2>3, Changes DEF PassFunction
    <3>2. h \in DOMAIN hunks /\ ~Reached(I, h)
      BY <3>1, ReachedIs DEF PassFunction
    <3> QED
      BY <2>1, <3>1, <3>2, ReachedNoLonger DEF IInv
  <2> QED
    BY <2>2, <2>3
<1> QED
  BY <1>2, <1>3, <1>4, Changes, StaticKept DEF IteratorInv

\* The targets of a hunk lie at the iterator or beyond; when the function
\* there is reached, it is the only one.
LEMMA TargetAtIterator ==
  ASSUME IInv, pc = "match", NEW f \in Subprograms, IsTarget(f, h)
  PROVE  /\ f >= I /\ AtTarget
         /\ last[I] # 0 /\ ~Passed(I) => f = I
         /\ last[I] = 0 => I # Len(sps)
<1>1. /\ h \in DOMAIN hunks /\ h \in Nat /\ Len(sps) \in Nat /\ Subprograms = 1..Len(sps) /\ I \in Nat \ {0}
      /\ scope = [begin |-> HunkBegin(h), end |-> HunkEnd(h)]
  BY AtHunk, UnitShape, SMTT(30) DEF InHunk, IInv, TypeOK, SearchInv
<1>2. f >= I
  BY <1>1 DEF IInv, IteratorInv, IsTarget, FirstReached
<1>3. sps[f].mine /\ I \in Subprograms
  BY <1>1, <1>2 DEF IsTarget, FirstReached, Reached
<1>4. sps[I].mine
  <2>1. CASE f = I
    BY <1>3, <2>1
  <2>2. CASE I < f
    BY <1>3, <2>2, UnitShape DEF IInv
  <2> QED
    BY <1>1, <1>2, <2>1, <2>2
<1>5. AtTarget
  BY <1>1, <1>3, <1>4, HunkRange DEF AtTarget, IInv, Subprograms
<1>6. ASSUME last[I] # 0, ~Passed(I) PROVE f = I
  <2>1. Reached(I, h)
    BY <1>5, <1>6, ReachedIs
  <2>2. ~(I \in 1..(f - 1))
    BY <2>1 DEF IsTarget, FirstReached
  <2> QED
    BY <1>1, <1>2, <2>2
<1>7. ASSUME last[I] = 0, I = Len(sps) PROVE FALSE
  <2>1. f = Len(sps) /\ GetLastLine(sps[f]) = 0
    BY <1>1, <1>2, <1>7 DEF IInv, LastInv
  <2>2. EndOf(f) = 0 /\ HunkBegin(h) \in Nat /\ sps[f].line \in Nat \ {0}
    BY <1>1, <2>1, EndOfType, HunkRange, UnitShape DEF IInv
  <2> QED
    BY <2>2 DEF IsTarget, FirstReached, Reached, OneLine
<1> QED
  BY <1>2, <1>5, <1>6, <1>7

LEMMA TargetHolds == ASSUME IInv, [Next]_vars PROVE TargetInv'
<1>1. SUFFICES ASSUME InFunction', NEW f \in Subprograms, NEW k \in DOMAIN hunks, k = h', IsTarget(f, k)
               PROVE  f = func'
  BY Changes, StaticKept DEF TargetInv
<1>2. CASE MatchUnknown
  <2>1. h' = h /\ pc = "match" /\ last[I] = 0 /\ I = Len(sps)
    BY <1>2 DEF MatchUnknown, chapterVars
  <2> QED
    BY <1>1, <2>1, TargetAtIterator
<1>3. CASE MatchHit
  <2>1. h' = h /\ pc = "match" /\ last[I] # 0 /\ ~Passed(I) /\ func' = I
    BY <1>1, <1>3 DEF MatchHit, chapterVars, InFunction
  <2> QED
    BY <1>1, <2>1, TargetAtIterator
<1>4. CASE ~MatchUnknown /\ ~MatchHit
  <2>1. InFunction /\ func' = func
    BY <1>1, <1>4, Moves DEF InFunction, TakeHunk, NoMoreHunks, EndHunk, MatchNothing, InferLastLine,
       NoModLeft, EnterFunction, ClampMod, LeaveFunction, NoInst, matchVars
  <2>2. h' = h
    BY <2>1, Changes DEF TakeHunk, InFunction
  <2> QED
    BY <1>1, <2>1, <2>2 DEF IInv, TargetInv
<1> QED
  BY <1>2, <1>3, <1>4

-----------------------------------------------------------------------------
(* What is collected, and what is settled *)

LEMMA CollectedGrows ==
  ASSUME IInv, [Next]_vars
  PROVE  /\ \A f \in Subprograms : Collected(f) \subseteq Collected(f)'
         /\ \A f \in Subprograms : TakeInst /\ f = func => fi \in Collected(f)'
<1>1. instmap \in [Subprograms -> Seq(Nat)]
  BY DEF IInv, TypeOK
<1>2. CASE TakeInst
  <2>1. func \in Subprograms /\ instmap' = [instmap EXCEPT ![func] = Append(instmap[func], fi)]
    BY <1>2, AtFunction DEF TakeInst, InFunction
  <2>2. instmap[func] \in Seq(Nat)
    BY <1>1, <2>1
  <2>3. /\ \A n \in DOMAIN instmap[func] : n \in DOMAIN instmap'[func] /\ instmap'[func][n] = instmap[func][n]
        /\ Len(instmap[func]) + 1 \in DOMAIN instmap'[func]
        /\ instmap'[func][Len(instmap[func]) + 1] = fi
    BY <1>1, <2>1, <2>2
  <2>4. \A f \in Subprograms : f # func => instmap'[f] = instmap[f]
    BY <1>1, <2>1
  <2>5. ASSUME NEW f \in Subprograms, f = func PROVE fi \in Collected(f)'
    BY <2>3, <2>5 DEF Collected
  <2>6. ASSUME NEW f \in Subprograms PROVE Collected(f) \subseteq Collected(f)'
    BY <2>3, <2>4 DEF Collected
  <2> QED
    BY <2>5, <2>6
<1>3. CASE ~TakeInst
  BY <1>3, Changes DEF Collected
<1> QED
  BY <1>2, <1>3

\* The Mods left become fewer.
LEMMA SettledKept ==
  ASSUME IInv, [Next]_vars, NEW f \in Subprograms, NEW n, Settled(f, n)
  PROVE  Settled(f, n)'
<1>1. /\ h \in Nat /\ HI \in Nat /\ sps' = sps /\ hunks' = hunks /\ DOMAIN hunks = 1..Len(hunks)
      /\ Len(hunks) \in Nat
  BY Changes, HunkShape DEF IInv, TypeOK
<1>2. (h' = h /\ (HI' = HI \/ HI' = HI + 1)) \/ h' = h + 1
  BY Changes DEF TakeHunk, SkipMod, PassDel, NoInst, HiAfterDel, chapterVars
<1>3. ASSUME NEW k \in DOMAIN hunks, NEW m \in Nat, k > h' \/ (k = h' /\ m >= HI')
      PROVE  k > h \/ (k = h /\ m >= HI)
  BY <1>1, <1>2, <1>3
<1>4. n \in Collected(f) => n \in Collected(f)'
  BY CollectedGrows
<1> QED
  BY <1>1, <1>3, <1>4 DEF Settled

\* What the Mods from HI on begin with.
LEMMA ModsLeft ==
  ASSUME IInv, InHunk, HI <= Len(mods),
         NEW k \in DOMAIN hunks, NEW m \in DOMAIN hunks[k], k > h \/ (k = h /\ m >= HI)
  PROVE  HI \in DOMAIN hunks[h] /\ hunks[h][HI].begin <= hunks[k][m].begin
<1>1. h \in DOMAIN hunks /\ DOMAIN hunks[h] = 1..Len(mods) /\ hunks \in Chapters
      /\ HI \in Nat \ {0} /\ Len(mods) \in Nat /\ h \in Nat
  BY AtHunk DEF IInv, TypeOK
<1>2. HI \in DOMAIN hunks[h]
  BY <1>1
<1>3. CASE k > h
  BY <1>1, <1>2, <1>3, HunksAscend
<1>4. CASE k = h /\ m >= HI
  BY <1>1, <1>2, <1>4, ModsAscend
<1> QED
  BY <1>2, <1>3, <1>4

\* An instruction matchInstruction passes matters no longer.
LEMMA PassedSettled ==
  ASSUME IInv, PassInst, Ordered(func)
  PROVE  fi \in DOMAIN sps[func].insts /\ Settled(func, fi)
<1>1. /\ InFunction /\ InHunk /\ pc = "match_inst" /\ ClampInv
      /\ fi \in Nat /\ fi > 0 /\ sps[func].insts \in Seq(Nat) /\ sps[func].line \in Nat \ {0}
      /\ HI \in 1..Len(mods) /\ mods[HI] \in ModRecords
  BY AtFunction DEF PassInst, InFunction, InHunk, IInv, TypeOK, ClampInv
<1>2. fi \in DOMAIN sps[func].insts /\ InstLine = sps[func].insts[fi] /\ InstLine \in Nat
  BY <1>1, SMTT(30) DEF PassInst, InstLeft, InstLine
<1>3. InstLine = 0 \/ InstLine < mods[HI].begin
  BY DEF PassInst
<1>4. CASE InstLine = 0
  BY <1>1, <1>2, <1>4 DEF Settled
<1>5. CASE InstLine # 0 /\ InstLine < mods[HI].begin
  <2>1. CASE mods[HI].begin = sps[func].line
    BY <1>2, <1>5, <2>1 DEF Settled
  <2>2. CASE mods[HI].begin = hunks[h][HI].begin
    <3>1. ASSUME NEW k \in DOMAIN hunks, NEW m \in DOMAIN hunks[k], k > h \/ (k = h /\ m >= HI)
          PROVE  InstLine < hunks[k][m].begin
      <4>1. HI <= Len(mods)
        BY <1>1
      <4>2. HI \in DOMAIN hunks[h] /\ hunks[h][HI].begin <= hunks[k][m].begin
        BY <1>1, <3>1, <4>1, ModsLeft
      <4>3. hunks[k][m].begin \in Nat /\ hunks[h][HI].begin \in Nat
        BY <1>1, <4>2, AtHunk, HunkShape DEF IInv
      <4> QED
        BY <1>2, <1>5, <2>2, <4>2, <4>3
    <3> QED
      BY <1>2, <3>1 DEF Settled
  <2>3. CASE \E n \in DOMAIN sps[func].insts :
               n < fi /\ sps[func].insts[n] # 0 /\ mods[HI].begin = sps[func].insts[n]
    <3>1. PICK n \in DOMAIN sps[func].insts :
               n < fi /\ sps[func].insts[n] # 0 /\ mods[HI].begin = sps[func].insts[n]
      BY <2>3
    <3>2. sps[func].insts[n] <= InstLine
      BY <1>2, <1>5, <3>1 DEF Ordered
    <3>3. sps[func].insts[n] \in Nat
      BY <1>1, <3>1
    <3> QED
      BY <1>2, <1>5, <3>1, <3>2, <3>3
  <2> QED
    BY <1>1, <2>1, <2>2, <2>3 DEF ClampInv
<1> QED
  BY <1>2, <1>3, <1>4, <1>5

LEMMA PositionHolds == ASSUME IInv, [Next]_vars PROVE PositionInv'
<1>1. SUFFICES ASSUME NEW f \in Subprograms, f = Entered', Ordered(f),
                      NEW n \in DOMAIN sps[f].insts, n < fi'
               PROVE  Settled(f, n)'
  BY Changes, StaticKept DEF PositionInv
<1>2. fi \in Nat \ {0} /\ n \in Nat /\ f # 0 /\ sps[f].insts \in Seq(Nat)
  <2>1. f \in 1..Len(sps) /\ Len(sps) \in Nat /\ sps[f].insts \in Seq(Nat)
    BY UnitShape DEF IInv
  <2>2. n \in Nat
    BY <2>1
  <2> QED
    BY <2>1, <2>2 DEF IInv, TypeOK
<1>3. CASE EnterFunction
  <2>1. Entered' = func /\ Entered = prevfunc /\ fi' = IF prevfunc # func THEN 1 ELSE fi
    BY <1>3 DEF EnterFunction, Entered, Inside, FiOnEntry, matchVars
  <2>2. f = Entered /\ n < fi
    BY <1>1, <1>2, <2>1
  <2> QED
    BY <1>1, <2>2, SettledKept DEF IInv, PositionInv
<1>4. CASE ~EnterFunction
  <2>1. Entered' = Entered
    <3>1. CASE LeaveFunction
      BY <3>1 DEF LeaveFunction, Entered, Inside
    <3>2. CASE ~LeaveFunction
      <4>1. prevfunc' = prevfunc
        BY <3>2, Changes
      <4>2. (Inside' <=> Inside) /\ (Inside => func' = func)
        BY <1>4, <3>2, Moves DEF Inside, TakeHunk, NoMoreHunks, EndHunk, MatchNothing, MatchUnknown, InferLastLine,
           MatchHit, NoModLeft, ClampMod, NoInst, matchVars
      <4> QED
        BY <4>1, <4>2 DEF Entered
    <3> QED
      BY <3>1, <3>2
  <2>2. f = Entered
    BY <1>1, <2>1
  <2>3. CASE n < fi
    BY <1>1, <2>2, <2>3, SettledKept DEF IInv, PositionInv
  <2>4. CASE ~(n < fi)
    <3>1. (PassInst \/ TakeInst) /\ n = fi
      BY <1>1, <1>2, <1>4, <2>4, Changes DEF PassInst, TakeInst, FiAfterTake
    <3>2. f = func
      BY <2>2, <3>1 DEF Entered, Inside, PassInst, TakeInst
    <3>3. CASE PassInst
      BY <1>1, <3>1, <3>2, <3>3, PassedSettled, SettledKept
    <3>4. CASE TakeInst
      <4>1. n \in Collected(f)'
        BY <3>1, <3>2, <3>4, CollectedGrows
      <4> QED
        BY <4>1 DEF Settled
    <3> QED
      BY <3>1, <3>3, <3>4
  <2> QED
    BY <2>3, <2>4
<1> QED
  BY <1>3, <1>4

-----------------------------------------------------------------------------
(* The Mods are done with the function matched *)

LEMMA AtMod ==
  ASSUME IInv, pc = "match_inst"
  PROVE  /\ InFunction /\ InHunk /\ Inside /\ ClampInv
         /\ h \in DOMAIN hunks /\ HI \in DOMAIN hunks[h] /\ HI \in Nat
         /\ mods[HI].begin \in Nat /\ mods[HI].end \in Nat
         /\ hunks[h][HI].begin \in Nat /\ hunks[h][HI].end \in Nat
         /\ fi \in Nat \ {0}
<1>1. InFunction /\ InHunk /\ Inside
  BY DEF InFunction, InHunk, Inside
<1>2. ClampInv /\ fi \in Nat \ {0} /\ mods \in Seq(ModRecords)
  BY DEF IInv, TypeOK
<1>3. HI \in 1..Len(mods)
  BY <1>2 DEF ClampInv
<1>4. h \in DOMAIN hunks /\ HI \in DOMAIN hunks[h] /\ HI \in Nat
  BY <1>1, <1>3, AtHunk
<1>5. mods[HI] \in ModRecords
  BY <1>2, <1>3
<1>6. hunks[h][HI].begin \in Nat /\ hunks[h][HI].end \in Nat
  BY <1>4, HunkShape DEF IInv
<1> QED
  BY <1>1, <1>2, <1>4, <1>5, <1>6 DEF ModRecords

\* What ends matchInstruction leaves no instruction the Mod wants.
LEMMA ModDone ==
  ASSUME IInv, NoInst, Ordered(func), NEW n \in DOMAIN sps[func].insts, Wants(func, h, HI, n)
  PROVE  n \in Collected(func)
<1>1. /\ pc = "match_inst" /\ InFunction /\ Inside /\ ClampInv
      /\ func \in Subprograms /\ sps[func].insts \in Seq(Nat) /\ sps[func].line \in Nat \ {0}
      /\ last[func] \in Nat /\ last[func] = EndOf(func)
  <2>1. pc = "match_inst"
    BY DEF NoInst
  <2> QED
    BY <2>1, AtMod, AtFunction
<1>2. h \in DOMAIN hunks /\ HI \in DOMAIN hunks[h] /\ fi \in Nat /\ fi > 0
  BY <1>1, AtMod
<1> DEFINE l == sps[func].insts[n]
           b == hunks[h][HI].begin
           e == hunks[h][HI].end
<1>3. b \in Nat /\ e \in Nat /\ l \in Nat /\ n \in Nat /\ HI \in Nat
      /\ mods[HI].begin \in Nat /\ mods[HI].end \in Nat
  <2>1. l \in Nat /\ n \in Nat
    BY <1>1
  <2> QED
    BY <1>1, <2>1, AtMod
<1>4. b <= l /\ l <= e /\ sps[func].line <= l /\ l <= last[func]
  <2>1. l \in b..e /\ l \in sps[func].line..last[func]
    BY <1>1 DEF Wants
  <2> HIDE DEF l, b, e
  <2> QED
    BY <1>1, <1>3, <2>1
<1>5. mods[HI].end = IF e > last[func] THEN last[func] ELSE e
  BY <1>1 DEF ClampInv
<1>6. l <= mods[HI].end
  BY <1>3, <1>4, <1>5
<1>7. CASE n < fi
  <2>1. Settled(func, n)
    BY <1>1, <1>7 DEF IInv, PositionInv, Entered
  <2>2. ~(l < b)
    BY <1>3, <1>4
  <2>3. ~(l < sps[func].line)
    BY <1>1, <1>3, <1>4
  <2> QED
    BY <1>2, <1>3, <2>1, <2>2, <2>3 DEF Settled
<1>8. CASE ~(n < fi)
  <2>1. fi <= Len(sps[func].insts) /\ fi \in DOMAIN sps[func].insts
    <3>1. n \in 1..Len(sps[func].insts) /\ Len(sps[func].insts) \in Nat
      BY <1>1
    <3>2. fi <= Len(sps[func].insts)
      BY <1>2, <1>3, <1>8, <3>1
    <3>3. DOMAIN sps[func].insts = 1..Len(sps[func].insts)
      BY <1>1
    <3> QED
      BY <1>2, <3>1, <3>2, <3>3
  <2>2. mods[HI].begin <= mods[HI].end
    <3>1. \/ mods[HI].begin = b \/ mods[HI].begin = sps[func].line
          \/ mods[HI].begin <= mods[HI].end
      BY <1>1 DEF ClampInv
    <3> HIDE DEF l, b, e
    <3> QED
      BY <1>1, <1>3, <1>4, <1>6, <3>1
  <2>3. InstLine > mods[HI].begin /\ ~InMod(InstLine, mods[HI])
    BY <2>1, <2>2 DEF NoInst, InstLeft
  <2>4. InstLine = sps[func].insts[fi] /\ InstLine \in Nat /\ InstLine # 0 /\ InstLine > mods[HI].end
    <3>1. InstLine = sps[func].insts[fi] /\ InstLine \in Nat
      BY <1>1, <2>1 DEF InstLine
    <3> QED
      BY <1>3, <2>3, <3>1 DEF InMod
  <2>5. InstLine <= l
    <3>1. l # 0
      BY <1>1, <1>3, <1>4
    <3>2. CASE n = fi
      BY <2>4, <3>2
    <3>3. CASE fi < n
      BY <2>1, <2>4, <3>1, <3>3 DEF Ordered
    <3> QED
      BY <1>2, <1>3, <1>8, <3>2, <3>3
  <2> HIDE DEF l
  <2> QED
    BY <1>3, <1>6, <2>4, <2>5
<1> QED
  BY <1>7, <1>8

LEMMA DoneHolds == ASSUME IInv, [Next]_vars PROVE DoneInv'
<1>1. SUFFICES ASSUME InFunction', NEW f \in Subprograms, f = func', Ordered(f),
                      NEW k \in DOMAIN hunks, k = h',
                      NEW m \in DOMAIN hunks[k], NEW n \in DOMAIN sps[f].insts, m < HI', Wants(f, k, m, n)
               PROVE  n \in Collected(f)'
  BY Changes, StaticKept DEF DoneInv
<1>2. m \in Nat \ {0} /\ HI \in Nat \ {0}
  <2>1. DOMAIN hunks[k] = 1..Len(hunks[k]) /\ Len(hunks[k]) \in Nat
    BY HunkShape DEF IInv
  <2> QED
    BY <2>1, SMTT(30) DEF IInv, TypeOK
<1>3. sps[f].line \in Nat \ {0} /\ EndOf(f) \in Nat /\ sps[f].insts[n] \in Nat
      /\ hunks[k][m].begin \in Nat /\ hunks[k][m].end \in Nat
  <2>1. sps[f].insts \in Seq(Nat) /\ sps[f].line \in Nat \ {0} /\ EndOf(f) \in Nat
    BY UnitShape, EndOfType DEF IInv
  <2>2. sps[f].insts[n] \in Nat
    BY <2>1
  <2>3. hunks[k][m].begin \in Nat /\ hunks[k][m].end \in Nat
    BY HunkShape DEF IInv
  <2> QED
    BY <2>1, <2>2, <2>3
<1>4. CASE MatchUnknown
  <2>1. f = I /\ last[I] = 0 /\ I = Len(sps)
    BY <1>1, <1>4 DEF MatchUnknown, InFunction
  <2>2. EndOf(f) = 0
    BY <2>1, EndOfType DEF IInv, LastInv
  <2> QED
    BY <1>1, <1>3, <2>2 DEF Wants
<1>5. CASE MatchHit
  <2>1. HI' = HI /\ HI = 1
    BY <1>5 DEF MatchHit, modVars, IInv, SearchInv
  <2> QED
    BY <1>1, <1>2, <2>1
<1>6. CASE ~MatchUnknown /\ ~MatchHit
  <2>1. InFunction /\ func' = func
    BY <1>1, <1>6, Moves DEF InFunction, TakeHunk, NoMoreHunks, EndHunk, MatchNothing, InferLastLine,
       NoModLeft, EnterFunction, ClampMod, LeaveFunction, NoInst, matchVars
  <2>2. h' = h /\ ~TakeHunk
    BY <2>1, Changes DEF TakeHunk, InFunction
  <2>3. f = func /\ k = h /\ InHunk
    BY <1>1, <2>1, <2>2 DEF InFunction, InHunk
  <2>4. n \in Collected(f) => n \in Collected(f)'
    BY CollectedGrows
  <2>5. CASE m < HI
    BY <1>1, <2>1, <2>3, <2>4, <2>5 DEF IInv, DoneInv
  <2>6. CASE ~(m < HI)
    <3>1. m = HI /\ (SkipMod \/ PassDel \/ NoInst)
      <4>1. m < HI'
        BY <1>1
      <4>2. HI' # HI
        BY <2>6, <4>1
      <4>3. SkipMod \/ PassDel \/ NoInst
        BY <2>2, <4>2, Changes
      <4>4. HI' = HI + 1
        BY <4>3 DEF SkipMod, PassDel, HiAfterDel, NoInst
      <4>5. m = HI
        BY <1>2, <2>6, <4>1, <4>4
      <4> QED
        BY <4>3, <4>5
    <3>2. CASE m = HI /\ (SkipMod \/ PassDel)
      <4>1. HI <= Len(mods) /\ pc # "match_inst"
        BY <3>2 DEF SkipMod, PassDel, ModReaches
      <4>2. mods[HI] = hunks[k][m]
        <5>1. HI \in HI..Len(mods)
          BY <1>2, <2>3, <4>1, AtHunk
        <5> QED
          BY <2>3, <3>2, <4>1, <5>1 DEF IInv, ModsInv
      <4>3. mods[HI].type = "DEL" \/ mods[HI].end < sps[func].line
        BY <3>2 DEF SkipMod, ModSkipped, PassDel
      <4> QED
        BY <1>1, <1>3, <2>3, <4>2, <4>3 DEF Wants
    <3>3. CASE m = HI /\ NoInst
      BY <1>1, <2>3, <2>4, <3>3, ModDone
    <3> QED
      BY <3>1, <3>2, <3>3
  <2> QED
    BY <2>5, <2>6
<1> QED
  BY <1>4, <1>5, <1>6

\* A function is left when no Mod left can want an instruction of it.
LEMMA FunctionDone ==
  ASSUME IInv, pc \in {"skip_mods", "next_mod"},
         HI > Len(mods) \/ ~(mods[HI].begin <= last[func]),
         NEW f \in Subprograms, NEW k \in DOMAIN hunks, k = h, IsTarget(f, k), Ordered(f)
  PROVE  AddedIn(f, k) \subseteq Collected(f)
<1>1. InFunction /\ InHunk /\ pc # "match_inst"
  BY DEF InFunction, InHunk
<1>2. f = func
  BY <1>1 DEF IInv, TargetInv
<1>3. SUFFICES ASSUME NEW n \in AddedIn(f, k) PROVE n \in Collected(f)
  OBVIOUS
<1>4. n \in DOMAIN sps[f].insts /\ sps[f].insts[n] \in AddedLines(k) \cap (sps[f].line..EndOf(f))
  BY <1>3 DEF AddedIn
<1>5. PICK m \in DOMAIN hunks[k] : Wants(f, k, m, n)
  BY <1>4 DEF AddedLines, Wants
<1>6. CASE m < HI
  BY <1>1, <1>2, <1>4, <1>5, <1>6 DEF IInv, DoneInv
<1>7. CASE ~(m < HI)
  <2>1. /\ HI \in Nat \ {0} /\ m \in Nat /\ m <= Len(mods) /\ Len(mods) \in Nat
        /\ DOMAIN hunks[h] = 1..Len(mods)
    <3>1. HI \in Nat \ {0} /\ Len(mods) \in Nat /\ DOMAIN hunks[h] = 1..Len(mods)
      BY <1>1, AtHunk, SMTT(30) DEF IInv, TypeOK
    <3> QED
      BY <3>1
  <2>2. HI <= Len(mods) /\ HI \in HI..Len(mods) /\ m >= HI
    BY <1>7, <2>1
  <2>3. mods[HI] = hunks[h][HI]
    BY <1>1, <2>2 DEF IInv, ModsInv
  <2>4. HI \in DOMAIN hunks[h] /\ hunks[h][HI].begin <= hunks[k][m].begin
    BY <1>1, <2>2, ModsLeft
  <2>5. /\ hunks[h][HI].begin \in Nat /\ hunks[k][m].begin \in Nat /\ last[func] \in Nat
        /\ last[func] = EndOf(f)
    BY <1>1, <1>2, <2>4, HunkShape, AtFunction DEF IInv
  <2>6. sps[f].insts[n] \in Nat
    BY <1>4, UnitShape DEF IInv
  <2>7. hunks[k][m].begin <= sps[f].insts[n] /\ sps[f].insts[n] <= last[func]
    BY <1>5, <2>5, <2>6 DEF Wants
  <2>8. ~(hunks[h][HI].begin <= last[func])
    BY <2>1, <2>2, <2>3
  <2> QED
    BY <2>4, <2>5, <2>6, <2>7, <2>8
<1> QED
  BY <1>6, <1>7

LEMMA CompleteHolds == ASSUME IInv, [Next]_vars PROVE CompleteInv'
<1>1. SUFFICES ASSUME NEW k \in 1..HunksMatched', NEW f \in Subprograms, IsTarget(f, k), Ordered(f)
               PROVE  AddedIn(f, k) \subseteq Collected(f)'
  BY Changes, StaticKept DEF CompleteInv
<1>2. Collected(f) \subseteq Collected(f)' /\ h \in Nat
  BY CollectedGrows, SMTT(30) DEF IInv, TypeOK
<1>3. CASE k \in 1..HunksMatched
  BY <1>1, <1>2, <1>3 DEF IInv, CompleteInv
<1>4. CASE k \notin 1..HunksMatched
  <2>1. /\ MatchNothing \/ NoModLeft \/ LeaveFunction \/ (MatchUnknown /\ ~InFunction') \/ (MatchHit /\ ~InFunction')
        /\ k = h
    <3>1. HunksMatched = (IF pc \in {"next_hunk", "end_hunk", "done"} THEN h ELSE h - 1)
          /\ HunksMatched' = (IF pc' \in {"next_hunk", "end_hunk", "done"} THEN h' ELSE h' - 1)
      BY DEF HunksMatched
    <3>2. ASSUME TakeHunk PROVE HunksMatched' = HunksMatched
      BY <1>2, <3>1, <3>2 DEF TakeHunk
    <3>3. ASSUME ~TakeHunk
          PROVE  \/ HunksMatched' = HunksMatched
                 \/ /\ HunksMatched = h - 1 /\ HunksMatched' = h
                    /\ \/ MatchNothing \/ NoModLeft \/ LeaveFunction
                       \/ MatchUnknown /\ ~InFunction'
                       \/ MatchHit /\ ~InFunction'
      <4>1. h' = h
        BY <3>3, Changes
      <4>2. \/ pc' = pc \/ NoMoreHunks \/ EndHunk \/ InferLastLine \/ EnterFunction \/ ClampMod \/ NoInst
            \/ MatchNothing \/ NoModLeft \/ LeaveFunction \/ MatchUnknown \/ MatchHit
        BY <3>3, Moves
      <4>3. \/ pc' \in {"next_hunk", "end_hunk", "done"} <=> pc \in {"next_hunk", "end_hunk", "done"}
            \/ /\ pc \notin {"next_hunk", "end_hunk", "done"}
               /\ pc' = "end_hunk"
               /\ \/ MatchNothing \/ NoModLeft \/ LeaveFunction
                  \/ MatchUnknown /\ ~InFunction'
                  \/ MatchHit /\ ~InFunction'
        BY <4>2 DEF NoMoreHunks, EndHunk, InferLastLine, EnterFunction, ClampMod, NoInst,
           MatchNothing, NoModLeft, LeaveFunction, MatchUnknown, MatchHit, InFunction
      <4> QED
        BY <3>1, <4>1, <4>3
    <3> QED
      BY <1>1, <1>2, <1>4, <3>2, <3>3
  <2>2. k \in DOMAIN hunks
    <3>1. InHunk
      BY <2>1 DEF MatchNothing, NoModLeft, LeaveFunction, MatchUnknown, MatchHit, InHunk
    <3> QED
      BY <2>1, <3>1, AtHunk
  <2>3. CASE NoModLeft \/ LeaveFunction
    <3>1. /\ pc \in {"skip_mods", "next_mod"}
          /\ HI > Len(mods) \/ ~(mods[HI].begin <= last[func])
      <4>1. HI \in Nat /\ Len(mods) \in Nat
        BY DEF IInv, TypeOK
      <4> QED
        BY <2>3, <4>1 DEF NoModLeft, LeaveFunction, ModReaches
    <3> QED
      BY <1>1, <1>2, <2>1, <2>2, <3>1, FunctionDone
  <2>4. CASE MatchNothing
    <3>1. pc = "match"
      BY <2>4 DEF MatchNothing
    <3>2. AtTarget /\ (last[I] # 0 /\ ~Passed(I) => f = I)
      BY <1>1, <2>1, <3>1, TargetAtIterator
    <3>3. last[I] # 0 /\ ~Passed(I) /\ Before(I) /\ f = I
      BY <2>4, <3>2 DEF MatchNothing
    <3>4. ~Touched(I, h)
      BY <3>1, <3>2, <3>3, ReachedIs
    <3> QED
      BY <1>1, <2>1, <3>3, <3>4 DEF IsTarget
  <2>5. CASE MatchUnknown
    BY <1>1, <2>1, <2>5, TargetAtIterator DEF MatchUnknown
  <2>6. CASE MatchHit /\ ~InFunction'
    <3>1. pc = "match" /\ last[I] # 0 /\ ~Passed(I) /\ ~sps[I].fn
      BY <2>6 DEF MatchHit, InFunction
    <3>2. f = I
      BY <1>1, <2>1, <3>1, TargetAtIterator
    <3> QED
      BY <1>1, <3>1, <3>2 DEF IsTarget
  <2> QED
    BY <2>1, <2>3, <2>4, <2>5, <2>6
<1> QED
  BY <1>3, <1>4

-----------------------------------------------------------------------------
(* What is collected *)

\* The list of a function taken from grows by the instruction taken.
LEMMA TakenIs ==
  ASSUME IInv, TakeInst
  PROVE  /\ func \in Subprograms /\ Entered = func /\ Inside /\ InHunk
         /\ sps[func].mine /\ sps[func].fn
         /\ fi \in DOMAIN sps[func].insts /\ fi \in Nat
         /\ sps[func].insts[fi] \in AddedLines(h) /\ h \in DOMAIN hunks
         /\ \A f \in Subprograms : f # func => instmap'[f] = instmap[f]
         /\ instmap[func] \in Seq(Nat)
         /\ DOMAIN instmap'[func] = 1..(Len(instmap[func]) + 1)
         /\ \A n \in DOMAIN instmap[func] : instmap'[func][n] = instmap[func][n]
         /\ instmap'[func][Len(instmap[func]) + 1] = fi
         /\ fi' = fi + 1 /\ UNCHANGED <<func, pc>>
<1>1. pc = "match_inst" /\ fi' = fi + 1 /\ UNCHANGED <<func, pc>>
  BY DEF TakeInst, FiAfterTake, matchVars
<1>2. /\ InFunction /\ InHunk /\ Inside /\ ClampInv
      /\ h \in DOMAIN hunks /\ HI \in DOMAIN hunks[h]
      /\ mods[HI].begin \in Nat /\ mods[HI].end \in Nat
      /\ hunks[h][HI].begin \in Nat /\ hunks[h][HI].end \in Nat
      /\ fi \in Nat \ {0}
  BY <1>1, AtMod
<1>3. func \in Subprograms /\ sps[func].mine /\ sps[func].fn /\ sps[func].insts \in Seq(Nat)
      /\ last[func] \in Nat
  BY <1>2, AtFunction
<1>4. fi \in DOMAIN sps[func].insts /\ InstLine = sps[func].insts[fi] /\ InstLine \in Nat
  BY <1>2, <1>3, SMTT(30) DEF TakeInst, InstLeft, InstLine
<1>5. InstLine \in hunks[h][HI].begin..hunks[h][HI].end /\ hunks[h][HI].type # "DEL"
  <2>1. mods[HI].begin <= InstLine /\ InstLine <= mods[HI].end
    BY <1>2, <1>4 DEF TakeInst, InMod, InstLeft
  <2>2. /\ hunks[h][HI].begin <= mods[HI].begin /\ hunks[h][HI].type # "DEL"
        /\ mods[HI].end = IF hunks[h][HI].end > last[func] THEN last[func] ELSE hunks[h][HI].end
    BY <1>1, <1>2 DEF ClampInv
  <2>3. mods[HI].end <= hunks[h][HI].end
    BY <1>2, <1>3, <2>2
  <2> QED
    BY <1>2, <1>4, <2>1, <2>2, <2>3
<1>6. sps[func].insts[fi] \in AddedLines(h)
  BY <1>2, <1>4, <1>5 DEF AddedLines
<1>7. instmap \in [Subprograms -> Seq(Nat)] /\ instmap' = [instmap EXCEPT ![func] = Append(instmap[func], fi)]
  BY DEF IInv, TypeOK, TakeInst
<1>8. instmap[func] \in Seq(Nat)
  BY <1>3, <1>7
<1>9. instmap'[func] = Append(instmap[func], fi) /\ \A f \in Subprograms : f # func => instmap'[f] = instmap[f]
  BY <1>3, <1>7
<1>10. /\ DOMAIN instmap'[func] = 1..(Len(instmap[func]) + 1)
       /\ \A n \in DOMAIN instmap[func] : instmap'[func][n] = instmap[func][n]
       /\ instmap'[func][Len(instmap[func]) + 1] = fi
  BY <1>2, <1>8, <1>9
<1> QED
  BY <1>1, <1>2, <1>3, <1>4, <1>6, <1>8, <1>9, <1>10 DEF Entered

\* The element of a grown list is an old one or the one taken.
LEMMA TakenCases ==
  ASSUME IInv, TakeInst, NEW f \in Subprograms, NEW n \in DOMAIN instmap'[f]
  PROVE  \/ n \in DOMAIN instmap[f] /\ instmap'[f][n] = instmap[f][n]
         \/ f = func /\ n = Len(instmap[f]) + 1 /\ instmap'[f][n] = fi
<1>1. CASE f # func
  BY <1>1, TakenIs
<1>2. CASE f = func
  <2>1. n \in 1..(Len(instmap[f]) + 1) /\ instmap[f] \in Seq(Nat)
    BY <1>2, TakenIs
  <2>2. n \in DOMAIN instmap[f] \/ n = Len(instmap[f]) + 1
    BY <2>1
  <2> QED
    BY <1>2, <2>2, TakenIs
<1> QED
  BY <1>1, <1>2

LEMMA CursorHolds == ASSUME IInv, [Next]_vars PROVE CursorInv'
<1>1. /\ sps' = sps /\ Subprograms' = Subprograms /\ CursorInv /\ fi \in Nat \ {0}
      /\ Len(sps) \in Nat /\ Subprograms = 1..Len(sps) /\ prevfunc \in Nat
      /\ instmap \in [Subprograms -> Seq(Nat)]
  BY Changes, UnitShape DEF Subprograms, IInv, TypeOK
<1>2. CASE TakeInst
  <2>1. Entered' = Entered /\ Entered = func /\ fi' = fi + 1
    BY <1>2, TakenIs DEF Entered, Inside
  <2>2. ASSUME NEW f \in Subprograms, f > Entered' PROVE instmap'[f] = <<>>
    BY <1>1, <1>2, <2>1, <2>2, TakenIs DEF CursorInv
  <2>3. ASSUME NEW f \in Subprograms, NEW n \in DOMAIN instmap'[f]
        PROVE  instmap'[f][n] \in DOMAIN sps[f].insts /\ (f = Entered' => instmap'[f][n] < fi')
    <3>1. CASE n \in DOMAIN instmap[f] /\ instmap'[f][n] = instmap[f][n]
      <4>1. instmap[f][n] \in DOMAIN sps[f].insts /\ (f = Entered => instmap[f][n] < fi)
        BY <1>1, <3>1 DEF CursorInv
      <4>2. instmap[f][n] \in Nat
        BY <1>1, <3>1
      <4> QED
        BY <1>1, <2>1, <3>1, <4>1, <4>2
    <3>2. CASE f = func /\ n = Len(instmap[f]) + 1 /\ instmap'[f][n] = fi
      BY <1>1, <1>2, <2>1, <3>2, TakenIs
    <3> QED
      BY <1>2, <3>1, <3>2, TakenCases
  <2> QED
    BY <1>1, <2>2, <2>3 DEF CursorInv
<1>3. CASE EnterFunction
  <2>1. /\ Entered' = func /\ Entered = prevfunc /\ instmap' = instmap
        /\ fi' = IF prevfunc # func THEN 1 ELSE fi
        /\ func = I /\ I \in Nat /\ prevfunc <= I
    <3>1. InFunction
      BY <1>3 DEF EnterFunction, InFunction
    <3>2. func = I /\ I \in Nat /\ prevfunc <= I
      BY <3>1, AtFunction DEF IInv, IteratorInv
    <3> QED
      BY <1>3, <3>2 DEF EnterFunction, Entered, Inside, FiOnEntry, matchVars
  <2>2. \A f \in Subprograms : f > func => f > prevfunc
    BY <1>1, <2>1
  <2>3. func # prevfunc /\ func \in Subprograms => instmap[func] = <<>>
    BY <1>1, <2>1 DEF CursorInv
  <2>4. \A f \in Subprograms : f > Entered' => instmap'[f] = <<>>
    BY <1>1, <2>1, <2>2 DEF CursorInv
  <2>5. ASSUME NEW f \in Subprograms, NEW n \in DOMAIN instmap'[f]
        PROVE  instmap'[f][n] \in DOMAIN sps[f].insts /\ (f = Entered' => instmap'[f][n] < fi')
    <3>1. instmap[f][n] \in DOMAIN sps[f].insts /\ (f = Entered => instmap[f][n] < fi)
      BY <1>1, <2>1, <2>5 DEF CursorInv
    <3>2. f = func => func = prevfunc
      BY <2>1, <2>3, <2>5
    <3> QED
      BY <2>1, <3>1, <3>2
  <2> QED
    BY <1>1, <2>4, <2>5 DEF CursorInv
<1>4. CASE ~TakeInst /\ ~EnterFunction
  <2>1. instmap' = instmap /\ (fi' = fi \/ fi' = fi + 1)
    BY <1>4, Changes DEF PassInst
  <2>2. Entered' = Entered
    <3>1. CASE LeaveFunction
      BY <3>1 DEF LeaveFunction, Entered, Inside
    <3>2. CASE ~LeaveFunction
      <4>1. prevfunc' = prevfunc
        BY <3>2, Changes
      <4>2. (Inside' <=> Inside) /\ (Inside => func' = func)
        BY <1>4, <3>2, Moves DEF Inside, TakeHunk, NoMoreHunks, EndHunk, MatchNothing, MatchUnknown, InferLastLine,
           MatchHit, NoModLeft, ClampMod, NoInst, matchVars
      <4> QED
        BY <4>1, <4>2 DEF Entered
    <3> QED
      BY <3>1, <3>2
  <2>3. ASSUME NEW f \in Subprograms, NEW n \in DOMAIN instmap[f], f = Entered PROVE instmap[f][n] < fi'
    <3>1. instmap[f][n] < fi
      BY <1>1, <2>3 DEF CursorInv
    <3>2. instmap[f][n] \in Nat
      BY <1>1
    <3> QED
      BY <1>1, <2>1, <3>1, <3>2
  <2> QED
    BY <1>1, <2>1, <2>2, <2>3 DEF CursorInv
<1> QED
  BY <1>2, <1>3, <1>4

LEMMA ChangedHolds == ASSUME IInv, [Next]_vars PROVE CollectedWasChanged'
<1>1. SUFFICES ASSUME NEW f \in Subprograms, NEW n \in DOMAIN instmap'[f]
               PROVE  /\ sps[f].mine /\ sps[f].fn
                      /\ \E k \in 1..h' : sps[f].insts[instmap'[f][n]] \in AddedLines(k)
  BY Changes, StaticKept DEF CollectedWasChanged
<1>2. h \in Nat /\ h' \in Nat /\ h <= h'
  <2>1. h \in Nat
    BY DEF IInv, TypeOK
  <2>2. h' = h \/ h' = h + 1
    BY Changes DEF TakeHunk
  <2> QED
    BY <2>1, <2>2
<1>3. CASE n \in DOMAIN instmap[f] /\ instmap'[f][n] = instmap[f][n]
  <2>1. /\ sps[f].mine /\ sps[f].fn
        /\ \E k \in 1..h : sps[f].insts[instmap[f][n]] \in AddedLines(k)
    BY <1>3 DEF IInv, CollectedWasChanged
  <2> QED
    BY <1>2, <1>3, <2>1
<1>4. CASE TakeInst /\ f = func /\ instmap'[f][n] = fi
  <2>1. h \in 1..h' /\ sps[f].insts[instmap'[f][n]] \in AddedLines(h)
    BY <1>2, <1>4, TakenIs, AtHunk DEF TakeInst, chapterVars
  <2> QED
    BY <1>4, <2>1, TakenIs
<1> QED
  BY <1>3, <1>4, TakenCases, Changes

LEMMA OnceHolds == ASSUME IInv, [Next]_vars PROVE CollectedOnce'
<1>1. SUFFICES ASSUME NEW f \in Subprograms, NEW m \in DOMAIN instmap'[f], NEW n \in DOMAIN instmap'[f], m < n
               PROVE  instmap'[f][m] < instmap'[f][n]
  BY Changes, StaticKept DEF CollectedOnce
<1>2. CASE ~TakeInst
  BY <1>1, <1>2, Changes DEF IInv, CollectedOnce
<1>3. CASE TakeInst
  <2>1. instmap[f] \in Seq(Nat) /\ DOMAIN instmap[f] = 1..Len(instmap[f]) /\ Len(instmap[f]) \in Nat
    <3>1. instmap[f] \in Seq(Nat)
      BY DEF IInv, TypeOK
    <3> QED
      BY <3>1
  <2>2. CASE n \in DOMAIN instmap[f] /\ instmap'[f][n] = instmap[f][n]
    <3>1. m \in DOMAIN instmap[f] /\ instmap'[f][m] = instmap[f][m]
      <4>1. m # Len(instmap[f]) + 1
        BY <1>1, <2>1, <2>2
      <4> QED
        BY <1>3, <4>1, TakenCases
    <3> QED
      BY <1>1, <2>2, <3>1 DEF IInv, CollectedOnce
  <2>3. CASE f = func /\ n = Len(instmap[f]) + 1 /\ instmap'[f][n] = fi
    <3>1. m \in DOMAIN instmap[f] /\ instmap'[f][m] = instmap[f][m]
      BY <1>1, <1>3, <2>3, TakenCases
    <3>2. instmap[f][m] < fi
      BY <1>3, <2>3, <3>1, TakenIs DEF IInv, CursorInv
    <3> QED
      BY <2>3, <3>1, <3>2
  <2> QED
    BY <1>3, <2>2, <2>3, TakenCases
<1> QED
  BY <1>2, <1>3

LEMMA TrivialHolds == ASSUME IInv, [Next]_vars PROVE TrivialInv'
<1>1. TrivialInv /\ Subprograms' = Subprograms /\ s \in {0, 1}
  BY Changes DEF IInv, TypeOK, Subprograms
<1>2. Inside' => s' = 1
  <2>1. CASE EnterFunction
    BY <2>1 DEF EnterFunction
  <2>2. CASE ~EnterFunction
    <3>1. Inside' => Inside /\ ~TakeHunk
      BY <2>2, Moves DEF Inside, TakeHunk, NoMoreHunks, EndHunk, MatchNothing, MatchUnknown, InferLastLine,
         MatchHit, NoModLeft, ClampMod, LeaveFunction, NoInst
    <3> QED
      BY <1>1, <2>2, <3>1, Changes DEF TrivialInv
  <2> QED
    BY <2>1, <2>2
<1>3. ASSUME insignificant', s' = 0 \/ pc' \in {"next_hunk", "done"}, NEW f \in Subprograms
      PROVE  instmap'[f] = <<>>
  <2>1. ~TakeInst
    <3>1. SUFFICES ASSUME TakeInst PROVE FALSE
      OBVIOUS
    <3>2. s = 1 /\ s' = s /\ pc' = pc /\ pc = "match_inst"
      BY <1>1, <3>1, TakenIs DEF TrivialInv, TakeInst
    <3> QED
      BY <1>3, <3>2
  <2>2. insignificant /\ (s = 0 \/ pc \in {"next_hunk", "done"})
    <3>1. CASE EndHunk
      BY <1>3, <3>1 DEF EndHunk, InsignificantAfter
    <3>2. CASE TakeHunk
      BY <1>3, <3>2 DEF TakeHunk
    <3>3. CASE EnterFunction
      BY <1>3, <3>3 DEF EnterFunction
    <3>4. CASE ~EndHunk /\ ~TakeHunk /\ ~EnterFunction
      <4>1. insignificant' = insignificant /\ s' = s
        BY <3>4, Changes
      <4>2. pc' \in {"next_hunk", "done"} => pc \in {"next_hunk", "done"}
        BY <3>4, Moves DEF NoMoreHunks, MatchNothing, MatchUnknown, InferLastLine,
           MatchHit, NoModLeft, ClampMod, LeaveFunction, NoInst
      <4> QED
        BY <1>3, <4>1, <4>2
    <3> QED
      BY <3>1, <3>2, <3>3, <3>4
  <2>3. instmap' = instmap
    BY <2>1, Changes
  <2> QED
    BY <1>1, <2>2, <2>3 DEF TrivialInv
<1> QED
  BY <1>1, <1>2, <1>3 DEF TrivialInv

-----------------------------------------------------------------------------
(* The invariant holds *)

LEMMA InitHolds == Init => IInv
<1> SUFFICES ASSUME Init PROVE IInv
  OBVIOUS
<1>1. /\ sps \in Units /\ hunks \in Chapters
      /\ pc = "next_hunk" /\ I = 1 /\ h = 0 /\ func = 0 /\ prevfunc = 0 /\ HI = 1 /\ fi = 1 /\ s = 0
      /\ scope = [begin |-> 0, end |-> 0] /\ mods = <<>>
      /\ multiple = TRUE /\ insignificant = TRUE
      /\ last = [f \in Subprograms |-> GetLastLine(sps[f])]
      /\ instmap = [f \in Subprograms |-> <<>>]
  BY DEF Init, Subprograms
<1>2. /\ Len(sps) \in Nat /\ Len(sps) > 0 /\ Subprograms = 1..Len(sps)
      /\ Len(hunks) \in Nat
  BY <1>1, UnitShape, HunkShape
<1>3. ~InHunk /\ ~InFunction /\ ~Inside /\ Entered = 0 /\ HunksMatched = 0
  BY <1>1 DEF InHunk, InFunction, Inside, Entered, HunksMatched
<1>4. TypeOK
  <2>1. last \in [Subprograms -> Nat]
    BY <1>1, EndOfType
  <2>2. instmap \in [Subprograms -> Seq(Nat)]
    BY <1>1
  <2>3. mods \in Seq(ModRecords) /\ Len(mods) = 0
    BY <1>1
  <2> QED
    BY <1>1, <1>2, <2>1, <2>2, <2>3 DEF TypeOK
<1>5. LastInv
  BY <1>1, EndOfType DEF LastInv
<1>6. FunctionInv /\ SearchInv /\ ModsInv /\ ClampInv /\ TargetInv /\ DoneInv
  BY <1>1, <1>3 DEF FunctionInv, SearchInv, ModsInv, ClampInv, TargetInv, DoneInv
<1>7. IteratorInv /\ PositionInv
  <2>1. \A f \in Subprograms : ~(f < I) /\ f # Entered
    BY <1>1, <1>2, <1>3
  <2> QED
    BY <1>1, <2>1 DEF IteratorInv, PositionInv
<1>8. CompleteInv
  BY <1>3 DEF CompleteInv
<1>9. CursorInv /\ CollectedWasChanged /\ CollectedOnce /\ TrivialInv
  <2>1. \A f \in Subprograms : instmap[f] = <<>> /\ DOMAIN instmap[f] = {}
    BY <1>1
  <2> QED
    BY <1>3, <2>1 DEF CursorInv, CollectedWasChanged, CollectedOnce, TrivialInv
<1> QED
  BY <1>1, <1>4, <1>5, <1>6, <1>7, <1>8, <1>9 DEF IInv

LEMMA NextHolds == IInv /\ [Next]_vars => IInv'
<1> SUFFICES ASSUME IInv, [Next]_vars PROVE IInv'
  OBVIOUS
<1>1. sps' \in Units /\ hunks' \in Chapters
  BY Changes DEF IInv
<1>2. LastInv' /\ FunctionInv' /\ SearchInv' /\ ModsInv' /\ ClampInv'
  BY LastHolds, FunctionHolds, SearchHolds, ModsHolds, ClampHolds
<1>3. IteratorInv' /\ TargetInv' /\ PositionInv' /\ DoneInv' /\ CompleteInv'
  BY IteratorHolds, TargetHolds, PositionHolds, DoneHolds, CompleteHolds
<1>4. CursorInv' /\ CollectedWasChanged' /\ CollectedOnce' /\ TrivialInv'
  BY CursorHolds, ChangedHolds, OnceHolds, TrivialHolds
<1> QED
  BY <1>1, <1>2, <1>3, <1>4, TypeHolds DEF IInv

LEMMA Invariance == Spec => []IInv
  BY InitHolds, NextHolds, PTL DEF Spec

(***************************************************************************)
(* For every sorted compile unit and every chapter, all cursors stay in    *)
(* range: the iterators of matchFunction, matchInstruction and analyze     *)
(* point at an element or one past the last.                               *)
(***************************************************************************)
THEOREM TypeCorrect == Spec => []TypeOK
<1>1. IInv => TypeOK
  BY DEF IInv
<1> QED
  BY <1>1, Invariance, PTL

(***************************************************************************)
(* For every sorted compile unit and every chapter of ordered hunks: only  *)
(* what the patch changed is collected and each instruction once, nothing  *)
(* of the function a hunk touches first is lost, no cursor has passed what *)
(* a later hunk needs, and only nothing is called trivial                  *)
(* (Matcher::matchFunction and matchInstruction, analyze).                 *)
(***************************************************************************)
THEOREM CollectedAlwaysExact == Spec => []CollectedExactly
<1>1. IInv => CollectedExactly
  <2> SUFFICES ASSUME IInv PROVE CollectedExactly
    OBVIOUS
  <2>1. h \in Nat /\ I \in Nat /\ Len(hunks) \in Nat /\ DOMAIN hunks = 1..Len(hunks)
    BY HunkShape DEF IInv, TypeOK
  <2>2. FirstFunctionComplete
    <3>1. 1..HunksFinished \subseteq 1..HunksMatched
      BY <2>1 DEF HunksFinished, HunksMatched
    <3> QED
      BY <3>1 DEF IInv, CompleteInv, FirstFunctionComplete
  <2>3. NothingBehindIterator
    <3>1. SUFFICES ASSUME NEW k \in (h + 1)..Len(hunks), NEW f \in 1..(I - 1), f \in Subprograms
                   PROVE  ~IsTarget(f, k)
      BY DEF NothingBehindIterator
    <3>2. k \in DOMAIN hunks /\ h <= k /\ f < I
      BY <2>1
    <3>3. ~Reached(f, k)
      <4>1. IteratorInv
        BY DEF IInv
      <4> QED
        BY <3>1, <3>2, <4>1 DEF IteratorInv
    <3> QED
      BY <3>3 DEF IsTarget, FirstReached
  <2>4. TrivialMeansNothing
    BY DEF IInv, TrivialInv, TrivialMeansNothing
  <2> QED
    BY <2>2, <2>3, <2>4 DEF IInv, CollectedExactly
<1> QED
  BY <1>1, Invariance, PTL

-----------------------------------------------------------------------------
(* The loop at given lines (module LoopSearch).  The lines of a loop are   *)
(* the greatest of its blocks' ends, so a known loop meets the scope by    *)
(* them just when one of its blocks does.  LoopInv then says of the lines  *)
(* kept from loop to loop whether they meet the scope, which is whether    *)
(* the loop looked at last is taken.                                       *)

LEMMA LeastNatural ==
  ASSUME NEW T, T \subseteq Nat, T # {}
  PROVE  \E m \in T : \A n \in T : m <= n
<1> DEFINE R == {p \in Nat \X Nat : p[1] < p[2]}
<1>1. IsWellFoundedOn(R, Nat)
  <2>1. OpToRel(<, Nat) = R
    BY Zenon DEF OpToRel
  <2> QED
    BY <2>1, NatLessThanWellFounded, Zenon
<1>2. PICK m \in T : \A n \in T : ~(<<n, m>> \in R)
  BY <1>1, WFMin
<1>3. \A n \in T : m <= n
  <2> TAKE n \in T
  <2>1. m \in Nat /\ n \in Nat /\ ~(<<n, m>> \in R)
    BY <1>2
  <2> QED
    BY <2>1
<1> QED
  BY <1>3

\* The last lines of the first blocks have a bound.
Bounds(b, n) == {u \in Nat : \A k \in 1..n : b[k].end <= u}

LEMMA EndsBounded ==
  ASSUME NEW b \in Seq(ScopeRecords)
  PROVE  Bounds(b, Len(b)) # {}
<1> DEFINE Unbounded == {n \in 0..Len(b) : Bounds(b, n) = {}}
<1>0. Len(b) \in Nat /\ \A k \in 1..Len(b) : b[k].end \in Nat
  <2>1. Len(b) \in Nat /\ \A k \in 1..Len(b) : b[k] \in ScopeRecords
    BY LenProperties, ElementOfSeq
  <2> QED
    BY <2>1 DEF ScopeRecords
<1>1. SUFFICES ASSUME Unbounded # {} PROVE FALSE
  BY <1>0
<1>2. PICK n \in Unbounded : \A m \in Unbounded : n <= m
  <2>1. Unbounded \subseteq Nat /\ Unbounded # {}
    BY <1>0, <1>1
  <2> QED
    BY <2>1, LeastNatural, Zenon
<1>3. n # 0
  <2>1. 0 \in Bounds(b, 0)
    BY DEF Bounds
  <2> QED
    BY <1>2, <2>1
<1>4. n - 1 \in 0..Len(b) /\ n - 1 \notin Unbounded /\ n \in 1..Len(b)
  BY <1>0, <1>2, <1>3
<1>5. PICK u \in Bounds(b, n - 1) : TRUE
  BY <1>4
<1>6. PICK v \in Nat : u <= v /\ b[n].end <= v
  <2>1. u \in Nat /\ b[n].end \in Nat
    BY <1>0, <1>4, <1>5 DEF Bounds
  <2>2. CASE u <= b[n].end
    BY <2>1, <2>2
  <2>3. CASE b[n].end <= u
    BY <2>1, <2>3
  <2> QED
    BY <2>1, <2>2, <2>3
<1>7. \A k \in 1..n : b[k].end <= v
  <2> TAKE k \in 1..n
  <2>1. k \in 1..Len(b) /\ b[k].end \in Nat /\ u \in Nat
    BY <1>0, <1>4, <1>5 DEF Bounds
  <2>2. CASE k = n
    BY <1>6, <2>2
  <2>3. CASE k # n
    <3>1. b[k].end <= u
      BY <1>4, <1>5, <2>3 DEF Bounds
    <3> QED
      BY <1>6, <2>1, <3>1
  <2> QED
    BY <2>2, <2>3
<1>8. v \in Bounds(b, n)
  BY <1>6, <1>7 DEF Bounds
<1> QED
  BY <1>2, <1>8

IsLoop(loop) == loop.blocks \in Seq(ScopeRecords) /\ loop.blocks # <<>>

KnownEnds(loop) == {loop.blocks[n].end : n \in {k \in DOMAIN loop.blocks : KnownBlock(loop.blocks[k])}}

\* A greatest end there is, and LastLine is it.
LEMMA LastLineIs ==
  ASSUME NEW loop, IsLoop(loop), Known(loop)
  PROVE  LastLine(loop) \in KnownEnds(loop) /\ \A x \in KnownEnds(loop) : x <= LastLine(loop)
<1> DEFINE b == loop.blocks
           S == KnownEnds(loop)
<1>1. Len(b) \in Nat /\ DOMAIN b = 1..Len(b) /\ 1 \in DOMAIN b /\ \A k \in DOMAIN b : b[k].end \in Nat
  <2>1. b \in Seq(ScopeRecords) /\ b # <<>>
    BY DEF IsLoop
  <2>2. Len(b) \in Nat /\ DOMAIN b = 1..Len(b) /\ Len(b) # 0
    BY <2>1, LenProperties, EmptySeq
  <2>3. \A k \in DOMAIN b : b[k] \in ScopeRecords
    BY <2>1, <2>2, ElementOfSeq
  <2> QED
    BY <2>2, <2>3 DEF ScopeRecords
<1>2. PICK u \in Nat : \A k \in DOMAIN b : b[k].end <= u
  BY <1>1, EndsBounded DEF Bounds, IsLoop
<1>3. S \subseteq Nat /\ S # {} /\ \A x \in S : x <= u
  BY <1>1, <1>2 DEF KnownEnds, Known
<1> DEFINE T == {t \in Nat : \A x \in S : x <= t}
<1> HIDE DEF S
<1>4. PICK t \in T : \A v \in T : t <= v
  <2>1. T \subseteq Nat /\ u \in T
    BY <1>3
  <2> QED
    BY <2>1, LeastNatural
<1>5. t \in S
  <2> SUFFICES ASSUME t \notin S PROVE FALSE
    OBVIOUS
  <2>1. PICK x \in S : TRUE
    BY <1>3
  <2>2. t \in Nat /\ \A y \in S : y \in Nat /\ y <= t /\ y # t
    BY <1>3, <1>4
  <2>3. t - 1 \in Nat /\ \A y \in S : y <= t - 1
    BY <2>1, <2>2
  <2>4. t - 1 \in T
    BY <2>3
  <2> QED
    BY <1>4, <2>2, <2>4
<1>6. t \in S /\ \A x \in S : t >= x
  <2>1. \A x \in S : x \in Nat /\ t \in Nat /\ x <= t
    BY <1>3, <1>4
  <2> QED
    BY <1>5, <2>1
<1>7. Max(S) \in S /\ \A x \in S : Max(S) >= x
  BY <1>6 DEF Max
<1>8. \A x \in S : x <= Max(S)
  <2> TAKE x \in S
  <2>1. x \in Nat /\ Max(S) \in Nat /\ Max(S) >= x
    BY <1>3, <1>7
  <2> QED
    BY <2>1
<1>9. LastLine(loop) = Max(S)
  BY DEF LastLine, S, KnownEnds
<1> QED
  BY <1>7, <1>8, <1>9 DEF S

\* The scope of a known loop meets the one sought just when a block does.
LEMMA MeetsByScope ==
  ASSUME NEW loop, IsLoop(loop), Known(loop), sought \in ScopeRecords
  PROVE  /\ ScopeAfter(loop) \in ScopeRecords
         /\ Intersects(ScopeAfter(loop), sought) <=> Meets(loop)
<1> DEFINE b == loop.blocks
<1>1. DOMAIN b = 1..Len(b) /\ 1 \in DOMAIN b /\ \A k \in DOMAIN b : b[k].begin \in Nat /\ b[k].end \in Nat
  <2>1. b \in Seq(ScopeRecords) /\ b # <<>>
    BY DEF IsLoop
  <2>2. Len(b) \in Nat /\ DOMAIN b = 1..Len(b) /\ Len(b) # 0
    BY <2>1, LenProperties, EmptySeq
  <2>3. \A k \in DOMAIN b : b[k] \in ScopeRecords
    BY <2>1, <2>2, ElementOfSeq
  <2> QED
    BY <2>2, <2>3 DEF ScopeRecords
<1>2. sought.begin \in Nat /\ sought.end \in Nat
  BY DEF ScopeRecords
<1>3. PICK e : e = LastLine(loop)
  OBVIOUS
<1>4. e \in KnownEnds(loop) /\ \A x \in KnownEnds(loop) : x <= e
  BY <1>3, LastLineIs
<1>5. e \in Nat
  BY <1>1, <1>4 DEF KnownEnds
<1>6. ScopeAfter(loop) = [begin |-> b[1].begin, end |-> e]
  BY <1>3 DEF ScopeAfter
<1>7. ScopeAfter(loop) \in ScopeRecords
  BY <1>1, <1>5, <1>6 DEF ScopeRecords
<1>8. e >= sought.begin <=> \E n \in DOMAIN b : KnownBlock(b[n]) /\ b[n].end >= sought.begin
  <2>1. ASSUME e >= sought.begin
        PROVE  \E n \in DOMAIN b : KnownBlock(b[n]) /\ b[n].end >= sought.begin
    BY <1>4, <2>1 DEF KnownEnds
  <2>2. ASSUME NEW n \in DOMAIN b, KnownBlock(b[n]), b[n].end >= sought.begin
        PROVE  e >= sought.begin
    <3>1. b[n].end \in KnownEnds(loop)
      BY <2>2 DEF KnownEnds
    <3>2. b[n].end <= e /\ b[n].end \in Nat
      BY <1>1, <1>4, <3>1
    <3> QED
      BY <1>2, <1>5, <2>2, <3>2
  <2> QED
    BY <2>1, <2>2
<1>9. Intersects(ScopeAfter(loop), sought) <=> sought.end >= b[1].begin /\ sought.begin <= e
  BY <1>6 DEF Intersects
<1>10. Meets(loop) <=> b[1].begin <= sought.end /\ \E n \in DOMAIN b : KnownBlock(b[n]) /\ b[n].end >= sought.begin
  BY DEF Meets
<1>11. /\ sought.end >= b[1].begin <=> b[1].begin <= sought.end
       /\ sought.begin <= e <=> e >= sought.begin
  BY <1>1, <1>2, <1>5
<1> QED
  BY <1>7, <1>8, <1>9, <1>10, <1>11

\* A subloop whose lines are known is taken by them, any other one when it is
\* the first, or the one before it is taken.
LEMMA SubTakenIs ==
  ASSUME NEW t, NEW n \in DOMAIN loops[t].subs, IsLoopList(loops[t].subs)
  PROVE  SubTaken(t, n) <=> IF Known(loops[t].subs[n]) THEN Meets(loops[t].subs[n])
                            ELSE n = 1 \/ SubTaken(t, n - 1)
<1> DEFINE list == loops[t].subs
<1>1. DOMAIN list = 1..Len(list) /\ Len(list) \in Nat /\ n \in Nat /\ n >= 1
  BY DEF IsLoopList
<1>2. CASE Known(list[n])
  <2>1. \A k \in DOMAIN list : Decides(list, k, n) => k = n
    <3> SUFFICES ASSUME NEW k \in DOMAIN list, Decides(list, k, n), k # n PROVE FALSE
      OBVIOUS
    <3>1. n \in k + 1..n
      BY <1>1 DEF Decides
    <3> QED
      BY <1>2, <3>1 DEF Decides
  <2>2. Decides(list, n, n)
    BY <1>1, <1>2 DEF Decides
  <2> QED
    BY <1>2, <2>1, <2>2 DEF SubTaken
<1>3. CASE ~Known(list[n])
  <2>1. \A k \in DOMAIN list : Decides(list, k, n) <=> n # 1 /\ Decides(list, k, n - 1)
    <3> TAKE k \in DOMAIN list
    <3>1. ASSUME Decides(list, k, n) PROVE n # 1 /\ Decides(list, k, n - 1)
      <4>1. k # n
        BY <1>3, <3>1 DEF Decides
      <4>2. k <= n - 1 /\ n # 1
        BY <1>1, <3>1, <4>1 DEF Decides
      <4>3. \A j \in k + 1..n - 1 : j \in k + 1..n
        BY <1>1
      <4> QED
        BY <3>1, <4>2, <4>3 DEF Decides
    <3>2. ASSUME n # 1, Decides(list, k, n - 1) PROVE Decides(list, k, n)
      <4>1. k <= n
        BY <1>1, <3>2 DEF Decides
      <4>2. \A j \in k + 1..n : j = n \/ j \in k + 1..n - 1
        BY <1>1
      <4> QED
        BY <1>3, <3>2, <4>1, <4>2 DEF Decides
    <3> QED
      BY <3>1, <3>2
  <2> QED
    BY <1>3, <2>1 DEF SubTaken
<1> QED
  BY <1>2, <1>3

\* The loops of a function and the scopes are what the code makes them.
LoopTypeInv ==
  /\ stage \in {"called", "top", "sub", "returned"}
  /\ loops \in LoopLists \cup {<<>>}
  /\ sought \in ScopeRecords
  /\ ls \in ScopeRecords
  /\ top \in 1..Len(loops) + 1
  /\ sub \in Nat \ {0}

\* No loop of the top level before the iterator is taken, and its lines, those
\* kept from the loop before, do not meet the scope.
TopInv ==
  stage \in {"called", "top"} =>
    /\ found = <<>> /\ sub = 1
    /\ stage = "called" => top = 1
    /\ top = 1 => ls = [begin |-> 0, end |-> 0]
    /\ top > 1 => ~Intersects(ls, sought)
    /\ \A n \in DOMAIN loops : n < top => ~TopTaken(n)

\* The loop gone into is the first taken; of its subloops looked at the last one
\* taken is found, and the lines kept meet the scope if the last one looked at is.
SubInv ==
  stage = "sub" =>
    /\ top \in DOMAIN loops /\ sub \in 1..Len(Subs) + 1
    /\ TopTaken(top) /\ \A n \in 1..top - 1 : ~TopTaken(n)
    /\ Intersects(ls, sought) <=> sub = 1 \/ SubTaken(top, sub - 1)
    /\ \/ found = <<top>> /\ \A n \in DOMAIN Subs : n < sub => ~SubTaken(top, n)
       \/ \E n \in DOMAIN Subs :
            /\ n < sub /\ found = <<top, n>> /\ SubTaken(top, n)
            /\ \A k \in DOMAIN Subs : k > n /\ k < sub => ~SubTaken(top, k)

LoopInv == LoopTypeInv /\ TopInv /\ SubInv /\ LoopFound

\* The loops at hand are lists of loops, and so are those in them.
LEMMA ListsAtHand ==
  ASSUME LoopTypeInv
  PROVE  /\ IsLoopList(loops)
         /\ \A n \in DOMAIN loops : IsLoop(loops[n]) /\ IsLoopList(loops[n].subs)
<1>1. CASE loops = <<>>
  BY <1>1 DEF IsLoopList
<1>2. CASE loops \in LoopLists
  BY <1>2, LoopsAssumption DEF IsLoopList, IsLoop
<1> QED
  BY <1>1, <1>2 DEF LoopTypeInv

\* Where a step leaves the loops and the scope alone, what is taken stays so.
LEMMA TakenKept ==
  ASSUME UNCHANGED <<loops, sought>>
  PROVE  /\ \A n : TopTaken(n)' <=> TopTaken(n)
         /\ \A t, n : SubTaken(t, n)' <=> SubTaken(t, n)
BY DEF TopTaken, SubTaken, Meets

LEMMA LoopInitHolds == LoopInit => LoopInv
BY LoopsAssumption DEF LoopInit, LoopInv, LoopTypeInv, TopInv, SubInv, LoopFound, ScopeRecords

LEMMA TopIs ==
  ASSUME LoopInv, stage = "top", top \in DOMAIN loops
  PROVE  /\ ScopeAfter(loops[top]) \in ScopeRecords
         /\ Intersects(ScopeAfter(loops[top]), sought) <=> TopTaken(top)
<1>1. LoopTypeInv /\ IsLoop(loops[top]) /\ top \in Nat /\ top >= 1
  BY ListsAtHand DEF LoopInv, LoopTypeInv
<1>2. sought \in ScopeRecords /\ ls \in ScopeRecords /\ sought.begin \in Nat /\ sought.end \in Nat
  BY <1>1 DEF LoopTypeInv, ScopeRecords
<1>3. CASE Known(loops[top])
  BY <1>1, <1>2, <1>3, MeetsByScope DEF TopTaken
<1>4. CASE ~Known(loops[top])
  <2>1. ScopeAfter(loops[top]) = ls /\ ~Meets(loops[top])
    BY <1>4 DEF ScopeAfter, Meets
  <2>2. CASE top = 1
    <3>1. ls = [begin |-> 0, end |-> 0]
      BY <2>2 DEF LoopInv, TopInv
    <3>2. Intersects(ls, sought) <=> sought.begin = 0
      BY <1>2, <3>1 DEF Intersects
    <3> QED
      BY <1>2, <1>4, <2>1, <2>2, <3>2 DEF TopTaken
  <2>3. CASE top > 1
    <3>1. ~Intersects(ls, sought)
      BY <2>3 DEF LoopInv, TopInv
    <3>2. ~TopTaken(top)
      BY <2>1, <2>3 DEF TopTaken
    <3> QED
      BY <1>2, <2>1, <3>1, <3>2
  <2> QED
    BY <1>1, <2>2, <2>3
<1> QED
  BY <1>3, <1>4

LEMMA SubIs ==
  ASSUME LoopInv, stage = "sub", sub \in DOMAIN Subs
  PROVE  /\ ScopeAfter(Subs[sub]) \in ScopeRecords
         /\ Intersects(ScopeAfter(Subs[sub]), sought) <=> SubTaken(top, sub)
<1>1. top \in DOMAIN loops /\ sub \in Nat /\ sub >= 1
  BY DEF LoopInv, LoopTypeInv, SubInv
<1>2. IsLoopList(Subs) /\ IsLoop(Subs[sub])
  BY <1>1, ListsAtHand DEF Subs, LoopInv, IsLoopList, IsLoop
<1>3. sought \in ScopeRecords /\ ls \in ScopeRecords
  BY DEF LoopInv, LoopTypeInv
<1>4. SubTaken(top, sub) <=> IF Known(Subs[sub]) THEN Meets(Subs[sub]) ELSE sub = 1 \/ SubTaken(top, sub - 1)
  BY <1>1, <1>2, SubTakenIs DEF Subs
<1>5. CASE Known(Subs[sub])
  BY <1>2, <1>3, <1>4, <1>5, MeetsByScope
<1>6. CASE ~Known(Subs[sub])
  <2>1. ScopeAfter(Subs[sub]) = ls
    BY <1>6 DEF ScopeAfter
  <2>2. Intersects(ls, sought) <=> sub = 1 \/ SubTaken(top, sub - 1)
    BY DEF LoopInv, SubInv
  <2> QED
    BY <1>3, <1>4, <1>6, <2>1, <2>2
<1> QED
  BY <1>5, <1>6

LEMMA LoopNextHolds == LoopInv /\ [LoopNext]_loopVars => LoopInv'
<1> SUFFICES ASSUME LoopInv, [LoopNext]_loopVars PROVE LoopInv'
  OBVIOUS
<1> USE DEF LoopInv
<1>0. IsLoopList(loops) /\ Len(loops) \in Nat /\ DOMAIN loops = 1..Len(loops) /\ top \in Nat /\ top >= 1
  BY ListsAtHand DEF IsLoopList, LoopTypeInv
<1>1. CASE CallMatchLoop
  <2>1. LoopTypeInv'
    <3>1. /\ loops' \in LoopLists /\ sought' \in ScopeRecords /\ stage' = "top"
          /\ ls' = ls /\ top' = top /\ sub' = sub /\ top = 1
      BY <1>1, ScopesAssumption DEF CallMatchLoop, TopInv
    <3>2. Len(loops') \in Nat
      BY <3>1, LoopsAssumption DEF IsLoopList
    <3> QED
      BY <3>1, <3>2 DEF LoopTypeInv
  <2>2. TopInv'
    <3>1. top' = 1 /\ stage' = "top" /\ found' = <<>> /\ sub' = 1 /\ ls' = [begin |-> 0, end |-> 0]
      BY <1>1 DEF CallMatchLoop, TopInv
    <3>2. \A n \in DOMAIN loops' : ~(n < 1)
      BY <1>1, LoopsAssumption DEF CallMatchLoop, IsLoopList
    <3> QED
      BY <3>1, <3>2 DEF TopInv
  <2>3. SubInv' /\ LoopFound'
    BY <1>1 DEF CallMatchLoop, SubInv, LoopFound
  <2> QED
    BY <2>1, <2>2, <2>3
<1>2. CASE PassTop
  <2>1. /\ stage = "top" /\ top \in DOMAIN loops /\ ls' = ScopeAfter(loops[top]) /\ ~Intersects(ls', sought)
        /\ top' = top + 1 /\ UNCHANGED <<stage, loops, sought, found, sub>>
    BY <1>2 DEF PassTop, Intersects
  <2>2. ls' \in ScopeRecords /\ ~TopTaken(top)
    BY <2>1, TopIs
  <2>3. LoopTypeInv'
    BY <1>0, <2>1, <2>2 DEF LoopTypeInv
  <2>4. TopInv'
    <3>1. \A n \in DOMAIN loops : n < top + 1 => ~TopTaken(n)
      <4> SUFFICES ASSUME NEW n \in DOMAIN loops, n < top + 1 PROVE ~TopTaken(n)
        OBVIOUS
      <4>1. n = top \/ n < top
        BY <1>0
      <4> QED
        BY <2>1, <2>2, <4>1 DEF TopInv
    <3>2. \A n \in DOMAIN loops' : n < top' => ~TopTaken(n)'
      BY <2>1, <3>1, TakenKept
    <3>3. ~Intersects(ls, sought)'
      BY <2>1 DEF Intersects
    <3>4. top' # 1
      BY <1>0, <2>1
    <3> QED
      BY <2>1, <3>2, <3>3, <3>4 DEF TopInv
  <2>5. SubInv' /\ LoopFound'
    BY <2>1 DEF SubInv, LoopFound
  <2> QED
    BY <2>3, <2>4, <2>5
<1>3. CASE EnterTop
  <2>1. /\ stage = "top" /\ top \in DOMAIN loops /\ ls' = ScopeAfter(loops[top]) /\ Intersects(ls', sought)
        /\ found' = <<top>> /\ stage' = "sub" /\ UNCHANGED <<loops, sought, top, sub>>
    BY <1>3 DEF EnterTop, Intersects
  <2>2. ls' \in ScopeRecords /\ TopTaken(top)
    BY <2>1, TopIs
  <2>3. LoopTypeInv'
    BY <2>1, <2>2 DEF LoopTypeInv
  <2>4. sub = 1 /\ \A n \in 1..top - 1 : ~TopTaken(n)
    <3>1. \A n \in 1..top - 1 : n \in DOMAIN loops /\ n < top
      BY <1>0, <2>1
    <3> QED
      BY <2>1, <3>1 DEF TopInv
  <2>5. IsLoopList(loops[top].subs)
    BY <2>1, ListsAtHand
  <2>6. SubInv'
    <3>1. Intersects(ls, sought)'
      BY <2>1 DEF Intersects
    <3>2. sub' \in 1..Len(Subs') + 1 /\ \A n \in DOMAIN Subs' : ~(n < sub')
      BY <2>1, <2>4, <2>5 DEF Subs, IsLoopList
    <3>3. TopTaken(top)' /\ \A n \in 1..top' - 1 : ~TopTaken(n)'
      <4>1. TopTaken(top)' <=> TopTaken(top)
        BY <2>1 DEF TopTaken, Meets
      <4> QED
        BY <2>1, <2>2, <2>4, <4>1, TakenKept
    <3> QED
      BY <2>1, <2>4, <3>1, <3>2, <3>3 DEF SubInv
  <2> QED
    BY <2>1, <2>3, <2>6 DEF TopInv, LoopFound
<1>4. CASE LookAtSub
  <2>1. /\ stage = "sub" /\ sub \in DOMAIN Subs /\ ls' = ScopeAfter(Subs[sub])
        /\ found' = (IF Intersects(ls', sought) THEN <<top, sub>> ELSE found)
        /\ sub' = sub + 1 /\ UNCHANGED <<stage, loops, sought, top>> /\ Subs' = Subs
    BY <1>4 DEF LookAtSub, FoundSub, Intersects, Subs
  <2>2. ls' \in ScopeRecords /\ (Intersects(ls', sought) <=> SubTaken(top, sub))
    BY <2>1, SubIs
  <2>3. /\ top \in DOMAIN loops /\ sub \in Nat /\ sub >= 1 /\ Len(Subs) \in Nat /\ DOMAIN Subs = 1..Len(Subs)
    BY <2>1, ListsAtHand DEF SubInv, Subs, LoopTypeInv, IsLoopList
  <2>4. LoopTypeInv'
    BY <2>1, <2>2, <2>3 DEF LoopTypeInv
  <2>5. \A k \in DOMAIN Subs : k < sub + 1 => k < sub \/ k = sub
    BY <2>3
  <2>6. \/ found' = <<top>> /\ \A n \in DOMAIN Subs : n < sub + 1 => ~SubTaken(top, n)
        \/ \E n \in DOMAIN Subs :
             /\ n < sub + 1 /\ found' = <<top, n>> /\ SubTaken(top, n)
             /\ \A k \in DOMAIN Subs : k > n /\ k < sub + 1 => ~SubTaken(top, k)
    <3>1. CASE SubTaken(top, sub)
      <4>1. found' = <<top, sub>> /\ sub < sub + 1
        BY <2>1, <2>2, <2>3, <3>1
      <4>2. \A k \in DOMAIN Subs : ~(k > sub /\ k < sub + 1)
        BY <2>3
      <4> QED
        BY <2>1, <3>1, <4>1, <4>2
    <3>2. CASE ~SubTaken(top, sub)
      <4>1. found' = found
        BY <2>1, <2>2, <3>2
      <4>2. CASE found = <<top>> /\ \A n \in DOMAIN Subs : n < sub => ~SubTaken(top, n)
        BY <2>5, <3>2, <4>1, <4>2
      <4>3. CASE \E n \in DOMAIN Subs :
                   /\ n < sub /\ found = <<top, n>> /\ SubTaken(top, n)
                   /\ \A k \in DOMAIN Subs : k > n /\ k < sub => ~SubTaken(top, k)
        <5>1. PICK n \in DOMAIN Subs :
                /\ n < sub /\ found = <<top, n>> /\ SubTaken(top, n)
                /\ \A k \in DOMAIN Subs : k > n /\ k < sub => ~SubTaken(top, k)
          BY <4>3
        <5>2. n < sub + 1
          BY <2>3, <5>1
        <5> QED
          BY <2>5, <3>2, <4>1, <5>1, <5>2
      <4> QED
        BY <2>1, <4>2, <4>3 DEF SubInv
    <3> QED
      BY <3>1, <3>2
  <2>7. SubInv'
    <3>1. Intersects(ls, sought)' <=> SubTaken(top, sub)
      BY <2>1, <2>2 DEF Intersects
    <3>2. sub' \in 1..Len(Subs) + 1 /\ sub' - 1 = sub /\ sub' # 1
      BY <2>1, <2>3
    <3>3. TopTaken(top) /\ \A n \in 1..top - 1 : ~TopTaken(n)
      BY <2>1 DEF SubInv
    <3>4. /\ \A n : TopTaken(n)' <=> TopTaken(n)
          /\ \A t, n : SubTaken(t, n)' <=> SubTaken(t, n)
      BY <2>1, TakenKept
    <3>5. TopTaken(top)' <=> TopTaken(top)
      BY <2>1 DEF TopTaken, Meets
    <3>6. SubTaken(top, sub - 1)' <=> SubTaken(top, sub)
      BY <2>1, <3>2 DEF SubTaken, Meets
    <3>7. \A n : SubTaken(top, n)' <=> SubTaken(top, n)
      BY <2>1 DEF SubTaken, Meets
    <3> QED
      BY <2>1, <2>3, <2>6, <3>1, <3>2, <3>3, <3>4, <3>5, <3>6, <3>7 DEF SubInv
  <2> QED
    BY <2>1, <2>4, <2>7 DEF TopInv, LoopFound
<1>5. CASE LoopsEnded
  <2>1. stage' = "returned" /\ UNCHANGED <<loops, sought, ls, found, top, sub>>
    BY <1>5 DEF LoopsEnded
  <2>2. LoopTypeInv'
    BY <2>1 DEF LoopTypeInv
  <2>3. IsLoopSought(found)
    <3>1. CASE stage = "top" /\ top \notin DOMAIN loops
      <4>1. \A n \in DOMAIN loops : n < top
        BY <1>0, <3>1
      <4> QED
        BY <3>1, <4>1 DEF TopInv, IsLoopSought
    <3>2. CASE stage = "sub" /\ sub \notin DOMAIN Subs
      <4>1. top \in DOMAIN loops /\ IsLoopList(Subs)
        BY <3>2, ListsAtHand DEF SubInv, Subs
      <4>2. \A n \in DOMAIN Subs : n < sub
        BY <3>2, <4>1 DEF LoopTypeInv, IsLoopList
      <4> QED
        BY <3>2, <4>1, <4>2 DEF SubInv, Subs, IsLoopSought
    <3> QED
      BY <1>5, <3>1, <3>2 DEF LoopsEnded
  <2>4. LoopFound'
    <3>1. IsLoopSought(found)' <=> IsLoopSought(found)
      BY <2>1 DEF IsLoopSought, TopTaken, SubTaken, Meets
    <3> QED
      BY <2>3, <3>1 DEF LoopFound
  <2> QED
    BY <2>1, <2>2, <2>4 DEF TopInv, SubInv
<1>6. CASE UNCHANGED loopVars
  <2>1. UNCHANGED <<stage, loops, sought, ls, found, top, sub>> /\ Subs' = Subs
    BY <1>6 DEF loopVars, Subs
  <2>2. LoopTypeInv'
    BY <2>1 DEF LoopTypeInv
  <2>3. /\ \A n : TopTaken(n)' <=> TopTaken(n)
        /\ \A n : SubTaken(top, n)' <=> SubTaken(top, n)
        /\ TopTaken(top)' <=> TopTaken(top)
        /\ SubTaken(top, sub - 1)' <=> SubTaken(top, sub - 1)
        /\ Intersects(ls, sought)' <=> Intersects(ls, sought)
    BY <2>1 DEF TopTaken, SubTaken, Meets, Intersects
  <2>4. TopInv'
    BY <2>1, <2>3 DEF TopInv
  <2>5. SubInv'
    BY <2>1, <2>3 DEF SubInv
  <2>6. LoopFound'
    <3>1. IsLoopSought(found)' <=> IsLoopSought(found)
      BY <2>1 DEF IsLoopSought, TopTaken, SubTaken, Meets
    <3> QED
      BY <2>1, <3>1 DEF LoopFound
  <2> QED
    BY <2>2, <2>4, <2>5, <2>6
<1> QED
  BY <1>1, <1>2, <1>3, <1>4, <1>5, <1>6 DEF LoopNext, Returned

\* matchLoop finds the loop it describes, for all loops and all scopes
\* (Matcher.cpp:437).
THEOREM LoopAlwaysFound == LoopSpec => []LoopFound
<1>1. LoopInv => LoopFound
  BY DEF LoopInv
<1> QED
  BY <1>1, LoopInitHolds, LoopNextHolds, PTL DEF LoopSpec
==============================================================================
