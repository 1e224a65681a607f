--------------------------- MODULE HunkReduceProofs ---------------------------
(***************************************************************************)
(* Proofs about HunkReduce for every set of hunks: no unsigned counter     *)
(* wraps, the asserts of reduce never fire, the line cursors are exact     *)
(* between chunks, the Mods are exactly what the control sequence changes, *)
(* and reduce and merge walk the edit script the hunk stands for.          *)
(*                                                                         *)
(* For the Mods, each line the walk has passed is in exactly the Mods that *)
(* change it; the part of the sequence behind the open chunk and behind    *)
(* the cursors of a running merge is covered, and nothing beyond.          *)
(***************************************************************************)
EXTENDS HunkReduce, FiniteSetTheorems, SequenceTheorems, WellFoundedInduction, TLAPS

-----------------------------------------------------------------------------
(***************************************************************************)
(* A nonempty set of naturals has a least element, from the library's      *)
(* well-foundedness of < on Nat.                                           *)
(***************************************************************************)
Less == {p \in Nat \X Nat : p[1] < p[2]}

LEMMA LeastNatural ==
  ASSUME NEW T, T \subseteq Nat, T # {}
  PROVE  \E m \in T : \A n \in T : m <= n
<1>1. IsWellFoundedOn(Less, Nat)
  <2>1. OpToRel(<, Nat) = Less
    BY Zenon DEF OpToRel, Less
  <2> QED
    BY <2>1, NatLessThanWellFounded, Zenon
<1>2. PICK m \in T : \A n \in T : ~(<<n, m>> \in Less)
  BY <1>1, WFMin
<1>3. ASSUME NEW n \in T PROVE m <= n
  <2>1. m \in Nat /\ n \in Nat /\ ~(<<n, m>> \in Less)
    BY <1>2
  <2> QED
    BY <2>1 DEF Less
<1> QED
  BY <1>3

-----------------------------------------------------------------------------
(***************************************************************************)
(* Counting the positions of a sequence that hold one of some characters.  *)
(***************************************************************************)
LEMMA CharCountType ==
  ASSUME NEW s, NEW chars, NEW n \in Nat
  PROVE  /\ IsFiniteSet({p \in 1..n : s[p] \in chars})
         /\ CharCount(s, chars, n) \in 0..n
<1> DEFINE S == {p \in 1..n : s[p] \in chars}
<1>1. IsFiniteSet(1..n) /\ Cardinality(1..n) = n
  BY FS_Interval
<1>2. S \in SUBSET (1..n) OBVIOUS
<1>3. IsFiniteSet(S) /\ Cardinality(S) <= n
  BY <1>1, <1>2, FS_Subset
<1>4. Cardinality(S) \in Nat BY <1>3, FS_CardinalityType
<1> QED BY <1>3, <1>4 DEF CharCount

LEMMA CharCountStep ==
  ASSUME NEW s, NEW chars, NEW n \in Nat
  PROVE  CharCount(s, chars, n + 1)
           = CharCount(s, chars, n) + (IF s[n + 1] \in chars THEN 1 ELSE 0)
<1> DEFINE S(m) == {p \in 1..m : s[p] \in chars}
<1>1. IsFiniteSet(S(n)) /\ Cardinality(S(n)) \in Nat
  BY CharCountType DEF CharCount
<1>2. 1..(n + 1) = (1..n) \cup {n + 1} OBVIOUS
<1>3. n + 1 \notin S(n) OBVIOUS
<1>4. CASE s[n + 1] \in chars
  <2>1. S(n + 1) = S(n) \cup {n + 1} BY <1>2, <1>4
  <2> QED BY <2>1, <1>1, <1>3, <1>4, FS_AddElement DEF CharCount
<1>5. CASE s[n + 1] \notin chars
  <2>1. S(n + 1) = S(n) BY <1>2, <1>5
  <2> QED BY <2>1, <1>1, <1>5 DEF CharCount
<1> QED BY <1>4, <1>5

LEMMA CharCountEmpty ==
  ASSUME NEW s, NEW chars
  PROVE  CharCount(s, chars, 0) = 0
<1>1. {p \in 1..0 : s[p] \in chars} = {} OBVIOUS
<1> QED BY <1>1, FS_EmptySet DEF CharCount

\* The buffer grows at its end: what was counted stays counted.
LEMMA CharCountAppend ==
  ASSUME NEW A, NEW s \in Seq(A), NEW c \in A, NEW chars
  PROVE  CharCount(Append(s, c), chars, Len(s) + 1)
           = CharCount(s, chars, Len(s)) + (IF c \in chars THEN 1 ELSE 0)
<1> DEFINE t == Append(s, c)
<1>1. Len(s) \in Nat /\ t[Len(s) + 1] = c OBVIOUS
<1>2. \A p \in 1..Len(s) : t[p] = s[p] OBVIOUS
<1>3. {p \in 1..Len(s) : t[p] \in chars} = {p \in 1..Len(s) : s[p] \in chars}
  BY <1>2
<1>4. CharCount(t, chars, Len(s)) = CharCount(s, chars, Len(s))
  BY <1>3 DEF CharCount
<1>5. CharCount(t, chars, Len(s) + 1)
        = CharCount(t, chars, Len(s)) + (IF t[Len(s) + 1] \in chars THEN 1 ELSE 0)
  BY <1>1, CharCountStep
<1> QED BY <1>1, <1>4, <1>5

\* Overwriting one position moves it between the counted sets.
LEMMA CharCountExcept ==
  ASSUME NEW A, NEW s \in Seq(A), NEW j \in 1..Len(s), NEW c \in A, NEW chars
  PROVE  CharCount([s EXCEPT ![j] = c], chars, Len(s))
           = CharCount(s, chars, Len(s))
             - (IF s[j] \in chars THEN 1 ELSE 0) + (IF c \in chars THEN 1 ELSE 0)
<1> DEFINE t == [s EXCEPT ![j] = c]
           S == {p \in 1..Len(s) : s[p] \in chars}
           T == {p \in 1..Len(s) : t[p] \in chars}
<1>0. Len(s) \in Nat OBVIOUS
<1>1. IsFiniteSet(S) /\ Cardinality(S) \in Nat
  BY <1>0, CharCountType, FS_CardinalityType
<1>2. t[j] = c /\ \A p \in 1..Len(s) : p # j => t[p] = s[p] OBVIOUS
<1>3. j \in S <=> s[j] \in chars OBVIOUS
<1>4. CASE c \in chars
  <2>1. T = (S \ {j}) \cup {j} BY <1>2, <1>4
  <2> HIDE DEF S, T
  <2>2. IsFiniteSet(S \ {j})
        /\ Cardinality(S \ {j}) = IF j \in S THEN Cardinality(S) - 1 ELSE Cardinality(S)
    BY <1>1, FS_RemoveElement
  <2>3. Cardinality(T) = Cardinality(S \ {j}) + 1 BY <2>1, <2>2, FS_AddElement
  <2>4. Cardinality(T) = Cardinality(S) - (IF s[j] \in chars THEN 1 ELSE 0) + 1
    BY <1>1, <1>3, <2>2, <2>3
  <2> QED BY <2>4, <1>4 DEF CharCount, S, T
<1>5. CASE c \notin chars
  <2>1. T = S \ {j} BY <1>2, <1>5
  <2> HIDE DEF S, T
  <2>2. Cardinality(S \ {j}) = IF j \in S THEN Cardinality(S) - 1 ELSE Cardinality(S)
    BY <1>1, FS_RemoveElement
  <2>3. Cardinality(T) = Cardinality(S) - (IF s[j] \in chars THEN 1 ELSE 0) + 0
    BY <1>1, <1>3, <2>1, <2>2
  <2> QED BY <2>3, <1>5 DEF CharCount, S, T
<1> QED BY <1>4, <1>5

\* A positive count has a first position.
LEMMA CharCountFirst ==
  ASSUME NEW A, NEW s \in Seq(A), CharCount(s, {DELC}, Len(s)) # 0
  PROVE  /\ FirstDel(s) \in 1..Len(s)
         /\ s[FirstDel(s)] = DELC
<1> DEFINE S == {p \in 1..Len(s) : s[p] \in {DELC}}
<1>1. S # {} BY FS_EmptySet DEF CharCount
<1>2. S \subseteq Nat OBVIOUS
<1>3. PICK m \in S : \A k \in S : m <= k BY <1>1, <1>2, LeastNatural
<1>4. DOMAIN s = 1..Len(s) /\ Len(s) \in Nat OBVIOUS
<1>5. \A k \in 1..(m - 1) : s[k] # DELC BY <1>3, <1>4
<1>6. m \in DOMAIN s /\ s[m] = DELC BY <1>4
<1> QED BY <1>4, <1>5, <1>6 DEF FirstDel

-----------------------------------------------------------------------------
(***************************************************************************)
(* The inductive invariant.  While a chunk is open its lines are not in    *)
(* the cursors yet but in buf: the cursors and the buffer together account *)
(* for every character consumed.  A running merge has moved its own        *)
(* cursors over the first mg.k - 1 characters of the buffer.               *)
(***************************************************************************)
OpenOld == IF ChunkOpen THEN BufCount({DELC, REPC}) ELSE 0
OpenNew == IF ChunkOpen THEN BufCount({ADDC, REPC}) ELSE 0

EntryInv == pc = "entry" => i = 0 /\ buf = <<>>

DelCntInv == del_cnt = BufCount({DELC})

LinesInv ==
  pc \in {"scan", "merge"} =>
    /\ hunk.start_line # 0
    /\ line + OpenOld = OldLine(i)
    /\ repline + OpenNew = NewLine(i)

BufferInv ==
  /\ pc \in {"scan", "merge"} /\ i > 0 /\ seq[i] # SAMC => Len(buf) > 0
  /\ pc = "scan" /\ ~ChunkOpen /\ i < Len(seq) /\ seq[i + 1] # SAMC => buf = <<>>

MergeInv ==
  pc = "merge" =>
    /\ i > 0 /\ seq[i] # SAMC /\ ChunkEndsAt(i)
    /\ mg.k <= Len(buf) + 1
    /\ mg.end = line + CharCount(buf, {DELC, REPC}, mg.k - 1)
    /\ mg.rep_end = repline + CharCount(buf, {ADDC, REPC}, mg.k - 1)

IInv == TypeOK /\ EntryInv /\ DelCntInv /\ LinesInv /\ BufferInv /\ MergeInv

-----------------------------------------------------------------------------
(***************************************************************************)
(* Facts about a hunk that every step uses.                                *)
(***************************************************************************)
LEMMA HunkFacts ==
  ASSUME hunk \in Hunks
  PROVE  /\ hunk.start_line \in Nat
         /\ hunk.rep_start_line \in Nat \ {0}
         /\ seq \in Seq(STRING)
         /\ Len(seq) \in Nat
         /\ UintMax \in Nat
         /\ hunk.start_line + Len(seq) <= UintMax
         /\ hunk.rep_start_line + Len(seq) <= UintMax
BY HunksAssumption DEF seq

\* The lines of a position stay in the range of an unsigned.
LEMMA LineBounds ==
  ASSUME hunk \in Hunks, hunk.start_line # 0, NEW n \in 0..Len(seq)
  PROVE  OldLine(n) \in 0..(UintMax - 1) /\ NewLine(n) \in 0..(UintMax - 1)
<1>0. Len(seq) \in Nat BY HunkFacts
<1>1. n \in Nat /\ n <= Len(seq) BY <1>0
<1>2. Count({SAMC, DELC}, n) \in 0..n BY <1>1, CharCountType DEF Count
<1>3. Count({SAMC, ADDC}, n) \in 0..n BY <1>1, CharCountType DEF Count
<1>4. OldLine(n) \in 0..(UintMax - 1) BY <1>1, <1>2, HunkFacts, SMTT(30) DEF OldLine
<1>5. NewLine(n) \in 0..(UintMax - 1) BY <1>1, <1>3, HunkFacts DEF NewLine
<1> QED BY <1>4, <1>5

\* One more character consumed.
LEMMA LineStep ==
  ASSUME hunk \in Hunks, NEW n \in Nat
  PROVE  /\ OldLine(n) \in Int /\ NewLine(n) \in Int
         /\ seq[n + 1] \in {SAMC, DELC} => OldLine(n + 1) = OldLine(n) + 1
         /\ seq[n + 1] \notin {SAMC, DELC} => OldLine(n + 1) = OldLine(n)
         /\ seq[n + 1] \in {SAMC, ADDC} => NewLine(n + 1) = NewLine(n) + 1
         /\ seq[n + 1] \notin {SAMC, ADDC} => NewLine(n + 1) = NewLine(n)
<1>1. Count({SAMC, DELC}, n) \in Int
  <2>1. Count({SAMC, DELC}, n) \in 0..n BY CharCountType DEF Count
  <2> QED BY <2>1
<1>2. Count({SAMC, ADDC}, n) \in Int
  <2>1. Count({SAMC, ADDC}, n) \in 0..n BY CharCountType DEF Count
  <2> QED BY <2>1
<1>3. Count({SAMC, DELC}, n + 1)
        = Count({SAMC, DELC}, n) + (IF seq[n + 1] \in {SAMC, DELC} THEN 1 ELSE 0)
  BY CharCountStep DEF Count
<1>4. Count({SAMC, ADDC}, n + 1)
        = Count({SAMC, ADDC}, n) + (IF seq[n + 1] \in {SAMC, ADDC} THEN 1 ELSE 0)
  BY CharCountStep DEF Count
<1>5. OldLine(n) \in Int /\ NewLine(n) \in Int BY <1>1, <1>2, HunkFacts, SMTT(30) DEF OldLine, NewLine
<1>6. OldLine(n + 1) = OldLine(n) + (IF seq[n + 1] \in {SAMC, DELC} THEN 1 ELSE 0)
  <2> DEFINE d == IF seq[n + 1] \in {SAMC, DELC} THEN 1 ELSE 0
             x == Count({SAMC, DELC}, n)
             y == Count({SAMC, DELC}, n + 1)
  <2>1. d \in Int /\ x \in Int /\ y = x + d BY <1>1, <1>3
  <2> HIDE DEF d, x, y
  <2>2. hunk.start_line - 1 + y = hunk.start_line - 1 + x + d BY <2>1, HunkFacts
  <2> QED BY <2>2 DEF OldLine, d, x, y
<1>7. NewLine(n + 1) = NewLine(n) + (IF seq[n + 1] \in {SAMC, ADDC} THEN 1 ELSE 0)
  <2> DEFINE d == IF seq[n + 1] \in {SAMC, ADDC} THEN 1 ELSE 0
             x == Count({SAMC, ADDC}, n)
             y == Count({SAMC, ADDC}, n + 1)
  <2>1. d \in Int /\ x \in Int /\ y = x + d BY <1>2, <1>4
  <2> HIDE DEF d, x, y
  <2>2. hunk.rep_start_line - 1 + y = hunk.rep_start_line - 1 + x + d BY <2>1, HunkFacts
  <2> QED BY <2>2 DEF NewLine, d, x, y
<1>8. CASE seq[n + 1] \in {SAMC, DELC} /\ seq[n + 1] \in {SAMC, ADDC}
  BY <1>5, <1>6, <1>7, <1>8
<1>9. CASE seq[n + 1] \in {SAMC, DELC} /\ seq[n + 1] \notin {SAMC, ADDC}
  BY <1>5, <1>6, <1>7, <1>9
<1>10. CASE seq[n + 1] \notin {SAMC, DELC} /\ seq[n + 1] \in {SAMC, ADDC}
  BY <1>5, <1>6, <1>7, <1>10
<1>11. CASE seq[n + 1] \notin {SAMC, DELC} /\ seq[n + 1] \notin {SAMC, ADDC}
  BY <1>5, <1>6, <1>7, <1>11
<1> QED BY <1>8, <1>9, <1>10, <1>11

\* The lines of a position depend on the hunk only.
LEMMA LineUnchanged ==
  ASSUME hunk' = hunk
  PROVE  /\ seq' = seq
         /\ \A n : OldLine(n)' = OldLine(n) /\ NewLine(n)' = NewLine(n)
         /\ \A n : ChunkEndsAt(n)' = ChunkEndsAt(n)
BY DEF seq, OldLine, NewLine, Count, ChunkEndsAt

LEMMA BufFacts ==
  ASSUME buf \in Seq({ADDC, DELC, REPC}), NEW chars
  PROVE  Len(buf) \in Nat /\ BufCount(chars) \in 0..Len(buf)
<1>1. Len(buf) \in Nat OBVIOUS
<1> QED BY <1>1, CharCountType DEF BufCount

-----------------------------------------------------------------------------
LEMMA InitIInv == Init => IInv
<1> SUFFICES ASSUME Init PROVE IInv OBVIOUS
<1> USE DEF Init
<1>1. TypeOK
  <2>1. NoMerge \in MergeLocals BY DEF NoMerge, MergeLocals
  <2>2. Scope(0, 0) \in ScopeSet BY DEF Scope, ScopeSet
  <2> QED BY <2>1, <2>2, HunkFacts DEF TypeOK
<1>2. DelCntInv
  <2>1. Len(buf) = 0 OBVIOUS
  <2> QED BY <2>1, CharCountEmpty DEF DelCntInv, BufCount
<1> QED BY <1>1, <1>2 DEF IInv, EntryInv, LinesInv, BufferInv, MergeInv

LEMMA EnterStep ==
  ASSUME IInv, Enter
  PROVE  IInv'
<1> USE DEF Enter, Rejected
<1>0. hunk \in Hunks /\ i = 0 /\ buf = <<>> BY DEF IInv, TypeOK, EntryInv
<1>1. seq' = seq /\ OldLine(i)' = OldLine(i) /\ NewLine(i)' = NewLine(i) /\ i' = i
  BY LineUnchanged DEF OldLine, NewLine, Count
<1>2. OldLine(0) = hunk.start_line - 1 /\ NewLine(0) = hunk.rep_start_line - 1
  <2>1. Count({SAMC, DELC}, 0) = 0 /\ Count({SAMC, ADDC}, 0) = 0
    BY CharCountEmpty DEF Count
  <2> QED BY <1>0, <2>1, HunkFacts DEF OldLine, NewLine
<1>3. ~ChunkOpen' BY <1>0, <1>1 DEF ChunkOpen
<1>4. TypeOK'
  <2>1. line' \in 0..UintMax /\ repline' \in 0..UintMax BY <1>0, HunkFacts, SMTT(30)
  <2> QED BY <2>1, <1>1 DEF IInv, TypeOK
<1>5. LinesInv' BY <1>0, <1>1, <1>2, <1>3, HunkFacts DEF LinesInv, OpenOld, OpenNew
<1>6. DelCntInv' BY DEF IInv, DelCntInv, BufCount
<1> QED BY <1>0, <1>1, <1>4, <1>5, <1>6 DEF IInv, EntryInv, BufferInv, MergeInv

LEMMA SameStep ==
  ASSUME IInv, Same
  PROVE  IInv'
<1> USE DEF Same, Reads, CountAfterSame, ChunkBeginsAfter
<1>0. /\ hunk \in Hunks /\ i \in Nat /\ Len(seq) \in Nat /\ hunk.start_line # 0
      /\ line \in Nat /\ repline \in Nat
  BY HunkFacts DEF IInv, TypeOK, LinesInv
<1>1. ~ChunkOpen BY DEF ChunkOpen, ChunkEndsAt
<1>2. line = OldLine(i) /\ repline = NewLine(i)
  BY <1>0, <1>1 DEF IInv, LinesInv, OpenOld, OpenNew
<1>3. OldLine(i + 1) = OldLine(i) + 1 /\ NewLine(i + 1) = NewLine(i) + 1
  <2>1. seq[i + 1] \in {SAMC, DELC} /\ seq[i + 1] \in {SAMC, ADDC} OBVIOUS
  <2> QED BY <2>1, <1>0, LineStep
<1>4. line' = OldLine(i + 1) /\ repline' = NewLine(i + 1)
  BY <1>2, <1>3
<1>5. seq' = seq /\ OldLine(i)' = OldLine(i + 1) /\ NewLine(i)' = NewLine(i + 1)
      /\ ChunkEndsAt(i)' = ChunkEndsAt(i + 1)
  BY DEF seq, OldLine, NewLine, Count, ChunkEndsAt
<1>6. ~ChunkOpen' BY <1>5, <1>0 DEF ChunkOpen
<1>7. TypeOK'
  <2>1. i + 1 \in 0..Len(seq) BY <1>0
  <2>2. line' \in 0..UintMax /\ repline' \in 0..UintMax
    BY <2>1, <1>4, <1>0, LineBounds, HunkFacts, SMTT(30)
  <2>3. buf \in Seq({ADDC, DELC, REPC}) /\ del_cnt \in Nat BY DEF IInv, TypeOK
  <2>4. buf' \in Seq({ADDC, DELC, REPC}) /\ del_cnt' \in Nat
    <3>1. CASE ChunkBeginsAfter(i + 1)
      <4>1. buf' = <<>> BY <3>1
      <4>2. del_cnt' = 0 BY <3>1
      <4>3. <<>> \in Seq({ADDC, DELC, REPC}) BY ONLY EmptySeq
      <4> QED BY ONLY <4>1, <4>2, <4>3
    <3>2. CASE ~(ChunkBeginsAfter(i + 1))
      <4>1. buf' = buf /\ del_cnt' = del_cnt BY <3>2
      <4> QED BY ONLY <4>1, <2>3
    <3> QED BY <3>1, <3>2
  <2> QED BY <2>1, <2>2, <2>4, <1>5 DEF IInv, TypeOK
<1>8. DelCntInv'
  <2>1. CASE ChunkBeginsAfter(i + 1)
    <3>1. buf' = <<>> /\ del_cnt' = 0 /\ Len(buf') = 0 BY <2>1
    <3> QED BY <3>1, CharCountEmpty DEF DelCntInv, BufCount
  <2>2. CASE ~(ChunkBeginsAfter(i + 1))
    <3>1. buf' = buf /\ del_cnt' = del_cnt BY <2>2
    <3> QED BY <3>1 DEF IInv, DelCntInv, BufCount
  <2> QED BY <2>1, <2>2
<1>9. LinesInv' BY <1>0, <1>4, <1>5, <1>6 DEF LinesInv, OpenOld, OpenNew
<1>10. BufferInv'
  <2>1. (i + 1) + 1 = i + 2 BY <1>0
  <2>2. seq'[i'] = SAMC BY <1>5
  <2> QED BY <1>5, <2>1, <2>2 DEF BufferInv
<1>11. EntryInv' /\ MergeInv' BY DEF EntryInv, MergeInv
<1> QED BY <1>7, <1>8, <1>9, <1>10, <1>11 DEF IInv

-----------------------------------------------------------------------------
\* Before a '+' or '-', the cursors and the buffer account for the script so
\* far: either the chunk is open, or it begins here and the buffer is empty.
LEMMA ChunkAccount ==
  ASSUME IInv, pc = "scan", i < Len(seq), seq[i + 1] # SAMC
  PROVE  /\ line + BufCount({DELC, REPC}) = OldLine(i)
         /\ repline + BufCount({ADDC, REPC}) = NewLine(i)
<1>1. CASE ChunkOpen BY <1>1 DEF IInv, LinesInv, OpenOld, OpenNew
<1>2. CASE ~ChunkOpen
  <2>1. buf = <<>> /\ Len(buf) = 0 BY <1>2 DEF IInv, BufferInv
  <2>2. BufCount({DELC, REPC}) = 0 /\ BufCount({ADDC, REPC}) = 0
    BY <2>1, CharCountEmpty DEF BufCount
  <2> QED BY <1>2, <2>2 DEF IInv, LinesInv, OpenOld, OpenNew
<1> QED BY <1>1, <1>2

(***************************************************************************)
(* What AddPlain, AddReplace and Del share: one more character of a chunk, *)
(* its line put in the buffer, and merge called if the chunk ends.         *)
(***************************************************************************)
LEMMA ChunkCharStep ==
  ASSUME IInv, pc = "scan", i < Len(seq), seq[i + 1] \in {ADDC, DELC},
         i' = i + 1, MergeIfChunkEnds,
         UNCHANGED <<hunk, line, repline, mods, enclosing, ret>>,
         buf' \in Seq({ADDC, DELC, REPC}), Len(buf') > 0,
         del_cnt' \in Nat, del_cnt' = BufCount({DELC})',
         seq[i + 1] = DELC =>
           /\ BufCount({DELC, REPC})' = BufCount({DELC, REPC}) + 1
           /\ BufCount({ADDC, REPC})' = BufCount({ADDC, REPC}),
         seq[i + 1] = ADDC =>
           /\ BufCount({DELC, REPC})' = BufCount({DELC, REPC})
           /\ BufCount({ADDC, REPC})' = BufCount({ADDC, REPC}) + 1
  PROVE  IInv'
<1>0. /\ hunk \in Hunks /\ i \in Nat /\ Len(seq) \in Nat /\ hunk.start_line # 0
      /\ line \in Nat /\ repline \in Nat
  BY HunkFacts DEF IInv, TypeOK, LinesInv
<1>1. /\ line + BufCount({DELC, REPC}) = OldLine(i)
      /\ repline + BufCount({ADDC, REPC}) = NewLine(i)
  BY ChunkAccount DEF SAMC, ADDC, DELC
<1>2. BufCount({DELC, REPC}) \in Nat /\ BufCount({ADDC, REPC}) \in Nat
  <2>1. buf \in Seq({ADDC, DELC, REPC}) BY DEF IInv, TypeOK
  <2>2. Len(buf) \in Nat /\ BufCount({DELC, REPC}) \in 0..Len(buf) BY <2>1, BufFacts
  <2>3. BufCount({ADDC, REPC}) \in 0..Len(buf) BY <2>1, BufFacts
  <2> QED BY <2>2, <2>3
<1>3. /\ line + BufCount({DELC, REPC})' = OldLine(i + 1)
      /\ repline + BufCount({ADDC, REPC})' = NewLine(i + 1)
  <2>1. CASE seq[i + 1] = DELC
    <3>1. seq[i + 1] \in {SAMC, DELC} /\ seq[i + 1] \notin {SAMC, ADDC}
      BY <2>1 DEF SAMC, ADDC, DELC
    <3>2. OldLine(i + 1) = OldLine(i) + 1 /\ NewLine(i + 1) = NewLine(i)
      BY <3>1, <1>0, LineStep
    <3> QED BY <3>2, <2>1, <1>0, <1>1, <1>2
  <2>2. CASE seq[i + 1] = ADDC
    <3>1. seq[i + 1] \notin {SAMC, DELC} /\ seq[i + 1] \in {SAMC, ADDC}
      BY <2>2 DEF SAMC, ADDC, DELC
    <3>2. NewLine(i + 1) = NewLine(i) + 1 /\ OldLine(i + 1) = OldLine(i)
      BY <3>1, <1>0, LineStep
    <3> QED BY <3>2, <2>2, <1>0, <1>1, <1>2
  <2> QED BY <2>1, <2>2
<1>4. seq' = seq /\ OldLine(i)' = OldLine(i + 1) /\ NewLine(i)' = NewLine(i + 1)
      /\ ChunkEndsAt(i)' = ChunkEndsAt(i + 1)
  BY DEF seq, OldLine, NewLine, Count, ChunkEndsAt
<1>5. i' > 0 /\ seq'[i'] # SAMC BY <1>0, <1>4 DEF SAMC, ADDC, DELC
<1>6. \/ /\ pc' = "merge" /\ ChunkEndsAt(i)'
         /\ mg' = [k |-> 1, start |-> 0, end |-> line, rep_start |-> 0,
                   rep_end |-> repline, newregion |-> TRUE]
      \/ pc' = "scan" /\ ~ChunkEndsAt(i)' /\ mg' = mg
  BY <1>4 DEF MergeIfChunkEnds, MergeCall
<1>7. ChunkOpen' BY <1>5, <1>6 DEF ChunkOpen
<1>8. TypeOK'
  <2>1. mg' \in MergeLocals
    <3>1. mg' = mg \/ mg' = [k |-> 1, start |-> 0, end |-> line, rep_start |-> 0,
                             rep_end |-> repline, newregion |-> TRUE]
      BY <1>6
    <3>2. mg \in MergeLocals BY DEF IInv, TypeOK
    <3>3. CASE mg' = mg BY <3>2, <3>3
    <3>4. CASE mg' # mg
      <4>1. [k |-> 1, start |-> 0, end |-> line, rep_start |-> 0,
             rep_end |-> repline, newregion |-> TRUE] \in MergeLocals
        BY <1>0 DEF MergeLocals
      <4> QED BY <3>1, <3>4, <4>1
    <3> QED BY <3>3, <3>4
  <2>2. i' \in 0..Len(seq') BY <1>0, <1>4
  <2>3. pc' \in {"scan", "merge"} BY <1>6
  <2> QED BY <2>1, <2>2, <2>3 DEF IInv, TypeOK
<1>9. LinesInv'
  BY <1>0, <1>3, <1>4, <1>7 DEF LinesInv, OpenOld, OpenNew
<1>10. MergeInv'
  <2>1. SUFFICES ASSUME pc' = "merge" PROVE MergeInv' BY DEF MergeInv
  <2>2. CharCount(buf', {DELC, REPC}, 0) = 0 /\ CharCount(buf', {ADDC, REPC}, 0) = 0
    BY CharCountEmpty
  <2>3. mg'.k - 1 = 0 /\ mg'.k = 1 /\ mg'.end = line /\ mg'.rep_end = repline
    BY <2>1, <1>6
  <2>4. Len(buf') \in Nat OBVIOUS
  <2> QED BY <1>0, <1>5, <1>6, <2>1, <2>2, <2>3, <2>4 DEF MergeInv
<1>11. BufferInv' BY <1>7 DEF BufferInv
<1>12. EntryInv' /\ DelCntInv' BY <1>6 DEF EntryInv, DelCntInv
<1> QED BY <1>8, <1>9, <1>10, <1>11, <1>12 DEF IInv

\* A character appended to the buffer.
LEMMA BufAppend ==
  ASSUME buf \in Seq({ADDC, DELC, REPC}), NEW c \in {ADDC, DELC, REPC}, buf' = Append(buf, c)
  PROVE  /\ buf' \in Seq({ADDC, DELC, REPC})
         /\ Len(buf') = Len(buf) + 1
         /\ Len(buf') > 0
         /\ \A chars : BufCount(chars)' = BufCount(chars) + (IF c \in chars THEN 1 ELSE 0)
<1>1. buf' \in Seq({ADDC, DELC, REPC}) /\ Len(buf') = Len(buf) + 1 /\ Len(buf) \in Nat
  OBVIOUS
<1>2. ASSUME NEW chars
      PROVE  BufCount(chars)' = BufCount(chars) + (IF c \in chars THEN 1 ELSE 0)
  BY <1>1, CharCountAppend DEF BufCount
<1>3. Len(buf') > 0 BY <1>1
<1> QED BY <1>1, <1>2, <1>3

LEMMA AddPlainStep ==
  ASSUME IInv, AddPlain
  PROVE  IInv'
<1> USE DEF AddPlain, Reads, LooksBack
<1>1. buf \in Seq({ADDC, DELC, REPC}) /\ del_cnt \in Nat /\ del_cnt = BufCount({DELC})
  BY DEF IInv, TypeOK, DelCntInv
<1>2. /\ buf' \in Seq({ADDC, DELC, REPC})
      /\ Len(buf') > 0
      /\ \A chars : BufCount(chars)' = BufCount(chars) + (IF ADDC \in chars THEN 1 ELSE 0)
  BY <1>1, BufAppend
<1>3. ADDC \notin {DELC} /\ ADDC \notin {DELC, REPC} /\ ADDC \in {ADDC, REPC}
  BY DEF ADDC, DELC, REPC
<1>4. \A chars : BufCount(chars) \in Int
  BY <1>1, BufFacts
<1>5. BufCount({DELC})' = BufCount({DELC}) BY <1>2, <1>3, <1>4
<1>6. BufCount({DELC, REPC})' = BufCount({DELC, REPC}) BY <1>2, <1>3, <1>4
<1>7. BufCount({ADDC, REPC})' = BufCount({ADDC, REPC}) + 1 BY <1>2, <1>3, <1>4
<1> QED BY <1>1, <1>2, <1>5, <1>6, <1>7, ChunkCharStep DEF ADDC, DELC

LEMMA DelStep ==
  ASSUME IInv, Del
  PROVE  IInv'
<1> USE DEF Del, Reads
<1>1. buf \in Seq({ADDC, DELC, REPC}) /\ del_cnt \in Nat /\ del_cnt = BufCount({DELC})
  BY DEF IInv, TypeOK, DelCntInv
<1>2. /\ buf' \in Seq({ADDC, DELC, REPC})
      /\ Len(buf') > 0
      /\ \A chars : BufCount(chars)' = BufCount(chars) + (IF DELC \in chars THEN 1 ELSE 0)
  BY <1>1, BufAppend
<1>3. DELC \in {DELC} /\ DELC \in {DELC, REPC} /\ DELC \notin {ADDC, REPC}
  BY DEF ADDC, DELC, REPC
<1>4. \A chars : BufCount(chars) \in Int
  BY <1>1, BufFacts
<1>5. BufCount({DELC})' = BufCount({DELC}) + 1 BY <1>2, <1>3, <1>4
<1>6. BufCount({DELC, REPC})' = BufCount({DELC, REPC}) + 1 BY <1>2, <1>3, <1>4
<1>7. BufCount({ADDC, REPC})' = BufCount({ADDC, REPC}) BY <1>2, <1>3, <1>4
<1> QED BY <1>1, <1>2, <1>5, <1>6, <1>7, ChunkCharStep DEF ADDC, DELC

LEMMA AddReplaceStep ==
  ASSUME IInv, AddReplace
  PROVE  IInv'
<1> USE DEF AddReplace, Reads, LooksBack
<1> DEFINE j == FirstDel(buf)
<1>1. buf \in Seq({ADDC, DELC, REPC}) /\ del_cnt \in Nat /\ del_cnt = BufCount({DELC})
  BY DEF IInv, TypeOK, DelCntInv
<1>2. j \in 1..Len(buf) /\ buf[j] = DELC
  BY <1>1, CharCountFirst DEF BufCount
<1> HIDE DEF j
<1>3. buf' = [buf EXCEPT ![j] = REPC] BY DEF j
<1>4. buf' \in Seq({ADDC, DELC, REPC}) /\ Len(buf') = Len(buf) /\ Len(buf') > 0
  <2>1. REPC \in {ADDC, DELC, REPC} OBVIOUS
  <2>2. buf' \in Seq({ADDC, DELC, REPC}) /\ Len(buf') = Len(buf)
    <3>1. /\ [buf EXCEPT ![j] = REPC] \in Seq({ADDC, DELC, REPC})
          /\ Len([buf EXCEPT ![j] = REPC]) = Len(buf)
      BY ONLY <2>1, <1>1, <1>2, ExceptSeq
    <3> QED BY ONLY <3>1, <1>3
  <2>3. Len(buf) > 0 BY <1>1, <1>2
  <2> QED BY <2>2, <2>3
<1>5. ASSUME NEW chars
      PROVE  BufCount(chars)' = BufCount(chars)
               - (IF DELC \in chars THEN 1 ELSE 0) + (IF REPC \in chars THEN 1 ELSE 0)
  <2>1. REPC \in {ADDC, DELC, REPC} OBVIOUS
  <2>2. CharCount(buf', chars, Len(buf)) = CharCount(buf, chars, Len(buf))
          - (IF DELC \in chars THEN 1 ELSE 0) + (IF REPC \in chars THEN 1 ELSE 0)
    <3>1. CharCount([buf EXCEPT ![j] = REPC], chars, Len(buf))
            = CharCount(buf, chars, Len(buf))
              - (IF buf[j] \in chars THEN 1 ELSE 0) + (IF REPC \in chars THEN 1 ELSE 0)
      BY ONLY <2>1, <1>1, <1>2, CharCountExcept, ZenonT(30)
    <3>2. (IF buf[j] \in chars THEN 1 ELSE 0) = (IF DELC \in chars THEN 1 ELSE 0)
      BY ONLY <1>2
    <3> QED BY ONLY <3>1, <3>2, <1>3
  <2> QED BY <2>2, <1>4 DEF BufCount
<1>6. \A chars : BufCount(chars) \in Int
  BY <1>1, BufFacts
<1>7. /\ DELC \in {DELC} /\ REPC \notin {DELC}
      /\ DELC \in {DELC, REPC} /\ REPC \in {DELC, REPC}
      /\ DELC \notin {ADDC, REPC} /\ REPC \in {ADDC, REPC}
  BY DEF ADDC, DELC, REPC
<1>8. BufCount({DELC})' = BufCount({DELC}) - 1 BY <1>5, <1>6, <1>7
<1>9. BufCount({DELC, REPC})' = BufCount({DELC, REPC}) BY <1>5, <1>6, <1>7
<1>10. BufCount({ADDC, REPC})' = BufCount({ADDC, REPC}) + 1 BY <1>5, <1>6, <1>7
<1>11. del_cnt' \in Nat /\ del_cnt' = BufCount({DELC})' BY <1>1, <1>8
<1> QED BY <1>1, <1>4, <1>9, <1>10, <1>11, ChunkCharStep DEF ADDC, DELC

-----------------------------------------------------------------------------
LEMMA MergeCharStep ==
  ASSUME IInv, MergeChar
  PROVE  IInv'
<1> USE DEF MergeChar, EndAfter, RepEndAfter, RegionStart
<1> DEFINE c == buf[mg.k]
<1>0. /\ hunk \in Hunks /\ buf \in Seq({ADDC, DELC, REPC}) /\ Len(buf) \in Nat
      /\ mg \in MergeLocals /\ mg.k \in 1..Len(buf) /\ mg.k \in Nat /\ mg.k - 1 \in Nat
      /\ c \in {ADDC, DELC, REPC}
  <2>1. hunk \in Hunks /\ buf \in Seq({ADDC, DELC, REPC}) /\ mg \in MergeLocals
    BY DEF IInv, TypeOK
  <2>2. Len(buf) \in Nat BY <2>1
  <2>3. mg.k \in Nat \ {0} BY <2>1 DEF MergeLocals
  <2>4. mg.k <= Len(buf) OBVIOUS
  <2>5. mg.k \in 1..Len(buf) /\ mg.k - 1 \in Nat BY <2>2, <2>3, <2>4
  <2>6. c \in {ADDC, DELC, REPC} BY <2>1, <2>5
  <2> QED BY <2>1, <2>2, <2>3, <2>5, <2>6
<1>1. mg'.k = mg.k + 1 /\ mg'.k - 1 = (mg.k - 1) + 1 /\ mg'.k - 1 = mg.k
  BY <1>0
<1>2. mg'.end = IF c # ADDC THEN mg.end + 1 ELSE mg.end OBVIOUS
<1>3. mg'.rep_end = IF c # DELC THEN mg.rep_end + 1 ELSE mg.rep_end OBVIOUS
<1>4. mg.end \in Nat /\ mg.rep_end \in Nat BY <1>0 DEF MergeLocals
<1>5. MergeInv'
  <2>1. /\ CharCount(buf, {DELC, REPC}, mg.k - 1) \in Int
        /\ CharCount(buf, {ADDC, REPC}, mg.k - 1) \in Int
        /\ line \in Int /\ repline \in Int
    <3>1. CharCount(buf, {DELC, REPC}, mg.k - 1) \in 0..(mg.k - 1) BY <1>0, CharCountType
    <3>2. CharCount(buf, {ADDC, REPC}, mg.k - 1) \in 0..(mg.k - 1) BY <1>0, CharCountType
    <3> QED BY <3>1, <3>2, <1>0, HunkFacts DEF IInv, TypeOK
  <2>2. CharCount(buf, {DELC, REPC}, mg.k)
          = CharCount(buf, {DELC, REPC}, mg.k - 1) + (IF c \in {DELC, REPC} THEN 1 ELSE 0)
    <3>1. mg.k = (mg.k - 1) + 1 BY <1>0
    <3> QED BY <3>1, <1>0, CharCountStep, SMTT(30)
  <2>3. CharCount(buf, {ADDC, REPC}, mg.k)
          = CharCount(buf, {ADDC, REPC}, mg.k - 1) + (IF c \in {ADDC, REPC} THEN 1 ELSE 0)
    <3>1. mg.k = (mg.k - 1) + 1 BY <1>0
    <3> QED BY <3>1, <1>0, CharCountStep, SMTT(30)
  <2>4. mg.end = line + CharCount(buf, {DELC, REPC}, mg.k - 1)
        /\ mg.rep_end = repline + CharCount(buf, {ADDC, REPC}, mg.k - 1)
    BY DEF IInv, MergeInv
  <2>5. mg'.end = line + CharCount(buf, {DELC, REPC}, mg.k)
    <3>1. CASE c = ADDC
      <4>1. c \notin {DELC, REPC} BY <3>1 DEF ADDC, DELC, REPC
      <4> QED BY <4>1, <3>1, <1>2, <2>1, <2>2, <2>4
    <3>2. CASE c # ADDC
      <4>1. c \in {DELC, REPC} BY <3>2, <1>0
      <4> QED BY <4>1, <3>2, <1>2, <2>1, <2>2, <2>4
    <3> QED BY <3>1, <3>2
  <2>6. mg'.rep_end = repline + CharCount(buf, {ADDC, REPC}, mg.k)
    <3>1. CASE c = DELC
      <4>1. c \notin {ADDC, REPC} BY <3>1 DEF ADDC, DELC, REPC
      <4> QED BY <4>1, <3>1, <1>3, <2>1, <2>3, <2>4
    <3>2. CASE c # DELC
      <4>1. c \in {ADDC, REPC} BY <3>2, <1>0
      <4> QED BY <4>1, <3>2, <1>3, <2>1, <2>3, <2>4
    <3> QED BY <3>1, <3>2
  <2>7. i > 0 /\ seq[i] # SAMC /\ ChunkEndsAt(i) BY DEF IInv, MergeInv
  <2> QED BY <1>0, <1>1, <2>5, <2>6, <2>7 DEF MergeInv, seq, ChunkEndsAt
<1>6. TypeOK'
  <2> DEFINE end == IF c # ADDC THEN mg.end + 1 ELSE mg.end
             rep_end == IF c # DELC THEN mg.rep_end + 1 ELSE mg.rep_end
             start == IF mg.newregion THEN end ELSE mg.start
             rep_start == IF mg.newregion THEN rep_end ELSE mg.rep_start
             m == NewMod(start, end, rep_start, rep_end, c)
  <2>1. end \in Nat /\ rep_end \in Nat BY <1>4
  <2>2. start \in Nat /\ rep_start \in Nat BY <2>1, <1>0 DEF MergeLocals
  <2>3. mg' \in MergeLocals
    <3>1. RegionEnds(mg.k) \in BOOLEAN BY DEF RegionEnds
    <3>2. mg' = [k |-> mg.k + 1, start |-> start, end |-> end, rep_start |-> rep_start,
                 rep_end |-> rep_end, newregion |-> RegionEnds(mg.k)]
      OBVIOUS
    <3>3. mg.k + 1 \in Nat \ {0} BY <1>0
    <3> HIDE DEF end, rep_end, start, rep_start
    <3> QED BY ONLY <3>1, <3>2, <3>3, <2>1, <2>2 DEF MergeLocals
  <2> HIDE DEF end, rep_end, start, rep_start
  <2>4. ModType(c) \in {"ADD", "DEL", "REP"} BY <1>0 DEF ModType, ADDC, DELC, REPC
  <2>5. Scope(start, end) \in ScopeSet /\ Scope(rep_start, rep_end) \in ScopeSet
    BY <2>1, <2>2 DEF Scope, ScopeSet
  <2>6. m \in ModSet BY <2>4, <2>5 DEF NewMod, ModSet
  <2>7. mods' = Append(mods, m) \/ mods' = mods
    BY DEF end, rep_end, start, rep_start
  <2>8. mods \in Seq(ModSet) BY DEF IInv, TypeOK
  <2> HIDE DEF m
  <2>9. mods' \in Seq(ModSet) BY <2>6, <2>7, <2>8
  <2> QED BY <2>3, <2>9 DEF IInv, TypeOK, seq
<1>7. LinesInv' /\ BufferInv'
  <2>1. ChunkOpen /\ ChunkOpen' BY DEF ChunkOpen
  <2>2. OldLine(i)' = OldLine(i) /\ NewLine(i)' = NewLine(i) /\ seq' = seq
    BY DEF OldLine, NewLine, Count, seq
  <2>3. \A chars : BufCount(chars)' = BufCount(chars) BY DEF BufCount
  <2> QED BY <2>1, <2>2, <2>3 DEF IInv, LinesInv, BufferInv, OpenOld, OpenNew
<1>8. EntryInv' /\ DelCntInv' BY DEF IInv, EntryInv, DelCntInv, BufCount
<1> QED BY <1>5, <1>6, <1>7, <1>8 DEF IInv

LEMMA MergeReturnStep ==
  ASSUME IInv, MergeReturn
  PROVE  IInv'
<1> USE DEF MergeReturn
<1>0. /\ hunk \in Hunks /\ hunk.start_line # 0 /\ i \in 0..Len(seq) /\ mg \in MergeLocals
      /\ buf \in Seq({ADDC, DELC, REPC})
  BY DEF IInv, TypeOK, LinesInv
<1>1. ChunkOpen BY DEF ChunkOpen
<1>2. mg.k - 1 = Len(buf)
  <2>1. Len(buf) \in Nat /\ mg.k \in Nat BY <1>0 DEF MergeLocals
  <2>2. mg.k <= Len(buf) + 1 BY DEF IInv, MergeInv
  <2> QED BY <2>1, <2>2
<1>3. line' = OldLine(i) /\ repline' = NewLine(i)
  <2>1. mg.end = line + BufCount({DELC, REPC}) /\ mg.rep_end = repline + BufCount({ADDC, REPC})
    BY <1>2 DEF IInv, MergeInv, BufCount
  <2> QED BY <2>1, <1>1 DEF IInv, LinesInv, OpenOld, OpenNew
<1>4. /\ OldLine(i)' = OldLine(i) /\ NewLine(i)' = NewLine(i) /\ seq' = seq
      /\ ChunkEndsAt(i)' = ChunkEndsAt(i)
  BY DEF OldLine, NewLine, Count, seq, ChunkEndsAt
<1>5. i > 0 /\ seq[i] # SAMC /\ ChunkEndsAt(i) BY DEF IInv, MergeInv
<1>6. ~ChunkOpen' BY <1>4, <1>5 DEF ChunkOpen
<1>7. TypeOK'
  <2>1. line' \in 0..UintMax /\ repline' \in 0..UintMax
    BY <1>0, <1>3, LineBounds, HunkFacts
  <2> QED BY <2>1, <1>4 DEF IInv, TypeOK
<1>8. LinesInv' BY <1>0, <1>3, <1>4, <1>6, LineBounds DEF LinesInv, OpenOld, OpenNew
<1>9. BufferInv'
  <2>1. Len(buf) > 0 BY <1>5 DEF IInv, BufferInv
  <2>2. i = Len(seq) \/ seq[i + 1] = SAMC BY <1>5 DEF ChunkEndsAt
  <2> QED BY <2>1, <2>2, <1>4 DEF BufferInv
<1>10. EntryInv' /\ DelCntInv' /\ MergeInv'
  BY DEF IInv, EntryInv, DelCntInv, BufCount, MergeInv
<1> QED BY <1>7, <1>8, <1>9, <1>10 DEF IInv

\* The steps that leave the function.
LEMMA ReturnStep ==
  ASSUME IInv, RejectEmpty \/ Invalid \/ Return
  PROVE  IInv'
<1>1. /\ pc' = "done" /\ ret' \in {"true", "false"}
      /\ UNCHANGED <<hunk, i, line, repline, buf, del_cnt, mg, mods>>
  BY DEF RejectEmpty, Invalid, Return
<1>2. enclosing' \in [old : ScopeSet, new : ScopeSet]
  <2>1. mods \in Seq(ModSet) /\ enclosing \in [old : ScopeSet, new : ScopeSet]
    BY DEF IInv, TypeOK
  <2>2. CASE enclosing' = enclosing BY <2>1, <2>2
  <2>3. CASE Return /\ mods # <<>>
    <3>1. mods[1] \in ModSet /\ mods[Len(mods)] \in ModSet BY <2>1, <2>3
    <3>2. /\ Scope(mods[1].scope.begin, mods[Len(mods)].scope.end) \in ScopeSet
          /\ Scope(mods[1].rep_scope.begin, mods[Len(mods)].rep_scope.end) \in ScopeSet
      BY <3>1 DEF ModSet, ScopeSet, Scope
    <3> HIDE DEF ScopeSet
    <3> QED BY <3>2, <2>3 DEF Return, EnclosingOfMods
  <2> QED BY <2>2, <2>3 DEF RejectEmpty, Invalid, Return, EnclosingOfMods
<1>3. TypeOK' BY <1>1, <1>2 DEF IInv, TypeOK, seq
<1>4. DelCntInv' BY <1>1 DEF IInv, DelCntInv, BufCount
<1> QED BY <1>1, <1>3, <1>4 DEF IInv, EntryInv, LinesInv, BufferInv, MergeInv

LEMMA StutterStep ==
  ASSUME IInv, UNCHANGED vars
  PROVE  IInv'
BY DEF IInv, vars, TypeOK, EntryInv, DelCntInv, LinesInv, BufferInv, MergeInv, OpenOld,
       OpenNew, ChunkOpen, ChunkEndsAt, OldLine, NewLine, Count, BufCount, seq

LEMMA NextIInv == IInv /\ [Next]_vars => IInv'
<1> SUFFICES ASSUME IInv, [Next]_vars PROVE IInv' OBVIOUS
<1>1. CASE RejectEmpty \/ Invalid \/ Return BY <1>1, ReturnStep
<1>2. CASE Enter BY <1>2, EnterStep
<1>3. CASE Same BY <1>3, SameStep
<1>4. CASE AddPlain BY <1>4, AddPlainStep
<1>5. CASE AddReplace BY <1>5, AddReplaceStep
<1>6. CASE Del BY <1>6, DelStep
<1>7. CASE MergeChar BY <1>7, MergeCharStep
<1>8. CASE MergeReturn BY <1>8, MergeReturnStep
<1>9. CASE Done \/ UNCHANGED vars BY <1>9, StutterStep DEF Done
<1> QED
  BY <1>1, <1>2, <1>3, <1>4, <1>5, <1>6, <1>7, <1>8, <1>9 DEF Next

LEMMA IInvHolds == Spec => []IInv
BY InitIInv, NextIInv, PTL DEF Spec

-----------------------------------------------------------------------------
(***************************************************************************)
(* No counter of reduce leaves the range of an unsigned, and every Mod has *)
(* natural line numbers, for every set of hunks that end below UintMax.    *)
(***************************************************************************)
THEOREM TypeCorrect == Spec => []TypeOK
<1>1. IInv => TypeOK BY DEF IInv
<1> QED BY <1>1, IInvHolds, PTL

(***************************************************************************)
(* The asserts at PatchDecoder.cpp:217 and 240 hold for every control      *)
(* sequence.                                                               *)
(***************************************************************************)
THEOREM AssertsNeverFire == Spec => []AssertsHold
<1>1. IInv => AssertsHold
  <2> SUFFICES ASSUME IInv PROVE AssertsHold OBVIOUS
  <2>1. ASSUME pc = "scan", i < Len(seq), seq[i + 1] = ADDC, del_cnt # 0
        PROVE  \E k \in 1..Len(buf) : buf[k] = DELC
    <3>1. CharCount(buf, {DELC}, Len(buf)) # 0
      BY <2>1 DEF IInv, DelCntInv, BufCount
    <3>2. buf \in Seq({ADDC, DELC, REPC}) BY DEF IInv, TypeOK
    <3> QED BY <3>1, <3>2, CharCountFirst
  <2>2. ASSUME pc = "merge" PROVE Len(buf) > 0
    BY <2>2 DEF IInv, BufferInv, MergeInv
  <2> QED BY <2>1, <2>2 DEF AssertsHold
<1> QED BY <1>1, IInvHolds, PTL

(***************************************************************************)
(* Between chunks the cursors stand at the lines the script says, for      *)
(* control sequences of every length.                                      *)
(***************************************************************************)
THEOREM CursorsCorrect == Spec => []CursorsExact
<1>1. IInv => CursorsExact
  <2> SUFFICES ASSUME IInv, pc = "scan", ~ChunkOpen
               PROVE  line = OldLine(i) /\ repline = NewLine(i)
    BY DEF CursorsExact
  <2>1. line \in Nat /\ repline \in Nat BY HunkFacts DEF IInv, TypeOK
  <2> QED BY <2>1 DEF IInv, LinesInv, OpenOld, OpenNew
<1> QED BY <1>1, IInvHolds, PTL

-----------------------------------------------------------------------------
(***************************************************************************)
(* The Mods.  While merge runs, its own cursors are the current ones, and  *)
(* the region it is building belongs to no Mod yet.                        *)
(***************************************************************************)
OldCur == IF pc = "merge" THEN mg.end ELSE line
NewCur == IF pc = "merge" THEN mg.rep_end ELSE repline

RegionOpen == pc = "merge" /\ ~mg.newregion
RegionChar == buf[mg.k - 1]
OldRegion == IF RegionOpen /\ RegionChar # ADDC THEN mg.start..mg.end ELSE {}
NewRegion == IF RegionOpen /\ RegionChar # DELC THEN mg.rep_start..mg.rep_end ELSE {}

\* What was removed or added so far is in a Mod, in the region, or in the
\* part of the chunk that merge has not come to.
CoverInv ==
  pc \in {"scan", "merge"} =>
    /\ Removed = OldCover \cup OldRegion \cup ((OldCur + 1)..OldLine(i))
    /\ Added = NewCover \cup NewRegion \cup ((NewCur + 1)..NewLine(i))

\* merge has put into Mods, or into the region, every line it has passed.
MergeCoverInv ==
  pc = "merge" =>
    /\ (line + 1)..mg.end \subseteq OldCover \cup OldRegion
    /\ (repline + 1)..mg.rep_end \subseteq NewCover \cup NewRegion

\* The region is a run of one character; it begins behind every Mod, and
\* behind the lines the chunk began at.
RegionInv ==
  RegionOpen =>
    /\ mg.k \in 2..Len(buf)
    /\ buf[mg.k] = RegionChar
    /\ IF RegionChar = ADDC THEN mg.start = mg.end
       ELSE line < mg.start /\ mg.start <= mg.end
    /\ IF RegionChar = DELC THEN mg.rep_start = mg.rep_end
       ELSE repline < mg.rep_start /\ mg.rep_start <= mg.rep_end
    /\ RegionChar = REPC => mg.end - mg.start = mg.rep_end - mg.rep_start
    /\ \A a \in DOMAIN mods :
         /\ mods[a].scope.end <= mg.start
         /\ mods[a].rep_scope.end <= mg.rep_start
         /\ RegionChar # ADDC => mods[a].scope.end < mg.start
         /\ RegionChar # DELC => mods[a].rep_scope.end < mg.rep_start

\* Every Mod lies behind the cursors.
BehindInv ==
  \A a \in DOMAIN mods :
    /\ mods[a].scope.begin <= mods[a].scope.end
    /\ mods[a].scope.end <= OldCur
    /\ mods[a].rep_scope.begin <= mods[a].rep_scope.end
    /\ mods[a].rep_scope.end <= NewCur

\* No '+' of a buffer has a '-' before it.
NoDelBeforeAdd ==
  \A p, q \in 1..Len(buf) : p < q /\ buf[q] = ADDC => buf[p] # DELC

\* A DEL that ends at the cursor is of the chunk just merged, or of the one
\* merge is working on.
LastDelInv ==
  mods # <<>> /\ mods[Len(mods)].type = "DEL" /\ mods[Len(mods)].scope.end = OldCur =>
    /\ pc = "scan" => i > 0 /\ seq[i] # SAMC /\ ChunkEndsAt(i)
    /\ pc = "merge" => \E p \in 1..(mg.k - 1) : buf[p] = DELC

EnclosingInv == EnclosingSpansMods /\ (ret = "true" => pc = "done")

\* The characters read are control characters; while a chunk is open the cursors
\* stand where it began.
IsChunkStart(p) ==
  /\ p = 0 \/ seq[p] = SAMC
  /\ \A q \in (p + 1)..i : seq[q] # SAMC

ChunkInv ==
  /\ \A q \in 1..i : seq[q] \in CtrlChars
  /\ pc \in {"scan", "merge"} =>
       \E p \in 0..i :
         /\ IsChunkStart(p)
         /\ ChunkOpen => line = OldLine(p) /\ repline = NewLine(p)

NoModsYet == pc = "entry" => mods = <<>> /\ ret = "none"

ModsInv ==
  /\ NoModsYet /\ CoverInv /\ MergeCoverInv /\ RegionInv /\ BehindInv /\ ModsOrdered
  /\ NoDelBeforeAdd /\ LastDelInv /\ ReplacementsPaired /\ EnclosingInv /\ ChunkInv

-----------------------------------------------------------------------------
\* A range that is not empty begins with its first number.
LEMMA RangeFirst ==
  ASSUME NEW a \in Nat, NEW b \in Int, a + 1 <= b
  PROVE  (a + 1)..b = {a + 1} \cup ((a + 1 + 1)..b)
OBVIOUS

LEMMA CoverAppend ==
  ASSUME mods \in Seq(ModSet), NEW m \in ModSet, mods' = Append(mods, m)
  PROVE  /\ OldCover' = OldCover \cup (IF m.type # "ADD" THEN m.scope.begin..m.scope.end ELSE {})
         /\ NewCover' = NewCover
              \cup (IF m.type # "DEL" THEN m.rep_scope.begin..m.rep_scope.end ELSE {})
<1> DEFINE n == Len(mods)
           C(t) == {mods[k] : k \in {j \in DOMAIN mods : mods[j].type # t}}
           D(t) == {mods'[k] : k \in {j \in DOMAIN mods' : mods'[j].type # t}}
<1>1. n \in Nat /\ DOMAIN mods = 1..n /\ DOMAIN mods' = 1..(n + 1)
  OBVIOUS
<1>2. mods'[n + 1] = m /\ \A k \in 1..n : mods'[k] = mods[k]
  OBVIOUS
<1>3. \A t : D(t) = C(t) \cup (IF m.type # t THEN {m} ELSE {})
  <2> SUFFICES ASSUME NEW t, NEW x
               PROVE x \in D(t) <=> x \in C(t) \/ (m.type # t /\ x = m)
    OBVIOUS
  <2>1. x \in D(t) <=> \E k \in 1..(n + 1) : mods'[k].type # t /\ x = mods'[k]
    BY <1>1
  <2>2. x \in C(t) <=> \E k \in 1..n : mods[k].type # t /\ x = mods[k]
    BY <1>1
  <2>3. \A k : k \in 1..(n + 1) <=> k \in 1..n \/ k = n + 1
    BY <1>1
  <2> QED BY <2>1, <2>2, <2>3, <1>2
<1>4. OldCover' = UNION {x.scope.begin..x.scope.end : x \in D("ADD")}
      /\ OldCover = UNION {x.scope.begin..x.scope.end : x \in C("ADD")}
  BY DEF OldCover
<1>5. NewCover' = UNION {x.rep_scope.begin..x.rep_scope.end : x \in D("DEL")}
      /\ NewCover = UNION {x.rep_scope.begin..x.rep_scope.end : x \in C("DEL")}
  BY DEF NewCover
<1> HIDE DEF C, D
<1>6. OldCover' = OldCover \cup (IF m.type # "ADD" THEN m.scope.begin..m.scope.end ELSE {})
  <2>1. D("ADD") = C("ADD") \cup (IF m.type # "ADD" THEN {m} ELSE {}) BY <1>3
  <2> QED BY <2>1, <1>4
<1>7. NewCover' = NewCover
        \cup (IF m.type # "DEL" THEN m.rep_scope.begin..m.rep_scope.end ELSE {})
  <2>1. D("DEL") = C("DEL") \cup (IF m.type # "DEL" THEN {m} ELSE {}) BY <1>3
  <2> QED BY <2>1, <1>5
<1> QED BY <1>6, <1>7

LEMMA CoverKept ==
  ASSUME mods' = mods
  PROVE  OldCover' = OldCover /\ NewCover' = NewCover
BY DEF OldCover, NewCover

\* Two intervals that meet.
LEMMA IntervalsMeet ==
  ASSUME NEW a \in Int, NEW b \in Int, NEW c \in Int, a <= b, b <= c
  PROVE  (a + 1)..c = ((a + 1)..b) \cup ((b + 1)..c)
OBVIOUS

\* The lines changed when one more character is read.
LEMMA ChangedStep ==
  ASSUME hunk' = hunk, i \in Nat, i' = i + 1
  PROVE  /\ Removed' = Removed \cup (IF seq[i + 1] = DELC THEN {OldLine(i + 1)} ELSE {})
         /\ Added' = Added \cup (IF seq[i + 1] = ADDC THEN {NewLine(i + 1)} ELSE {})
<1>1. \A k : k \in 1..(i + 1) <=> k \in 1..i \/ k = i + 1 OBVIOUS
<1>2. seq' = seq /\ \A n : OldLine(n)' = OldLine(n) /\ NewLine(n)' = NewLine(n)
  BY LineUnchanged
<1>3. Removed' = {OldLine(p) : p \in {q \in 1..(i + 1) : seq[q] = DELC}}
  BY <1>2 DEF Removed, OldLine, Count, seq
<1>4. Added' = {NewLine(p) : p \in {q \in 1..(i + 1) : seq[q] = ADDC}}
  BY <1>2 DEF Added, NewLine, Count, seq
<1>5. Removed' = Removed \cup (IF seq[i + 1] = DELC THEN {OldLine(i + 1)} ELSE {})
  BY <1>1, <1>3 DEF Removed
<1>6. Added' = Added \cup (IF seq[i + 1] = ADDC THEN {NewLine(i + 1)} ELSE {})
  BY <1>1, <1>4 DEF Added
<1> QED BY <1>5, <1>6

LEMMA ChangedKept ==
  ASSUME hunk' = hunk, i' = i
  PROVE  Removed' = Removed /\ Added' = Added
BY DEF Removed, Added, OldLine, NewLine, Count, seq

\* What the type invariant says of the cursors, the buffer and the Mods.
LEMMA TypeFacts ==
  ASSUME TypeOK
  PROVE  /\ hunk \in Hunks /\ i \in Nat /\ Len(seq) \in Nat /\ i <= Len(seq)
         /\ line \in Nat /\ repline \in Nat
         /\ buf \in Seq({ADDC, DELC, REPC}) /\ Len(buf) \in Nat
         /\ mg.k \in Nat /\ mg.k > 0 /\ mg.start \in Nat /\ mg.end \in Nat
         /\ mg.rep_start \in Nat /\ mg.rep_end \in Nat /\ mg.newregion \in BOOLEAN
         /\ mods \in Seq(ModSet) /\ Len(mods) \in Nat /\ DOMAIN mods = 1..Len(mods)
         /\ \A a \in DOMAIN mods :
              /\ mods[a].type \in {"ADD", "DEL", "REP"}
              /\ mods[a].scope.begin \in Nat /\ mods[a].scope.end \in Nat
              /\ mods[a].rep_scope.begin \in Nat /\ mods[a].rep_scope.end \in Nat
<1>1. hunk \in Hunks /\ Len(seq) \in Nat /\ UintMax \in Nat
  BY HunkFacts DEF TypeOK
<1>2. i \in Nat /\ i <= Len(seq) /\ line \in Nat /\ repline \in Nat
  BY <1>1 DEF TypeOK
<1>3. buf \in Seq({ADDC, DELC, REPC}) /\ Len(buf) \in Nat
  BY DEF TypeOK
<1>4. /\ mg.k \in Nat /\ mg.k > 0 /\ mg.start \in Nat /\ mg.end \in Nat
      /\ mg.rep_start \in Nat /\ mg.rep_end \in Nat /\ mg.newregion \in BOOLEAN
  BY DEF TypeOK, MergeLocals
<1>5. mods \in Seq(ModSet) /\ Len(mods) \in Nat /\ DOMAIN mods = 1..Len(mods)
  BY DEF TypeOK
<1>6. ASSUME NEW a \in DOMAIN mods
      PROVE  /\ mods[a].type \in {"ADD", "DEL", "REP"}
             /\ mods[a].scope.begin \in Nat /\ mods[a].scope.end \in Nat
             /\ mods[a].rep_scope.begin \in Nat /\ mods[a].rep_scope.end \in Nat
  <2>1. mods[a] \in ModSet BY <1>5
  <2> QED BY <2>1 DEF ModSet, ScopeSet
<1> QED BY <1>1, <1>2, <1>3, <1>4, <1>5, <1>6

-----------------------------------------------------------------------------
\* Without an open chunk the cursors stand at the lines of the script.
LEMMA CursorsAtRest ==
  ASSUME IInv, pc = "scan", ~ChunkOpen
  PROVE  line = OldLine(i) /\ repline = NewLine(i)
BY TypeFacts DEF IInv, LinesInv, OpenOld, OpenNew

\* The cursors never pass the lines of the script.
LEMMA CursorsBehind ==
  ASSUME IInv, pc \in {"scan", "merge"}
  PROVE  /\ line <= OldLine(i) /\ repline <= NewLine(i)
         /\ OldLine(i) \in Int /\ NewLine(i) \in Int
<1>1. /\ hunk \in Hunks /\ i \in Nat /\ line \in Nat /\ repline \in Nat
      /\ buf \in Seq({ADDC, DELC, REPC})
  BY TypeFacts DEF IInv
<1>2. OldLine(i) \in Int /\ NewLine(i) \in Int BY <1>1, LineStep
<1>3. OpenOld \in Nat /\ OpenNew \in Nat
  <2>1. BufCount({DELC, REPC}) \in 0..Len(buf) /\ BufCount({ADDC, REPC}) \in 0..Len(buf)
    BY <1>1, BufFacts
  <2>2. Len(buf) \in Nat BY <1>1
  <2> QED BY <2>1, <2>2 DEF OpenOld, OpenNew
<1> QED BY <1>1, <1>2, <1>3 DEF IInv, LinesInv

LEMMA InitModsInv == Init => ModsInv
<1> SUFFICES ASSUME Init PROVE ModsInv OBVIOUS
<1>1. pc = "entry" /\ i = 0 /\ mods = <<>> /\ buf = <<>> /\ ret = "none" BY DEF Init
<1>2. DOMAIN mods = {} /\ Len(mods) = 0 /\ Len(buf) = 0 BY <1>1
<1> QED
  BY <1>1, <1>2 DEF ModsInv, NoModsYet, CoverInv, MergeCoverInv, RegionInv, RegionOpen,
     BehindInv, ModsOrdered, NoDelBeforeAdd, LastDelInv, ReplacementsPaired, EnclosingInv,
     EnclosingSpansMods, ChunkInv

LEMMA EnterMods ==
  ASSUME IInv, ModsInv, Enter, IInv'
  PROVE  ModsInv'
<1>1. /\ pc = "entry" /\ pc' = "scan" /\ i = 0 /\ i' = 0 /\ mods = <<>> /\ mods' = <<>>
      /\ buf' = <<>> /\ hunk' = hunk /\ ret' = "none"
  BY DEF Enter, IInv, EntryInv, ModsInv, NoModsYet
<1>2. DOMAIN mods' = {} /\ Len(mods') = 0 /\ Len(buf') = 0 BY <1>1
<1>3. ~ChunkOpen' BY <1>1 DEF ChunkOpen
<1>5. line' \in Nat /\ repline' \in Nat
  <2>1. UintMax \in Nat BY HunksAssumption
  <2> QED BY <2>1 DEF IInv, TypeOK
<1>4. line' = OldLine(i)' /\ repline' = NewLine(i)'
  BY <1>1, <1>3, <1>5 DEF IInv, LinesInv, OpenOld, OpenNew
<1>6. CoverInv'
  <2>1. Removed' = {} /\ Added' = {} BY <1>1 DEF Removed, Added
  <2>2. OldCover' = {} /\ NewCover' = {} BY <1>2 DEF OldCover, NewCover
  <2>3. OldRegion' = {} /\ NewRegion' = {} /\ OldCur' = line' /\ NewCur' = repline'
    BY <1>1 DEF OldRegion, NewRegion, RegionOpen, OldCur, NewCur
  <2>4. (OldCur' + 1)..OldLine(i)' = {} /\ (NewCur' + 1)..NewLine(i)' = {}
    BY <2>3, <1>4, <1>5
  <2> QED BY <2>1, <2>2, <2>3, <2>4 DEF CoverInv
<1>7. ChunkInv'
  <2>1. IsChunkStart(0)' BY <1>1 DEF IsChunkStart
  <2> QED BY <1>1, <1>3, <2>1 DEF ChunkInv
<1> QED
  BY <1>1, <1>2, <1>6, <1>7 DEF ModsInv, NoModsYet, MergeCoverInv, RegionInv, RegionOpen,
     BehindInv, ModsOrdered, NoDelBeforeAdd, LastDelInv, ReplacementsPaired, EnclosingInv,
     EnclosingSpansMods

LEMMA SameMods ==
  ASSUME IInv, ModsInv, Same, IInv'
  PROVE  ModsInv'
<1>1. /\ pc = "scan" /\ pc' = "scan" /\ i' = i + 1 /\ mods' = mods /\ ret' = ret
      /\ hunk' = hunk /\ enclosing' = enclosing /\ seq[i + 1] = SAMC
      /\ line' = line + 1 /\ repline' = repline + 1
      /\ i < Len(seq)
  BY DEF Same, Reads
<1>2. /\ i \in Nat /\ line \in Nat /\ repline \in Nat /\ hunk \in Hunks
      /\ mods \in Seq(ModSet) /\ DOMAIN mods = 1..Len(mods) /\ Len(mods) \in Nat
      /\ \A a \in DOMAIN mods : mods[a].scope.end \in Nat /\ mods[a].rep_scope.end \in Nat
  BY TypeFacts DEF IInv
<1>3. ~ChunkOpen BY <1>1 DEF ChunkOpen, ChunkEndsAt
<1>4. line = OldLine(i) /\ repline = NewLine(i) BY <1>1, <1>3, CursorsAtRest
<1>5. seq' = seq /\ seq'[i'] = SAMC BY <1>1 DEF seq
<1>6. ~ChunkOpen' BY <1>1, <1>5 DEF ChunkOpen
<1>7. line' = OldLine(i)' /\ repline' = NewLine(i)'
  BY <1>1, <1>2, <1>6 DEF IInv, LinesInv, OpenOld, OpenNew
<1>8. CoverInv'
  <2>1. Removed' = Removed /\ Added' = Added
    BY <1>1, <1>2, ChangedStep DEF SAMC, DELC, ADDC
  <2>2. OldCover' = OldCover /\ NewCover' = NewCover BY <1>1, CoverKept
  <2>3. OldRegion' = {} /\ NewRegion' = {} /\ OldCur' = line' /\ NewCur' = repline'
        /\ OldRegion = {} /\ NewRegion = {} /\ OldCur = line /\ NewCur = repline
    BY <1>1 DEF OldRegion, NewRegion, RegionOpen, OldCur, NewCur
  <2>4. (line' + 1)..line' = {} /\ (repline' + 1)..repline' = {}
        /\ (line + 1)..line = {} /\ (repline + 1)..repline = {}
    BY <1>1, <1>2
  <2> QED BY <1>1, <1>4, <1>7, <2>1, <2>2, <2>3, <2>4 DEF CoverInv, ModsInv
<1>9. BehindInv'
  BY <1>1, <1>2 DEF BehindInv, OldCur, NewCur, ModsInv
<1>10. LastDelInv'
  <2>1. CASE mods = <<>> BY <2>1, <1>1 DEF LastDelInv
  <2>2. CASE mods # <<>>
    <3>1. Len(mods) \in DOMAIN mods BY <1>2, <2>2
    <3>2. mods[Len(mods)].scope.end <= line BY <1>1, <3>1 DEF BehindInv, OldCur, ModsInv
    <3>3. mods[Len(mods)].scope.end # line' BY <3>2, <3>1, <1>1, <1>2
    <3> QED BY <3>3, <1>1 DEF LastDelInv, OldCur
  <2> QED BY <2>1, <2>2
<1>11. NoDelBeforeAdd'
  <2>1. buf' = buf \/ buf' = <<>> BY DEF Same
  <2>2. Len(<<>>) = 0 OBVIOUS
  <2> QED BY <2>1, <2>2 DEF NoDelBeforeAdd, ModsInv
<1>12. ChunkInv'
  <2>1. \A q \in 1..(i + 1) : q \in 1..i \/ q = i + 1 BY <1>2
  <2>2. \A q \in 1..i' : seq'[q] \in CtrlChars'
    BY <1>1, <1>5, <2>1 DEF ChunkInv, CtrlChars, ModsInv
  <2>3. i' \in 0..i' BY <1>1, <1>2
  <2>4. \A p : p = i' => IsChunkStart(p)'
    <3>1. \A p : p = i' => (p + 1)..i' = {} BY <1>1, <1>2
    <3> QED BY <3>1, <1>1, <1>5 DEF IsChunkStart
  <2> QED BY <1>6, <2>2, <2>3, <2>4 DEF ChunkInv
<1> QED
  BY <1>1, <1>8, <1>9, <1>10, <1>11, <1>12 DEF ModsInv, NoModsYet, MergeCoverInv, RegionInv,
     RegionOpen, ModsOrdered, ReplacementsPaired, EnclosingInv, EnclosingSpansMods

\* What the three cases of '+' and '-' share.
LEMMA ChunkCharMods ==
  ASSUME IInv, ModsInv, IInv', pc = "scan", i < Len(seq), seq[i + 1] \in {ADDC, DELC},
         i' = i + 1, MergeIfChunkEnds,
         UNCHANGED <<hunk, line, repline, mods, enclosing, ret>>,
         NoDelBeforeAdd'
  PROVE  ModsInv'
<1>1. /\ i \in Nat /\ line \in Nat /\ repline \in Nat /\ hunk \in Hunks
      /\ mods \in Seq(ModSet) /\ DOMAIN mods = 1..Len(mods) /\ Len(mods) \in Nat
  BY TypeFacts DEF IInv
<1>2. /\ seq' = seq /\ \A n : OldLine(n)' = OldLine(n) /\ NewLine(n)' = NewLine(n)
      /\ OldLine(i)' = OldLine(i + 1) /\ NewLine(i)' = NewLine(i + 1)
  BY DEF seq, OldLine, NewLine, Count
<1>3. \/ /\ pc' = "merge" /\ mg'.k = 1 /\ mg'.end = line /\ mg'.rep_end = repline
         /\ mg'.newregion = TRUE
      \/ pc' = "scan"
  BY DEF MergeIfChunkEnds, MergeCall
<1>4. /\ OldCur' = line /\ NewCur' = repline /\ OldRegion' = {} /\ NewRegion' = {}
      /\ OldCur = line /\ NewCur = repline /\ OldRegion = {} /\ NewRegion = {}
      /\ ~RegionOpen'
  BY <1>3 DEF OldCur, NewCur, OldRegion, NewRegion, RegionOpen
<1>5. CoverInv'
  <2>1. /\ Removed' = Removed \cup (IF seq[i + 1] = DELC THEN {OldLine(i + 1)} ELSE {})
        /\ Added' = Added \cup (IF seq[i + 1] = ADDC THEN {NewLine(i + 1)} ELSE {})
    BY <1>1, ChangedStep
  <2>2. OldCover' = OldCover /\ NewCover' = NewCover BY CoverKept
  <2>3. /\ OldLine(i) \in Int /\ NewLine(i) \in Int
        /\ line <= OldLine(i) /\ repline <= NewLine(i)
    BY CursorsBehind
  <2>4. /\ Removed = OldCover \cup ((line + 1)..OldLine(i))
        /\ Added = NewCover \cup ((repline + 1)..NewLine(i))
    BY <1>4 DEF ModsInv, CoverInv
  <2>5. Removed' = OldCover \cup ((line + 1)..OldLine(i + 1))
    <3>1. CASE seq[i + 1] = DELC
      <4>1. OldLine(i + 1) = OldLine(i) + 1 BY <3>1, <1>1, LineStep
      <4>2. (line + 1)..OldLine(i + 1) = ((line + 1)..OldLine(i)) \cup {OldLine(i + 1)}
        BY <4>1, <2>3, <1>1
      <4> QED BY <4>2, <3>1, <2>1, <2>4
    <3>2. CASE seq[i + 1] # DELC
      <4>1. OldLine(i + 1) = OldLine(i) BY <3>2, <1>1, LineStep DEF SAMC, ADDC, DELC
      <4> QED BY <4>1, <3>2, <2>1, <2>4
    <3> QED BY <3>1, <3>2
  <2>6. Added' = NewCover \cup ((repline + 1)..NewLine(i + 1))
    <3>1. CASE seq[i + 1] = ADDC
      <4>1. NewLine(i + 1) = NewLine(i) + 1 BY <3>1, <1>1, LineStep
      <4>2. (repline + 1)..NewLine(i + 1) = ((repline + 1)..NewLine(i)) \cup {NewLine(i + 1)}
        BY <4>1, <2>3, <1>1
      <4> QED BY <4>2, <3>1, <2>1, <2>4
    <3>2. CASE seq[i + 1] # ADDC
      <4>1. NewLine(i + 1) = NewLine(i) BY <3>2, <1>1, LineStep DEF SAMC, ADDC, DELC
      <4> QED BY <4>1, <3>2, <2>1, <2>4
    <3> QED BY <3>1, <3>2
  <2> QED BY <2>2, <2>5, <2>6, <1>2, <1>4 DEF CoverInv
<1>6. MergeCoverInv'
  <2>1. (line + 1)..line = {} /\ (repline + 1)..repline = {} BY <1>1
  <2> QED BY <2>1, <1>3 DEF MergeCoverInv
<1>7. BehindInv' BY <1>4 DEF BehindInv, ModsInv
<1>8. ~ChunkEndsAt(i) BY <1>1 DEF ChunkEndsAt, SAMC, ADDC, DELC
<1>9. LastDelInv' BY <1>4, <1>8 DEF LastDelInv, ModsInv
<1>10. ChunkInv'
  <2>1. \A q \in 1..(i + 1) : q \in 1..i \/ q = i + 1 BY <1>1
  <2>2. \A q \in 1..i' : seq'[q] \in CtrlChars'
    BY <1>2, <2>1 DEF ChunkInv, CtrlChars, ModsInv
  <2>3. \E p \in 0..i : IsChunkStart(p) /\ line = OldLine(p) /\ repline = NewLine(p)
    <3>1. CASE ChunkOpen BY <3>1 DEF ChunkInv, ModsInv
    <3>2. CASE ~ChunkOpen
      <4>1. line = OldLine(i) /\ repline = NewLine(i) BY <3>2, CursorsAtRest
      <4>2. i = 0 \/ seq[i] = SAMC BY <3>2, <1>1, <1>8 DEF ChunkOpen
      <4>3. (i + 1)..i = {} /\ i \in 0..i BY <1>1
      <4> QED BY <4>1, <4>2, <4>3 DEF IsChunkStart
    <3> QED BY <3>1, <3>2
  <2>4. PICK p \in 0..i : IsChunkStart(p) /\ line = OldLine(p) /\ repline = NewLine(p)
    BY <2>3
  <2>5. p \in 0..i' /\ \A q \in (p + 1)..(i + 1) : q \in (p + 1)..i \/ q = i + 1
    BY <1>1
  <2>6. IsChunkStart(p)'
    BY <2>4, <2>5, <1>2 DEF IsChunkStart, SAMC, ADDC, DELC
  <2> QED BY <2>2, <2>4, <2>5, <2>6, <1>2 DEF ChunkInv
<1>11. NoModsYet' /\ EnclosingInv'
  BY <1>3 DEF NoModsYet, EnclosingInv, EnclosingSpansMods, ModsInv
<1> QED
  BY <1>4, <1>5, <1>6, <1>7, <1>9, <1>10, <1>11 DEF ModsInv, RegionInv, ModsOrdered,
     ReplacementsPaired

\* Without a '-' in the buffer, none is left for a '+' to pair with.
LEMMA CharCountNone ==
  ASSUME NEW A, NEW s \in Seq(A), CharCount(s, {DELC}, Len(s)) = 0
  PROVE  \A p \in 1..Len(s) : s[p] # DELC
<1> DEFINE S == {p \in 1..Len(s) : s[p] \in {DELC}}
<1>1. Len(s) \in Nat OBVIOUS
<1>2. IsFiniteSet(S) /\ Cardinality(S) = 0 BY <1>1, CharCountType DEF CharCount
<1>3. S = {} BY <1>2, FS_EmptySet
<1> QED BY <1>3

LEMMA AddPlainMods ==
  ASSUME IInv, ModsInv, AddPlain, IInv'
  PROVE  ModsInv'
<1> USE DEF AddPlain, Reads, LooksBack
<1>1. buf \in Seq({ADDC, DELC, REPC}) /\ Len(buf) \in Nat BY TypeFacts DEF IInv
<1>2. \A p \in 1..Len(buf) : buf[p] # DELC
  BY <1>1, CharCountNone DEF IInv, DelCntInv, BufCount
<1>3. Len(buf') = Len(buf) + 1 /\ buf'[Len(buf) + 1] = ADDC
      /\ \A p \in 1..Len(buf) : buf'[p] = buf[p]
  BY <1>1
<1>4. \A p \in 1..(Len(buf) + 1) : p \in 1..Len(buf) \/ p = Len(buf) + 1 BY <1>1
<1>5. NoDelBeforeAdd' BY <1>2, <1>3, <1>4 DEF NoDelBeforeAdd, ADDC, DELC
<1> QED BY <1>5, ChunkCharMods

LEMMA DelMods ==
  ASSUME IInv, ModsInv, Del, IInv'
  PROVE  ModsInv'
<1> USE DEF Del, Reads
<1>1. buf \in Seq({ADDC, DELC, REPC}) /\ Len(buf) \in Nat BY TypeFacts DEF IInv
<1>2. Len(buf') = Len(buf) + 1 /\ buf'[Len(buf) + 1] = DELC
      /\ \A p \in 1..Len(buf) : buf'[p] = buf[p]
  BY <1>1
<1>3. \A p \in 1..(Len(buf) + 1) : p \in 1..Len(buf) \/ p = Len(buf) + 1 BY <1>1
<1>4. NoDelBeforeAdd'
  <2> SUFFICES ASSUME NEW p \in 1..(Len(buf) + 1), NEW q \in 1..(Len(buf) + 1),
                      p < q, buf'[q] = ADDC
               PROVE  buf'[p] # DELC
    BY <1>2 DEF NoDelBeforeAdd
  <2>1. q \in 1..Len(buf) BY <1>2, <1>3 DEF ADDC, DELC
  <2>2. p \in 1..Len(buf) BY <2>1, <1>1
  <2> QED BY <2>1, <2>2, <1>2 DEF NoDelBeforeAdd, ModsInv
<1> QED BY <1>4, ChunkCharMods

LEMMA AddReplaceMods ==
  ASSUME IInv, ModsInv, AddReplace, IInv'
  PROVE  ModsInv'
<1> USE DEF AddReplace, Reads, LooksBack
<1>1. buf \in Seq({ADDC, DELC, REPC}) /\ Len(buf) \in Nat BY TypeFacts DEF IInv
<1>2. Len(buf') = Len(buf) /\ \A p \in 1..Len(buf) : buf'[p] = buf[p] \/ buf'[p] = REPC
  BY <1>1
<1>3. NoDelBeforeAdd' BY <1>2 DEF NoDelBeforeAdd, ModsInv, ADDC, DELC, REPC
<1> QED BY <1>3, ChunkCharMods

\* Counting further never counts less.
LEMMA CharCountMono ==
  ASSUME NEW s, NEW chars, NEW n \in Nat, NEW k \in Nat, k <= n
  PROVE  CharCount(s, chars, k) <= CharCount(s, chars, n)
<1> DEFINE S(m) == {p \in 1..m : s[p] \in chars}
<1>1. IsFiniteSet(S(n)) BY CharCountType
<1>2. S(k) \subseteq S(n) OBVIOUS
<1>3. Cardinality(S(k)) <= Cardinality(S(n)) BY <1>1, <1>2, FS_Subset
<1> QED BY <1>3 DEF CharCount

\* The cursors of merge are between those of reduce and the lines of the script,
\* wherever in the buffer merge is.
LEMMA MergeCursors ==
  ASSUME IInv, pc = "merge", NEW n \in 0..Len(buf)
  PROVE  /\ line <= line + CharCount(buf, {DELC, REPC}, n)
         /\ line + CharCount(buf, {DELC, REPC}, n) <= OldLine(i)
         /\ repline <= repline + CharCount(buf, {ADDC, REPC}, n)
         /\ repline + CharCount(buf, {ADDC, REPC}, n) <= NewLine(i)
<1>1. /\ Len(buf) \in Nat /\ line \in Nat /\ repline \in Nat
      /\ n \in Nat /\ n <= Len(buf) /\ buf \in Seq({ADDC, DELC, REPC})
  BY TypeFacts DEF IInv, MergeInv
<1>2. ASSUME NEW chars
      PROVE  /\ CharCount(buf, chars, n) \in Nat /\ BufCount(chars) \in Nat
             /\ CharCount(buf, chars, n) <= BufCount(chars)
  <2>1. CharCount(buf, chars, n) \in 0..n BY <1>1, CharCountType
  <2>2. BufCount(chars) \in 0..Len(buf) BY <1>1, BufFacts
  <2>3. CharCount(buf, chars, n) <= BufCount(chars)
    BY <1>1, CharCountMono DEF BufCount
  <2> QED BY <2>1, <2>2, <2>3, <1>1
<1>3. /\ line + BufCount({DELC, REPC}) = OldLine(i)
      /\ repline + BufCount({ADDC, REPC}) = NewLine(i)
  BY DEF IInv, LinesInv, OpenOld, OpenNew, ChunkOpen
<1> QED BY <1>1, <1>2, <1>3

LEMMA MergeCharMods ==
  ASSUME IInv, ModsInv, MergeChar, IInv'
  PROVE  ModsInv'
<1> DEFINE c == buf[mg.k]
           end == EndAfter(c)
           rep_end == RepEndAfter(c)
           start == RegionStart(end)
           rep_start == IF mg.newregion THEN rep_end ELSE mg.rep_start
           m == NewMod(start, end, rep_start, rep_end, c)
<1>1. /\ pc = "merge" /\ pc' = "merge" /\ hunk' = hunk /\ i' = i /\ buf' = buf
      /\ line' = line /\ repline' = repline /\ enclosing' = enclosing /\ ret' = ret
      /\ mg.k <= Len(buf)
      /\ mods' = IF RegionEnds(mg.k) THEN Append(mods, m) ELSE mods
      /\ mg' = [k |-> mg.k + 1, start |-> start, end |-> end, rep_start |-> rep_start,
               rep_end |-> rep_end, newregion |-> RegionEnds(mg.k)]
  BY DEF MergeChar
<1>2. /\ mg'.k = mg.k + 1 /\ mg'.start = start /\ mg'.end = end
      /\ mg'.rep_start = rep_start /\ mg'.rep_end = rep_end
      /\ mg'.newregion = RegionEnds(mg.k)
  BY <1>1
<1>3. /\ i \in Nat /\ line \in Nat /\ repline \in Nat /\ hunk \in Hunks
      /\ buf \in Seq({ADDC, DELC, REPC}) /\ Len(buf) \in Nat
      /\ mg.k \in Nat /\ mg.k > 0 /\ mg.start \in Nat /\ mg.end \in Nat
      /\ mg.rep_start \in Nat /\ mg.rep_end \in Nat /\ mg.newregion \in BOOLEAN
      /\ mods \in Seq(ModSet) /\ DOMAIN mods = 1..Len(mods) /\ Len(mods) \in Nat
      /\ \A a \in DOMAIN mods :
           /\ mods[a].scope.begin \in Nat /\ mods[a].scope.end \in Nat
           /\ mods[a].rep_scope.begin \in Nat /\ mods[a].rep_scope.end \in Nat
  BY TypeFacts DEF IInv
<1>4. c \in {ADDC, DELC, REPC} /\ mg.k \in 1..Len(buf) BY <1>1, <1>3
<1>5. /\ end = (IF c # ADDC THEN mg.end + 1 ELSE mg.end)
      /\ rep_end = (IF c # DELC THEN mg.rep_end + 1 ELSE mg.rep_end)
      /\ start = (IF mg.newregion THEN end ELSE mg.start)
  BY DEF EndAfter, RepEndAfter, RegionStart
<1>50. /\ c # ADDC => end = mg.end + 1
       /\ c = ADDC => end = mg.end
       /\ c # DELC => rep_end = mg.rep_end + 1
       /\ c = DELC => rep_end = mg.rep_end
  BY <1>5
<1>51. mods \in Seq(ModSet) /\ DOMAIN mods = 1..Len(mods) /\ Len(mods) \in Nat
  BY <1>3
<1>52. /\ mg.end \in Nat /\ mg.rep_end \in Nat /\ line \in Nat /\ repline \in Nat
       /\ mg.start \in Nat /\ mg.rep_start \in Nat
  BY <1>3
<1>6. end \in Nat /\ rep_end \in Nat /\ start \in Nat /\ rep_start \in Nat
  BY <1>3, <1>5
<1>7. /\ line <= mg.end /\ repline <= mg.rep_end /\ end <= OldLine(i) /\ rep_end <= NewLine(i)
      /\ mg.end \in Nat /\ OldLine(i) \in Int /\ NewLine(i) \in Int
  <2>1. mg.k - 1 \in 0..Len(buf) /\ mg.k \in 0..Len(buf) /\ mg'.k - 1 = mg.k
    BY <1>1, <1>2, <1>3
  <2>2. /\ mg.end = line + CharCount(buf, {DELC, REPC}, mg.k - 1)
        /\ mg.rep_end = repline + CharCount(buf, {ADDC, REPC}, mg.k - 1)
        /\ mg'.end = line + CharCount(buf, {DELC, REPC}, mg.k)
        /\ mg'.rep_end = repline + CharCount(buf, {ADDC, REPC}, mg.k)
    BY <2>1, <1>1 DEF IInv, MergeInv
  <2>3. line <= mg.end /\ repline <= mg.rep_end
        /\ mg'.end <= OldLine(i) /\ mg'.rep_end <= NewLine(i)
    BY <2>1, <2>2, <1>1, MergeCursors
  <2>4. OldLine(i) \in Int /\ NewLine(i) \in Int BY <1>1, CursorsBehind
  <2> QED BY <2>1, <2>2, <2>3, <2>4, <1>2, <1>3
<1>8. m.type = ModType(c) /\ m.scope.begin = start /\ m.scope.end = end
      /\ m.rep_scope.begin = rep_start /\ m.rep_scope.end = rep_end
  BY DEF NewMod, Scope
<1>9. /\ (m.type = "ADD" <=> c = ADDC) /\ (m.type = "DEL" <=> c = DELC)
      /\ (m.type = "REP" <=> c = REPC)
  BY <1>4, <1>8 DEF ModType, ADDC, DELC, REPC
<1>10. m \in ModSet
  <2>1. Scope(start, end) \in ScopeSet /\ Scope(rep_start, rep_end) \in ScopeSet
    BY <1>6 DEF Scope, ScopeSet
  <2>2. ModType(c) \in {"ADD", "DEL", "REP"} BY <1>4 DEF ModType, ADDC, DELC, REPC
  <2> QED BY <2>1, <2>2 DEF NewMod, ModSet
<1>53. ADDC # DELC /\ REPC # ADDC /\ REPC # DELC BY DEF ADDC, DELC, REPC
<1> HIDE DEF end, rep_end, start, rep_start, m
\* The region with this character added.
<1>11. ~mg.newregion => RegionOpen /\ RegionChar = c
  BY <1>1, <1>3 DEF RegionOpen, RegionInv, ModsInv
<1>12. /\ IF c = ADDC THEN start = end ELSE line < start /\ start <= end
       /\ IF c = DELC THEN rep_start = rep_end ELSE repline < rep_start /\ rep_start <= rep_end
       /\ c = REPC => end - start = rep_end - rep_start
  <2>1. CASE mg.newregion
    <3>1. start = end /\ rep_start = rep_end BY <2>1, <1>5 DEF rep_start
    <3> HIDE DEF c
    <3>2. c # ADDC => line < end BY <1>50, <1>52, <1>7
    <3>3. c # DELC => repline < rep_end BY <1>50, <1>52, <1>7
    <3>4. end - end = 0 /\ rep_end - rep_end = 0 /\ end <= end /\ rep_end <= rep_end BY <1>6
    <3> QED BY ONLY <3>1, <3>2, <3>3, <3>4
  <2>2. CASE ~mg.newregion
    <3>1. start = mg.start /\ rep_start = mg.rep_start BY <2>2, <1>5 DEF rep_start
    <3>2. /\ IF c = ADDC THEN mg.start = mg.end ELSE line < mg.start /\ mg.start <= mg.end
          /\ IF c = DELC THEN mg.rep_start = mg.rep_end
             ELSE repline < mg.rep_start /\ mg.rep_start <= mg.rep_end
          /\ c = REPC => mg.end - mg.start = mg.rep_end - mg.rep_start
      BY <2>2, <1>11 DEF RegionInv, ModsInv
    <3> HIDE DEF c
    <3>3. IF c = ADDC THEN start = end ELSE line < start /\ start <= end
      BY <3>1, <3>2, <1>50, <1>52
    <3>4. IF c = DELC THEN rep_start = rep_end
          ELSE repline < rep_start /\ rep_start <= rep_end
      BY <3>1, <3>2, <1>50, <1>52
    <3>5. c = REPC => end - start = rep_end - rep_start
      BY <3>1, <3>2, <1>50, <1>52, <1>53
    <3> QED BY <3>3, <3>4, <3>5
  <2> QED BY <2>1, <2>2
<1>13. \A a \in DOMAIN mods :
         /\ mods[a].scope.end <= start /\ mods[a].rep_scope.end <= rep_start
         /\ c # ADDC => mods[a].scope.end < start
         /\ c # DELC => mods[a].rep_scope.end < rep_start
  <2>1. CASE mg.newregion
    <3>1. start = end /\ rep_start = rep_end BY <2>1, <1>5 DEF rep_start
    <3>2. \A a \in DOMAIN mods : mods[a].scope.end <= mg.end /\ mods[a].rep_scope.end <= mg.rep_end
      BY <1>1 DEF BehindInv, OldCur, NewCur, ModsInv
    <3>3. \A a \in DOMAIN mods : mods[a].scope.end \in Nat /\ mods[a].rep_scope.end \in Nat
      BY <1>3
    <3> HIDE DEF c
    <3> QED BY <3>1, <3>2, <3>3, <1>50, <1>52
  <2>2. CASE ~mg.newregion
    <3>1. start = mg.start /\ rep_start = mg.rep_start BY <2>2, <1>5 DEF rep_start
    <3> QED BY <3>1, <2>2, <1>11 DEF RegionInv, ModsInv
  <2> QED BY <2>1, <2>2
<1>14. /\ OldCover' \cup OldRegion'
            = (OldCover \cup OldRegion) \cup (IF c # ADDC THEN {end} ELSE {})
       /\ NewCover' \cup NewRegion'
            = (NewCover \cup NewRegion) \cup (IF c # DELC THEN {rep_end} ELSE {})
  <2>1. /\ c # ADDC => start..end = OldRegion \cup {end}
        /\ c = ADDC => OldRegion = {}
    <3>1. CASE mg.newregion
      <4>1. OldRegion = {} /\ start = end BY <3>1, <1>5 DEF OldRegion, RegionOpen
      <4>2. end..end = {end} BY <1>6
      <4> QED BY <4>1, <4>2
    <3>2. CASE ~mg.newregion
      <4>1. start = mg.start BY <3>2, <1>5
      <4>2. OldRegion = IF c # ADDC THEN mg.start..mg.end ELSE {}
        BY <3>2, <1>11 DEF OldRegion
      <4>3. c # ADDC => mg.start <= mg.end /\ end = mg.end + 1
        BY <3>2, <1>5, <1>11 DEF RegionInv, ModsInv
      <4> QED BY <4>1, <4>2, <4>3, <1>3
    <3> QED BY <3>1, <3>2
  <2>2. /\ c # DELC => rep_start..rep_end = NewRegion \cup {rep_end}
        /\ c = DELC => NewRegion = {}
    <3>1. CASE mg.newregion
      <4>1. NewRegion = {} /\ rep_start = rep_end
        BY <3>1, <1>5 DEF NewRegion, RegionOpen, rep_start
      <4>2. rep_end..rep_end = {rep_end} BY <1>6
      <4> QED BY <4>1, <4>2
    <3>2. CASE ~mg.newregion
      <4>1. rep_start = mg.rep_start BY <3>2 DEF rep_start
      <4>2. NewRegion = IF c # DELC THEN mg.rep_start..mg.rep_end ELSE {}
        BY <3>2, <1>11 DEF NewRegion
      <4>3. c # DELC => mg.rep_start <= mg.rep_end /\ rep_end = mg.rep_end + 1
        BY <3>2, <1>5, <1>11 DEF RegionInv, ModsInv
      <4> QED BY <4>1, <4>2, <4>3, <1>3
    <3> QED BY <3>1, <3>2
  <2>3. CASE RegionEnds(mg.k)
    <3>1. OldRegion' = {} /\ NewRegion' = {}
      BY <2>3, <1>2 DEF OldRegion, NewRegion, RegionOpen
    <3>2. /\ OldCover' = OldCover \cup (IF m.type # "ADD" THEN start..end ELSE {})
          /\ NewCover' = NewCover \cup (IF m.type # "DEL" THEN rep_start..rep_end ELSE {})
      BY <2>3, <1>1, <1>3, <1>8, <1>10, CoverAppend
    <3> QED BY <3>1, <3>2, <2>1, <2>2, <1>9
  <2>4. CASE ~RegionEnds(mg.k)
    <3>1. RegionOpen' /\ RegionChar' = c
      <4>1. mg'.k - 1 = mg.k BY <1>2, <1>3
      <4> QED BY <4>1, <2>4, <1>1, <1>2 DEF RegionOpen, RegionChar
    <3>2. /\ OldRegion' = (IF c # ADDC THEN start..end ELSE {})
          /\ NewRegion' = (IF c # DELC THEN rep_start..rep_end ELSE {})
      BY <3>1, <1>2 DEF OldRegion, NewRegion, ADDC, DELC
    <3>3. OldCover' = OldCover /\ NewCover' = NewCover BY <2>4, <1>1, CoverKept
    <3> QED BY <3>2, <3>3, <2>1, <2>2
  <2> QED BY <2>3, <2>4
<1>15. OldCur' = end /\ NewCur' = rep_end /\ OldCur = mg.end /\ NewCur = mg.rep_end
  BY <1>1, <1>2 DEF OldCur, NewCur
<1>16. CoverInv'
  <2>1. Removed' = Removed /\ Added' = Added BY <1>1, ChangedKept
  <2>2. OldLine(i)' = OldLine(i) /\ NewLine(i)' = NewLine(i)
    BY <1>1 DEF OldLine, NewLine, Count, seq
  <2>3. /\ Removed = (OldCover \cup OldRegion) \cup ((mg.end + 1)..OldLine(i))
        /\ Added = (NewCover \cup NewRegion) \cup ((mg.rep_end + 1)..NewLine(i))
    BY <1>1, <1>15 DEF CoverInv, ModsInv
  <2>4. (mg.end + 1)..OldLine(i)
          = (IF c # ADDC THEN {end} ELSE {}) \cup ((end + 1)..OldLine(i))
    <3> HIDE DEF c
    <3>1. CASE c = ADDC BY <3>1, <1>50
    <3>2. CASE c # ADDC BY <3>2, <1>7, <1>50, RangeFirst
    <3> QED BY <3>1, <3>2
  <2>5. (mg.rep_end + 1)..NewLine(i)
          = (IF c # DELC THEN {rep_end} ELSE {}) \cup ((rep_end + 1)..NewLine(i))
    <3> HIDE DEF c
    <3>1. CASE c = DELC BY <3>1, <1>50
    <3>2. CASE c # DELC BY <3>2, <1>7, <1>50, <1>52, RangeFirst
    <3> QED BY <3>1, <3>2
  <2>6. Removed = (OldCover' \cup OldRegion') \cup ((end + 1)..OldLine(i))
    BY ONLY <2>3, <2>4, <1>14
  <2>7. Added = (NewCover' \cup NewRegion') \cup ((rep_end + 1)..NewLine(i))
    BY ONLY <2>3, <2>5, <1>14
  <2> QED BY <2>1, <2>2, <2>6, <2>7, <1>15 DEF CoverInv
<1>17. MergeCoverInv'
  <2>1. /\ (line + 1)..mg.end \subseteq OldCover \cup OldRegion
        /\ (repline + 1)..mg.rep_end \subseteq NewCover \cup NewRegion
    BY <1>1 DEF MergeCoverInv, ModsInv
  <2> HIDE DEF c
  <2>2. (line + 1)..end = ((line + 1)..mg.end) \cup (IF c # ADDC THEN {end} ELSE {})
    <3>1. CASE c # ADDC BY <3>1, <1>50, <1>52, <1>7
    <3>2. CASE c = ADDC BY <3>2, <1>50
    <3> QED BY <3>1, <3>2
  <2>3. (repline + 1)..rep_end
          = ((repline + 1)..mg.rep_end) \cup (IF c # DELC THEN {rep_end} ELSE {})
    <3>1. CASE c # DELC BY <3>1, <1>50, <1>52, <1>7
    <3>2. CASE c = DELC BY <3>2, <1>50
    <3> QED BY <3>1, <3>2
  <2>4. (line + 1)..end \subseteq OldCover' \cup OldRegion'
    BY ONLY <2>1, <2>2, <1>14
  <2>5. (repline + 1)..rep_end \subseteq NewCover' \cup NewRegion'
    BY ONLY <2>1, <2>3, <1>14
  <2> QED BY <2>4, <2>5, <1>1, <1>2 DEF MergeCoverInv
<1>18. \/ ~RegionEnds(mg.k) /\ mods' = mods
       \/ /\ RegionEnds(mg.k) /\ mods' = Append(mods, m)
          /\ Len(mods') = Len(mods) + 1 /\ DOMAIN mods' = 1..(Len(mods) + 1)
          /\ mods'[Len(mods) + 1] = m
          /\ \A a \in 1..Len(mods) : mods'[a] = mods[a]
          /\ \A a \in 1..(Len(mods) + 1) : a \in 1..Len(mods) \/ a = Len(mods) + 1
  <2>1. CASE RegionEnds(mg.k)
    <3>1. mods' = Append(mods, m) BY <2>1, <1>1
    <3> QED BY <2>1, <3>1, <1>51, <1>10
  <2>2. CASE ~RegionEnds(mg.k) BY <2>2, <1>1
  <2> QED BY <2>1, <2>2
<1>19. RegionInv'
  <2> SUFFICES ASSUME RegionOpen' PROVE RegionInv' BY DEF RegionInv
  <2>1. ~RegionEnds(mg.k) BY <1>2 DEF RegionOpen
  <2>2. mg'.k - 1 = mg.k /\ mg'.k \in 2..Len(buf) /\ buf[mg.k + 1] = c
    BY <2>1, <1>2, <1>3, <1>4 DEF RegionEnds
  <2>3. RegionChar' = c BY <2>2, <1>1 DEF RegionChar
  <2>4. mods' = mods BY <2>1, <1>18
  <2> HIDE DEF c
  <2> QED BY <2>2, <2>3, <2>4, <1>1, <1>2, <1>12, <1>13 DEF RegionInv, ADDC, DELC, REPC
<1>20. BehindInv'
  <2>1. /\ start <= end /\ rep_start <= rep_end BY <1>12, <1>6
  <2>2. \A a \in DOMAIN mods :
          /\ mods[a].scope.begin <= mods[a].scope.end /\ mods[a].scope.end <= end
          /\ mods[a].rep_scope.begin <= mods[a].rep_scope.end /\ mods[a].rep_scope.end <= rep_end
    <3>1. mg.end <= end /\ mg.rep_end <= rep_end BY <1>3, <1>5
    <3> QED BY <3>1, <1>3, <1>6, <1>15, SMTT(30) DEF BehindInv, ModsInv
  <2>3. \A a \in DOMAIN mods' :
          /\ mods'[a].scope.begin <= mods'[a].scope.end /\ mods'[a].scope.end <= end
          /\ mods'[a].rep_scope.begin <= mods'[a].rep_scope.end
          /\ mods'[a].rep_scope.end <= rep_end
    <3>1. CASE mods' = mods BY <3>1, <2>2
    <3>2. CASE mods' # mods
      <4>1. CASE RegionEnds(mg.k)
        <5>1. end <= end /\ rep_end <= rep_end BY <1>6
        <5> QED BY <4>1, <5>1, <2>1, <2>2, <1>8, <1>18, <1>51
      <4> QED BY <4>1, <3>2, <1>18
    <3> QED BY <3>1, <3>2
  <2> QED BY <2>3, <1>15 DEF BehindInv
<1>21. ModsOrdered'
  <2>1. CASE mods' = mods BY <2>1 DEF ModsOrdered, ModsInv
  <2>2. CASE mods' # mods
    <3> SUFFICES ASSUME NEW a \in DOMAIN mods', NEW b \in DOMAIN mods', a < b
                 PROVE  /\ mods'[a].scope.end <= mods'[b].scope.begin
                        /\ mods'[a].rep_scope.end <= mods'[b].rep_scope.begin
                        /\ mods'[a].type # "ADD" /\ mods'[b].type # "ADD"
                             => mods'[a].scope.end < mods'[b].scope.begin
                        /\ mods'[a].type # "DEL" /\ mods'[b].type # "DEL"
                             => mods'[a].rep_scope.end < mods'[b].rep_scope.begin
      BY DEF ModsOrdered
    <3>1. a \in 1..Len(mods) BY <2>2, <1>3, <1>18
    <3>2. CASE b \in 1..Len(mods)
      BY <3>1, <3>2, <2>2, <1>3, <1>18, SMTT(30) DEF ModsOrdered, ModsInv
    <3>3. CASE b = Len(mods) + 1
      BY <3>1, <3>3, <2>2, <1>3, <1>8, <1>9, <1>13, <1>18
    <3> QED BY <3>2, <3>3, <2>2, <1>18
  <2> QED BY <2>1, <2>2
<1>22. \A p \in 1..(mg.k - 1) : c = ADDC => buf[p] # DELC
  BY <1>3, <1>4 DEF NoDelBeforeAdd, ModsInv
<1>23. mods # <<>> /\ mods[Len(mods)].type = "DEL" /\ mods[Len(mods)].scope.end = mg.end
         => \E p \in 1..(mg.k - 1) : buf[p] = DELC
  BY <1>1, <1>15 DEF LastDelInv, ModsInv
<1>24. ReplacementsPaired'
  <2>1. CASE mods' = mods BY <2>1 DEF ReplacementsPaired, ModsInv
  <2>2. CASE mods' # mods
    <3>1. ASSUME NEW n \in 1..(Len(mods') - 1),
                 mods'[n].type = "DEL", mods'[n + 1].type = "ADD",
                 mods'[n + 1].scope.begin = mods'[n].scope.end
          PROVE  FALSE
      <4>1. n \in 1..Len(mods) /\ mods'[n] = mods[n] BY <2>2, <1>3, <1>18, SMTT(30)
      <4>2. CASE n < Len(mods)
        <5>1. n + 1 \in 1..Len(mods) /\ n \in 1..(Len(mods) - 1) BY <4>1, <4>2, <1>3
        <5> QED BY <5>1, <4>1, <3>1, <2>2, <1>18 DEF ReplacementsPaired, ModsInv
      <4>3. CASE n = Len(mods)
        <5>1. mods'[n + 1] = m /\ c = ADDC /\ start = mods[n].scope.end
          BY <4>1, <4>3, <3>1, <2>2, <1>8, <1>9, <1>18
        <5>2. start = mg.end BY <5>1, <1>5, <1>12
        <5>3. mods # <<>> BY <4>1, <4>3, <1>3
        <5> QED BY <5>1, <5>2, <5>3, <4>1, <4>3, <3>1, <1>22, <1>23
      <4>4. n \in 1..Len(mods) /\ Len(mods) \in Nat BY <4>1, <1>51
      <4>5. n < Len(mods) \/ n = Len(mods) BY ONLY <4>4
      <4> QED BY ONLY <4>2, <4>3, <4>5
    <3>2. ASSUME NEW n \in DOMAIN mods', mods'[n].type = "REP"
          PROVE  mods'[n].scope.end - mods'[n].scope.begin
                   = mods'[n].rep_scope.end - mods'[n].rep_scope.begin
      <4>1. CASE n \in 1..Len(mods)
        BY <4>1, <3>2, <2>2, <1>3, <1>18 DEF ReplacementsPaired, ModsInv
      <4>2. CASE n = Len(mods) + 1
        BY <4>2, <3>2, <2>2, <1>8, <1>9, <1>12, <1>18
      <4> QED BY <4>1, <4>2, <2>2, <1>18
    <3> QED BY <3>1, <3>2 DEF ReplacementsPaired
  <2> QED BY <2>1, <2>2
<1>25. LastDelInv'
  <2> SUFFICES ASSUME mods' # <<>>, mods'[Len(mods')].type = "DEL",
                      mods'[Len(mods')].scope.end = end
               PROVE  \E p \in 1..(mg'.k - 1) : buf[p] = DELC
    BY <1>1, <1>15 DEF LastDelInv
  <2>1. mg'.k - 1 = mg.k BY <1>2, <1>3
  <2>2. CASE mods' = mods
    <3>1. Len(mods) \in DOMAIN mods BY <2>2, <1>3
    <3>2. mods[Len(mods)].scope.end <= mg.end
      BY <3>1, <1>15 DEF BehindInv, ModsInv
    <3>3. mods[Len(mods)].scope.end = mg.end BY <3>1, <3>2, <2>2, <1>3, <1>5
    <3>4. \E p \in 1..(mg.k - 1) : buf[p] = DELC BY <3>3, <2>2, <1>23
    <3> QED BY <3>4, <2>1, <1>3
  <2>3. CASE mods' # mods
    <3>1. c = DELC BY <2>3, <1>3, <1>9, <1>18
    <3> QED BY <3>1, <2>1, <1>4, <1>3
  <2> QED BY <2>2, <2>3
<1>26. ChunkInv'
  <2>1. /\ seq' = seq /\ \A n : OldLine(n)' = OldLine(n) /\ NewLine(n)' = NewLine(n)
        /\ \A n : IsChunkStart(n)' = IsChunkStart(n)
    BY <1>1 DEF seq, OldLine, NewLine, Count, IsChunkStart
  <2>2. ChunkOpen BY <1>1 DEF ChunkOpen
  <2> QED BY <2>1, <2>2, <1>1 DEF ChunkInv, CtrlChars, ModsInv
<1>27. NoModsYet' /\ NoDelBeforeAdd' BY <1>1 DEF NoModsYet, NoDelBeforeAdd, ModsInv
<1>28. EnclosingInv'
  BY <1>1 DEF EnclosingInv, EnclosingSpansMods, ModsInv
<1> QED
  BY <1>16, <1>17, <1>19, <1>20, <1>21, <1>24, <1>25, <1>26, <1>27, <1>28 DEF ModsInv

LEMMA MergeReturnMods ==
  ASSUME IInv, ModsInv, MergeReturn, IInv'
  PROVE  ModsInv'
<1>1. /\ pc = "merge" /\ pc' = "scan" /\ hunk' = hunk /\ i' = i /\ buf' = buf
      /\ line' = mg.end /\ repline' = mg.rep_end /\ mods' = mods /\ mg' = mg
      /\ enclosing' = enclosing /\ ret' = ret
  BY DEF MergeReturn
<1>2. i > 0 /\ seq[i] # SAMC /\ ChunkEndsAt(i) BY <1>1 DEF IInv, MergeInv
<1>3. /\ seq' = seq /\ \A n : OldLine(n)' = OldLine(n) /\ NewLine(n)' = NewLine(n)
      /\ \A n : IsChunkStart(n)' = IsChunkStart(n)
      /\ OldLine(i)' = OldLine(i) /\ NewLine(i)' = NewLine(i)
      /\ ChunkEndsAt(i)' = ChunkEndsAt(i)
  BY <1>1 DEF seq, OldLine, NewLine, Count, IsChunkStart, ChunkEndsAt
<1>4. ~RegionOpen
  <2>1. mg.k \in Nat /\ Len(buf) \in Nat BY TypeFacts DEF IInv
  <2>2. mg.k > Len(buf) BY DEF MergeReturn
  <2> QED BY <2>1, <2>2 DEF ModsInv, RegionInv
<1>5. /\ OldCur' = OldCur /\ NewCur' = NewCur
      /\ OldRegion = {} /\ NewRegion = {} /\ OldRegion' = {} /\ NewRegion' = {}
      /\ ~RegionOpen'
  BY <1>1, <1>4 DEF OldCur, NewCur, OldRegion, NewRegion, RegionOpen
<1>6. CoverInv'
  <2>1. Removed' = Removed /\ Added' = Added BY <1>1, ChangedKept
  <2>2. OldCover' = OldCover /\ NewCover' = NewCover BY <1>1, CoverKept
  <2> QED BY <1>1, <1>3, <1>5, <2>1, <2>2 DEF CoverInv, ModsInv
<1>7. ~ChunkOpen' BY <1>1, <1>2, <1>3 DEF ChunkOpen
<1>8. LastDelInv' BY <1>1, <1>2, <1>3 DEF LastDelInv
<1>9. ChunkInv' BY <1>1, <1>3, <1>7 DEF ChunkInv, CtrlChars, ModsInv
<1>10. BehindInv' /\ ModsOrdered' BY <1>1, <1>5 DEF BehindInv, ModsOrdered, ModsInv
<1> QED
  BY <1>1, <1>5, <1>6, <1>8, <1>9, <1>10 DEF ModsInv, NoModsYet, MergeCoverInv, RegionInv,
     NoDelBeforeAdd, ReplacementsPaired, EnclosingInv, EnclosingSpansMods

\* The first Mod begins, and the last one ends, the scopes that enclose them all.
LEMMA EnclosingSpans ==
  ASSUME TypeOK, BehindInv, ModsOrdered, mods # <<>>,
         NEW e, e = EnclosingOfMods, NEW k \in DOMAIN mods
  PROVE  /\ e.old.begin <= mods[k].scope.begin /\ mods[k].scope.end <= e.old.end
         /\ e.new.begin <= mods[k].rep_scope.begin /\ mods[k].rep_scope.end <= e.new.end
<1> DEFINE n == Len(mods)
<1>1. /\ n \in Nat /\ DOMAIN mods = 1..n /\ 1 \in DOMAIN mods /\ n \in DOMAIN mods
      /\ k \in Nat /\ 1 <= k /\ k <= n
  BY TypeFacts
<1>2. \A a \in DOMAIN mods :
        /\ mods[a].scope.begin \in Nat /\ mods[a].scope.end \in Nat
        /\ mods[a].rep_scope.begin \in Nat /\ mods[a].rep_scope.end \in Nat
        /\ mods[a].scope.begin <= mods[a].scope.end
        /\ mods[a].rep_scope.begin <= mods[a].rep_scope.end
  BY TypeFacts DEF BehindInv
<1>3. /\ e.old.begin = mods[1].scope.begin /\ e.old.end = mods[n].scope.end
      /\ e.new.begin = mods[1].rep_scope.begin /\ e.new.end = mods[n].rep_scope.end
  BY DEF EnclosingOfMods, Scope
<1> HIDE DEF n
<1>4. /\ mods[1].scope.begin <= mods[k].scope.begin
      /\ mods[1].rep_scope.begin <= mods[k].rep_scope.begin
  <2>1. CASE k = 1 BY <2>1, <1>1, <1>2
  <2>2. CASE k # 1
    <3>1. /\ mods[1].scope.end <= mods[k].scope.begin
          /\ mods[1].rep_scope.end <= mods[k].rep_scope.begin
      BY <2>2, <1>1 DEF ModsOrdered
    <3> QED BY <3>1, <1>1, <1>2
  <2> QED BY <2>1, <2>2
<1>5. /\ mods[k].scope.end <= mods[n].scope.end
      /\ mods[k].rep_scope.end <= mods[n].rep_scope.end
  <2>1. CASE k = n BY <2>1, <1>1, <1>2
  <2>2. CASE k # n
    <3>1. /\ mods[k].scope.end <= mods[n].scope.begin
          /\ mods[k].rep_scope.end <= mods[n].rep_scope.begin
      BY <2>2, <1>1 DEF ModsOrdered
    <3> QED BY <3>1, <1>1, <1>2
  <2> QED BY <2>1, <2>2
<1> QED BY <1>3, <1>4, <1>5

LEMMA LeaveMods ==
  ASSUME IInv, ModsInv, RejectEmpty \/ Invalid \/ Return, IInv'
  PROVE  ModsInv'
<1>1. /\ pc' = "done" /\ pc \in {"entry", "scan"}
      /\ UNCHANGED <<hunk, i, line, repline, buf, mg, mods>>
  BY DEF RejectEmpty, Invalid, Return
<1>2. OldCur' = OldCur /\ NewCur' = NewCur /\ ~RegionOpen'
  BY <1>1 DEF OldCur, NewCur, RegionOpen
<1>3. EnclosingInv'
  <2>1. CASE Return
    <3>1. enclosing' = EnclosingOfMods BY <2>1 DEF Return
    <3>2. CASE mods = <<>>
      <4>1. DOMAIN mods' = {} BY <3>2, <1>1
      <4> QED BY <4>1, <1>1 DEF EnclosingInv, EnclosingSpansMods
    <3>3. CASE mods # <<>>
      <4>1. TypeOK /\ BehindInv /\ ModsOrdered BY DEF IInv, ModsInv
      <4> QED
        BY <3>1, <3>3, <4>1, <1>1, EnclosingSpans DEF EnclosingInv, EnclosingSpansMods
    <3> QED BY <3>2, <3>3
  <2>2. CASE RejectEmpty \/ Invalid
    <3>1. ret' = "false" BY <2>2 DEF RejectEmpty, Invalid
    <3> QED BY <3>1 DEF EnclosingInv, EnclosingSpansMods
  <2> QED BY <2>1, <2>2
<1>4. ChunkInv' BY <1>1 DEF ChunkInv, CtrlChars, seq, ModsInv
<1> QED
  BY <1>1, <1>2, <1>3, <1>4 DEF ModsInv, NoModsYet, CoverInv, MergeCoverInv, RegionInv,
     BehindInv, ModsOrdered, NoDelBeforeAdd, LastDelInv, ReplacementsPaired

LEMMA StutterMods ==
  ASSUME ModsInv, UNCHANGED vars
  PROVE  ModsInv'
<1>1. OldLine(i)' = OldLine(i) /\ NewLine(i)' = NewLine(i) /\ seq' = seq
      /\ Removed' = Removed /\ Added' = Added /\ OldCover' = OldCover /\ NewCover' = NewCover
      /\ ChunkOpen' = ChunkOpen /\ ChunkEndsAt(i)' = ChunkEndsAt(i)
      /\ (\A n : OldLine(n)' = OldLine(n) /\ NewLine(n)' = NewLine(n))
      /\ (\A n : IsChunkStart(n)' = IsChunkStart(n))
  BY ChangedKept, CoverKept DEF vars, OldLine, NewLine, Count, seq, ChunkOpen, ChunkEndsAt,
     IsChunkStart
<1>2. OldCur' = OldCur /\ NewCur' = NewCur /\ OldRegion' = OldRegion /\ NewRegion' = NewRegion
      /\ RegionOpen' = RegionOpen /\ RegionChar' = RegionChar
  BY DEF vars, OldCur, NewCur, OldRegion, NewRegion, RegionOpen, RegionChar
<1> QED
  BY <1>1, <1>2 DEF vars, ModsInv, NoModsYet, CoverInv, MergeCoverInv, RegionInv, BehindInv,
     ModsOrdered, NoDelBeforeAdd, LastDelInv, ReplacementsPaired, EnclosingInv,
     EnclosingSpansMods, ChunkInv

LEMMA NextModsInv == IInv /\ ModsInv /\ [Next]_vars => ModsInv'
<1> SUFFICES ASSUME IInv, ModsInv, [Next]_vars PROVE ModsInv' OBVIOUS
<1>0. IInv' BY NextIInv
<1>1. CASE RejectEmpty \/ Invalid \/ Return BY <1>0, <1>1, LeaveMods
<1>2. CASE Enter BY <1>0, <1>2, EnterMods
<1>3. CASE Same BY <1>0, <1>3, SameMods
<1>4. CASE AddPlain BY <1>0, <1>4, AddPlainMods
<1>5. CASE AddReplace BY <1>0, <1>5, AddReplaceMods
<1>6. CASE Del BY <1>0, <1>6, DelMods
<1>7. CASE MergeChar BY <1>0, <1>7, MergeCharMods
<1>8. CASE MergeReturn BY <1>0, <1>8, MergeReturnMods
<1>9. CASE Done \/ UNCHANGED vars BY <1>9, StutterMods DEF Done
<1> QED
  BY <1>1, <1>2, <1>3, <1>4, <1>5, <1>6, <1>7, <1>8, <1>9 DEF Next

LEMMA ModsInvHolds == Spec => [](IInv /\ ModsInv)
BY InitIInv, InitModsInv, NextIInv, NextModsInv, PTL DEF Spec

(***************************************************************************)
(* For control sequences of every length, the Mods of a hunk cover exactly *)
(* the lines the script changes, in order, with replacements paired and    *)
(* the enclosing scopes around all of them (Hunk::reduce and merge).       *)
(***************************************************************************)
THEOREM ModsAlwaysExact == Spec => []ModsExact
<1>1. IInv /\ ModsInv => ModsExact
  <2> SUFFICES ASSUME IInv, ModsInv PROVE ModsExact OBVIOUS
  <2>1. ModsCoverChanges
    <3> SUFFICES ASSUME pc = "scan", ~ChunkOpen
                 PROVE  OldCover = Removed /\ NewCover = Added
      BY DEF ModsCoverChanges
    <3>1. line = OldLine(i) /\ repline = NewLine(i) BY CursorsAtRest
    <3>2. line \in Nat /\ repline \in Nat BY TypeFacts DEF IInv
    <3>3. (line + 1)..line = {} /\ (repline + 1)..repline = {} BY <3>2
    <3>4. OldRegion = {} /\ NewRegion = {} /\ OldCur = line /\ NewCur = repline
      BY DEF OldRegion, NewRegion, RegionOpen, OldCur, NewCur
    <3> QED BY <3>1, <3>3, <3>4 DEF ModsInv, CoverInv
  <2> QED BY <2>1 DEF ModsExact, ModsInv, EnclosingInv
<1> QED BY <1>1, ModsInvHolds, PTL

-----------------------------------------------------------------------------
(***************************************************************************)
(* The refinement.                                                         *)
(***************************************************************************)
WalkPos == IF Unmerged THEN ChunkStart ELSE i
WalkOld == IF Entered THEN line ELSE hunk.start_line - 1
WalkNew == IF Entered THEN repline ELSE hunk.rep_start_line - 1
OldTouched == {l \in OldCover : ~Entered \/ l <= line}
NewTouched == {l \in NewCover : ~Entered \/ l <= repline}
walkVars == <<hunk, WalkPos, WalkOld, WalkNew, OldTouched, NewTouched>>
WalkStep == Walk!Next \/ UNCHANGED walkVars

\* reduce is past its first test while it runs, and has no result yet.
EnteredInv == /\ pc \in {"scan", "merge"} => Entered
              /\ pc # "done" => ret = "none"

LEMMA EnteredHolds == Spec => []EnteredInv
<1>1. Init => EnteredInv BY DEF Init, EnteredInv
<1>2. EnteredInv /\ [Next]_vars => EnteredInv'
  <2> USE DEF EnteredInv, Entered, seq
  <2> SUFFICES ASSUME EnteredInv, [Next]_vars PROVE EnteredInv' OBVIOUS
  <2>1. CASE RejectEmpty \/ Invalid \/ Return BY <2>1 DEF RejectEmpty, Invalid, Return
  <2>2. CASE Enter BY <2>2 DEF Enter, Rejected
  <2>3. CASE Same BY <2>3 DEF Same, Reads
  <2>4. CASE AddPlain \/ AddReplace \/ Del
    BY <2>4 DEF AddPlain, AddReplace, Del, Reads, MergeIfChunkEnds
  <2>5. CASE MergeChar BY <2>5 DEF MergeChar
  <2>6. CASE MergeReturn BY <2>6 DEF MergeReturn
  <2>7. CASE Done \/ UNCHANGED vars BY <2>7 DEF Done, vars
  <2> QED BY <2>1, <2>2, <2>3, <2>4, <2>5, <2>6, <2>7 DEF Next
<1> QED BY <1>1, <1>2, PTL DEF Spec

\* A chunk begins in one place only.
LEMMA ChunkStartIs ==
  ASSUME NEW s, NEW n \in Nat, NEW p \in 0..n, p = 0 \/ s[p] = SAMC,
         \A q \in (p + 1)..n : s[q] # SAMC
  PROVE  p = CHOOSE r \in 0..n : /\ r = 0 \/ s[r] = SAMC
                                 /\ \A q \in (r + 1)..n : s[q] # SAMC
<1> DEFINE P(r) == /\ r = 0 \/ s[r] = SAMC
                   /\ \A q \in (r + 1)..n : s[q] # SAMC
<1>1. P(p) OBVIOUS
<1>2. ASSUME NEW r \in 0..n, P(r) PROVE r = p
  <2>1. CASE r < p
    <3>1. p \in (r + 1)..n /\ p # 0 BY <2>1
    <3> QED BY <3>1, <1>2
  <2>2. CASE p < r
    <3>1. r \in (p + 1)..n /\ r # 0 BY <2>2
    <3> QED BY <3>1, <1>2
  <2> QED BY <2>1, <2>2
<1> HIDE DEF P
<1>3. p = CHOOSE r \in 0..n : P(r) BY <1>1, <1>2
<1> QED BY <1>3 DEF P

\* Every line of a Mod is behind the cursors.
LEMMA CoverBehind ==
  ASSUME TypeOK, BehindInv
  PROVE  /\ OldCover \subseteq Nat /\ \A l \in OldCover : l <= OldCur
         /\ NewCover \subseteq Nat /\ \A l \in NewCover : l <= NewCur
<1>1. /\ OldCur \in Nat /\ NewCur \in Nat BY TypeFacts DEF OldCur, NewCur
<1>2. \A a \in DOMAIN mods :
        /\ mods[a].scope.begin \in Nat /\ mods[a].scope.end \in Nat
        /\ mods[a].rep_scope.begin \in Nat /\ mods[a].rep_scope.end \in Nat
        /\ mods[a].scope.end <= OldCur /\ mods[a].rep_scope.end <= NewCur
  BY TypeFacts DEF BehindInv
<1>3. ASSUME NEW l \in OldCover PROVE l \in Nat /\ l <= OldCur
  <2>1. PICK a \in DOMAIN mods : l \in mods[a].scope.begin..mods[a].scope.end
    BY DEF OldCover
  <2> QED BY <2>1, <1>1, <1>2
<1>4. ASSUME NEW l \in NewCover PROVE l \in Nat /\ l <= NewCur
  <2>1. PICK a \in DOMAIN mods : l \in mods[a].rep_scope.begin..mods[a].rep_scope.end
    BY DEF NewCover
  <2> QED BY <2>1, <1>1, <1>2
<1> QED BY <1>3, <1>4

\* While a chunk is open, the walk waits where it began.
LEMMA WalkWaits ==
  ASSUME TypeOK, EnteredInv, pc \in {"scan", "merge"}, NEW p \in 0..i, IsChunkStart(p),
         ChunkOpen
  PROVE  WalkPos = p
<1>1. i \in Nat BY TypeFacts
<1>2. ChunkStart = p BY <1>1, ChunkStartIs DEF IsChunkStart, ChunkStart
<1> QED BY <1>2 DEF WalkPos, Unmerged

\* The characters of a kind in a chunk are the difference of two counts.
LEMMA CharCountSplit ==
  ASSUME NEW s, NEW chars, NEW n \in Nat, NEW p \in 0..n
  PROVE  /\ Cardinality({q \in (p + 1)..n : s[q] \in chars}) \in Nat
         /\ CharCount(s, chars, n)
              = CharCount(s, chars, p) + Cardinality({q \in (p + 1)..n : s[q] \in chars})
<1> DEFINE A == {q \in 1..p : s[q] \in chars}
           B == {q \in (p + 1)..n : s[q] \in chars}
           C == {q \in 1..n : s[q] \in chars}
<1>1. p \in Nat /\ p <= n OBVIOUS
<1>2. C = A \cup B /\ A \cap B = {} BY <1>1
<1>3. IsFiniteSet(C) /\ IsFiniteSet(A) BY <1>1, CharCountType
<1>4. B \subseteq C BY <1>2
<1>5. IsFiniteSet(B) BY <1>3, <1>4, FS_Subset
<1> HIDE DEF A, B, C
<1>6. Cardinality(C) = Cardinality(A) + Cardinality(B) - Cardinality(A \cap B)
  BY <1>2, <1>3, <1>5, FS_Union
<1>7. Cardinality(A \cap B) = 0 BY <1>2, FS_EmptySet
<1>8. Cardinality(A) \in Nat /\ Cardinality(B) \in Nat BY <1>3, <1>5, FS_CardinalityType
<1>9. Cardinality(C) = Cardinality(A) + Cardinality(B) BY <1>6, <1>7, <1>8
<1> QED BY <1>8, <1>9 DEF CharCount, A, B, C

LEMMA InitWalk == Init => Walk!Init
<1> SUFFICES ASSUME Init PROVE Walk!Init OBVIOUS
<1>1. i = 0 /\ pc = "entry" /\ ret = "none" /\ mods = <<>> /\ hunk \in Hunks BY DEF Init
<1>2. ~Unmerged /\ ~Entered BY <1>1 DEF Unmerged, ChunkOpen, Entered
<1>3. OldCover = {} /\ NewCover = {} BY <1>1 DEF OldCover, NewCover
<1> QED BY <1>1, <1>2, <1>3 DEF Walk!Init

\* Until a step changes the hunk, the position or the cursors, the walk stutters.
LEMMA LeaveWalk ==
  ASSUME IInv, ModsInv, EnteredInv, RejectEmpty \/ Enter \/ Invalid \/ Return, EnteredInv'
  PROVE  UNCHANGED walkVars
<1>1. hunk' = hunk /\ i' = i /\ mods' = mods /\ seq' = seq
  BY DEF RejectEmpty, Enter, Invalid, Return, seq
<1>2. OldCover' = OldCover /\ NewCover' = NewCover /\ ChunkStart' = ChunkStart
  BY <1>1, CoverKept DEF ChunkStart
<1>3. CASE RejectEmpty
  <2>1. i = 0 /\ pc = "entry" BY <1>3 DEF RejectEmpty, IInv, EntryInv
  <2>2. ~Unmerged /\ ~Unmerged'
    BY <2>1, <1>1, <1>3 DEF Unmerged, ChunkOpen, RejectEmpty, EnteredInv
  <2>3. ~Entered /\ ~Entered' BY <1>1, <1>3 DEF Entered, RejectEmpty, Rejected
  <2> QED BY <2>2, <2>3, <1>1, <1>2 DEF walkVars, WalkPos, WalkOld, WalkNew, OldTouched, NewTouched
<1>4. CASE Enter
  <2>1. i = 0 /\ pc = "entry" /\ mods = <<>>
    BY <1>4 DEF Enter, IInv, EntryInv, ModsInv, NoModsYet
  <2>2. ~Unmerged /\ ~Unmerged'
    BY <2>1, <1>1, <1>4 DEF Unmerged, ChunkOpen, Enter, EnteredInv
  <2>3. /\ ~Entered /\ Entered'
        /\ line' = hunk.start_line - 1 /\ repline' = hunk.rep_start_line - 1
    BY <2>1, <1>4 DEF Entered, Enter, EnteredInv
  <2>4. OldCover = {} /\ NewCover = {} BY <2>1 DEF OldCover, NewCover
  <2> QED
    BY <2>2, <2>3, <2>4, <1>1, <1>2
    DEF walkVars, WalkPos, WalkOld, WalkNew, OldTouched, NewTouched
<1>5. CASE Invalid \/ Return
  <2>1. /\ pc = "scan" /\ pc' = "done" /\ ret = "none" /\ Entered
        /\ line' = line /\ repline' = repline
    BY <1>5 DEF Invalid, Return, EnteredInv
  <2>2. Entered' BY <2>1, <1>1 DEF Entered
  <2>3. i \in Nat /\ Len(seq) \in Nat BY TypeFacts DEF IInv
  <2>4. Unmerged' = Unmerged
    <3>1. CASE Invalid
      <4>1. ret' = "false" /\ i < Len(seq) /\ seq[i + 1] # SAMC
        BY <3>1 DEF Invalid, CtrlChars
      <4>2. ~ChunkEndsAt(i) BY <4>1, <2>3 DEF ChunkEndsAt
      <4> QED BY <4>1, <4>2, <2>1, <1>1 DEF Unmerged, ChunkOpen
    <3>2. CASE Return
      <4>1. ret' = "true" /\ ChunkEndsAt(i) BY <3>2 DEF Return, ChunkEndsAt
      <4> QED BY <4>1, <2>1, <1>1 DEF Unmerged, ChunkOpen
    <3> QED BY <3>1, <3>2, <1>5
  <2> QED
    BY <2>1, <2>2, <2>4, <1>1, <1>2
    DEF walkVars, WalkPos, WalkOld, WalkNew, OldTouched, NewTouched
<1> QED BY <1>3, <1>4, <1>5

LEMMA SameWalk ==
  ASSUME IInv, ModsInv, EnteredInv, Same, EnteredInv'
  PROVE  Walk!Next
<1>1. /\ pc = "scan" /\ pc' = "scan" /\ i' = i + 1 /\ mods' = mods
      /\ hunk' = hunk /\ seq[i + 1] = SAMC /\ i < Len(seq)
      /\ line' = line + 1 /\ repline' = repline + 1
  BY DEF Same, Reads
<1>2. i \in Nat /\ line \in Nat /\ repline \in Nat BY TypeFacts DEF IInv
<1>3. seq' = seq BY <1>1 DEF seq
<1>4. ~ChunkOpen /\ ~ChunkOpen' BY <1>1, <1>3 DEF ChunkOpen, ChunkEndsAt
<1>5. ret = "none" /\ ret' = "none" /\ Entered /\ Entered' BY <1>1 DEF EnteredInv
<1>6. ~Unmerged /\ ~Unmerged' BY <1>4, <1>5 DEF Unmerged
<1>7. OldTouched' = OldTouched /\ NewTouched' = NewTouched
  <2>1. OldCover' = OldCover /\ NewCover' = NewCover BY <1>1, CoverKept
  <2>2. /\ OldCover \subseteq Nat /\ \A l \in OldCover : l <= line
        /\ NewCover \subseteq Nat /\ \A l \in NewCover : l <= repline
    BY <1>1, CoverBehind DEF IInv, ModsInv, OldCur, NewCur
  <2>3. /\ \A l \in OldCover : l <= line + 1
        /\ \A l \in NewCover : l <= repline + 1
    BY <2>2, <1>2
  <2> QED BY <2>1, <2>2, <2>3, <1>1 DEF OldTouched, NewTouched
<1> QED
  BY <1>1, <1>5, <1>6, <1>7
  DEF Walk!Next, Walk!Keep, Walk!CharAt, seq, SAMC, OldTouched, NewTouched

LEMMA ChunkCharWalk ==
  ASSUME IInv, ModsInv, EnteredInv, AddPlain \/ AddReplace \/ Del,
         IInv', ModsInv', EnteredInv'
  PROVE  UNCHANGED walkVars
<1>1. /\ pc = "scan" /\ pc' \in {"scan", "merge"} /\ i' = i + 1 /\ mods' = mods
      /\ hunk' = hunk /\ seq[i + 1] \in {ADDC, DELC} /\ i < Len(seq)
      /\ line' = line /\ repline' = repline
      /\ pc' = "scan" => ~ChunkEndsAt(i + 1)
  BY DEF AddPlain, AddReplace, Del, Reads, MergeIfChunkEnds
<1>2. i \in Nat BY TypeFacts DEF IInv
<1>3. seq' = seq /\ ChunkEndsAt(i)' = ChunkEndsAt(i + 1) /\ seq[i + 1] # SAMC
  BY <1>1 DEF seq, ChunkEndsAt, SAMC, ADDC, DELC
<1>4. ChunkOpen' BY <1>1, <1>2, <1>3 DEF ChunkOpen
<1>5. ret = "none" /\ Entered /\ Entered' BY <1>1 DEF EnteredInv
<1>6. \E p \in 0..i : IsChunkStart(p) /\ WalkPos = p
  <2>1. CASE ChunkOpen
    <3>1. PICK p \in 0..i : IsChunkStart(p) BY <1>1 DEF ModsInv, ChunkInv
    <3>2. WalkPos = p BY <2>1, <3>1, <1>1, WalkWaits DEF IInv
    <3> QED BY <3>1, <3>2
  <2>2. CASE ~ChunkOpen
    <3>1. i = 0 \/ seq[i] = SAMC BY <2>2, <1>1, <1>2, <1>3 DEF ChunkOpen, ChunkEndsAt
    <3>2. (i + 1)..i = {} /\ i \in 0..i BY <1>2
    <3>3. WalkPos = i BY <2>2, <1>5 DEF WalkPos, Unmerged
    <3> QED BY <3>1, <3>2, <3>3 DEF IsChunkStart
  <2> QED BY <2>1, <2>2
<1>7. PICK p \in 0..i : IsChunkStart(p) /\ WalkPos = p BY <1>6
<1>8. WalkPos' = p
  <2>1. \A q \in (p + 1)..(i + 1) : q \in (p + 1)..i \/ q = i + 1 BY <1>2
  <2>2. /\ p \in 0..(i + 1) /\ i + 1 \in Nat
        /\ p = 0 \/ seq[p] = SAMC
        /\ \A q \in (p + 1)..(i + 1) : seq[q] # SAMC
    BY <1>2, <1>3, <1>7, <2>1 DEF IsChunkStart
  <2>3. p = CHOOSE r \in 0..(i + 1) : /\ r = 0 \/ seq[r] = SAMC
                                      /\ \A q \in (r + 1)..(i + 1) : seq[q] # SAMC
    BY <2>2, ChunkStartIs
  <2>4. ChunkStart' = p BY <2>3, <1>1, <1>3 DEF ChunkStart
  <2> QED BY <2>4, <1>4 DEF WalkPos, Unmerged
<1>9. OldCover' = OldCover /\ NewCover' = NewCover BY <1>1, CoverKept
<1> QED
  BY <1>1, <1>5, <1>7, <1>8, <1>9 DEF walkVars, WalkOld, WalkNew, OldTouched, NewTouched

LEMMA MergeCharWalk ==
  ASSUME IInv, ModsInv, EnteredInv, MergeChar, EnteredInv'
  PROVE  UNCHANGED walkVars
<1> DEFINE c == buf[mg.k]
           end == EndAfter(c)
           rep_end == RepEndAfter(c)
           start == RegionStart(end)
           rep_start == IF mg.newregion THEN rep_end ELSE mg.rep_start
           m == NewMod(start, end, rep_start, rep_end, c)
<1>1. /\ pc = "merge" /\ pc' = "merge" /\ hunk' = hunk /\ i' = i
      /\ line' = line /\ repline' = repline /\ mg.k <= Len(buf)
      /\ mods' = Append(mods, m) \/ mods' = mods
  BY DEF MergeChar
<1>2. /\ buf \in Seq({ADDC, DELC, REPC}) /\ Len(buf) \in Nat
      /\ mg.k \in Nat /\ mg.k > 0 /\ line \in Nat /\ repline \in Nat
      /\ mg.start \in Nat /\ mg.end \in Nat /\ mg.rep_start \in Nat /\ mg.rep_end \in Nat
      /\ mods \in Seq(ModSet)
  BY TypeFacts DEF IInv
<1>3. c \in {ADDC, DELC, REPC} BY <1>1, <1>2
<1>4. line <= mg.end /\ repline <= mg.rep_end
  <2>1. mg.k - 1 \in 0..Len(buf) BY <1>1, <1>2
  <2>2. /\ mg.end = line + CharCount(buf, {DELC, REPC}, mg.k - 1)
        /\ mg.rep_end = repline + CharCount(buf, {ADDC, REPC}, mg.k - 1)
    BY <1>1 DEF IInv, MergeInv
  <2> QED BY <2>1, <2>2, <1>1, MergeCursors
<1>5. /\ c # ADDC => end = mg.end + 1
      /\ c = ADDC => end = mg.end
      /\ c # DELC => rep_end = mg.rep_end + 1
      /\ c = DELC => rep_end = mg.rep_end
      /\ start = IF mg.newregion THEN end ELSE mg.start
  BY DEF EndAfter, RepEndAfter, RegionStart
<1>6. /\ m.type = ModType(c) /\ m.scope.begin = start /\ m.scope.end = end
      /\ m.rep_scope.begin = rep_start /\ m.rep_scope.end = rep_end
  BY DEF NewMod, Scope
<1>7. (m.type # "ADD" => c # ADDC) /\ (m.type # "DEL" => c # DELC)
  BY <1>3, <1>6 DEF ModType, ADDC, DELC, REPC
<1>8. m \in ModSet
  <2>1. end \in Nat /\ rep_end \in Nat BY <1>2, <1>5
  <2>2. start \in Nat /\ rep_start \in Nat BY <2>1, <1>2, <1>5
  <2> HIDE DEF end, rep_end, start, rep_start
  <2>3. Scope(start, end) \in ScopeSet /\ Scope(rep_start, rep_end) \in ScopeSet
    BY <2>1, <2>2 DEF Scope, ScopeSet
  <2>4. ModType(c) \in {"ADD", "DEL", "REP"} BY <1>3 DEF ModType, ADDC, DELC, REPC
  <2> QED BY <2>3, <2>4 DEF NewMod, ModSet
<1>9. /\ c # ADDC => start \in Nat /\ line < start
      /\ c # DELC => rep_start \in Nat /\ repline < rep_start
  <2>1. CASE mg.newregion BY <2>1, <1>2, <1>4, <1>5
  <2>2. CASE ~mg.newregion
    <3>1. RegionOpen /\ RegionChar = c
      BY <2>2, <1>1 DEF RegionOpen, ModsInv, RegionInv
    <3>2. (c # ADDC => line < mg.start) /\ (c # DELC => repline < mg.rep_start)
      BY <3>1 DEF ModsInv, RegionInv
    <3> QED BY <3>2, <2>2, <1>2, <1>5
  <2> QED BY <2>1, <2>2
<1> HIDE DEF end, rep_end, start, rep_start, m, c
<1>10. /\ {l \in OldCover' : l <= line} = {l \in OldCover : l <= line}
       /\ {l \in NewCover' : l <= repline} = {l \in NewCover : l <= repline}
  <2>1. CASE mods' = mods BY <2>1, CoverKept
  <2>2. CASE mods' = Append(mods, m)
    <3>1. /\ OldCover' = OldCover \cup (IF m.type # "ADD" THEN start..end ELSE {})
          /\ NewCover' = NewCover \cup (IF m.type # "DEL" THEN rep_start..rep_end ELSE {})
      BY <2>2, <1>2, <1>6, <1>8, CoverAppend
    <3>2. m.type # "ADD" => \A l \in start..end : ~(l <= line) BY <1>2, <1>7, <1>9
    <3>3. m.type # "DEL" => \A l \in rep_start..rep_end : ~(l <= repline)
      BY <1>2, <1>7, <1>9
    <3> QED BY ONLY <3>1, <3>2, <3>3
  <2> QED BY <2>1, <2>2, <1>1
<1>11. Entered /\ Entered' BY <1>1 DEF EnteredInv
<1>12. WalkPos' = WalkPos
  <2>1. seq' = seq BY <1>1 DEF seq
  <2>2. ChunkOpen /\ ChunkOpen' BY <1>1 DEF ChunkOpen
  <2>3. ChunkStart' = ChunkStart BY <2>1, <1>1 DEF ChunkStart
  <2> QED BY <2>2, <2>3 DEF WalkPos, Unmerged
<1> QED
  BY <1>1, <1>10, <1>11, <1>12 DEF walkVars, WalkOld, WalkNew, OldTouched, NewTouched

LEMMA MergeReturnWalk ==
  ASSUME IInv, ModsInv, EnteredInv, MergeReturn, IInv', ModsInv', EnteredInv'
  PROVE  Walk!Next
<1>1. /\ pc = "merge" /\ pc' = "scan" /\ hunk' = hunk /\ i' = i
      /\ line' = mg.end /\ repline' = mg.rep_end /\ mods' = mods /\ mg' = mg
  BY DEF MergeReturn
<1>2. i > 0 /\ seq[i] # SAMC /\ ChunkEndsAt(i) BY <1>1 DEF IInv, MergeInv
<1>3. /\ i \in Nat /\ i <= Len(seq) /\ Len(seq) \in Nat /\ hunk \in Hunks
      /\ line \in Nat /\ repline \in Nat /\ mg.end \in Nat /\ mg.rep_end \in Nat
      /\ mg.k \in Nat /\ Len(buf) \in Nat
  BY TypeFacts DEF IInv
<1>4. /\ seq' = seq /\ OldLine(i)' = OldLine(i) /\ NewLine(i)' = NewLine(i)
      /\ ChunkEndsAt(i)' = ChunkEndsAt(i)
  BY <1>1 DEF seq, OldLine, NewLine, Count, ChunkEndsAt
<1>5. ChunkOpen /\ ~ChunkOpen' BY <1>1, <1>2, <1>4 DEF ChunkOpen
<1>6. ret' = "none" /\ Entered /\ Entered' BY <1>1 DEF EnteredInv
<1>7. PICK p \in 0..i : IsChunkStart(p) /\ line = OldLine(p) /\ repline = NewLine(p)
  BY <1>1, <1>5 DEF ModsInv, ChunkInv
<1>8. WalkPos = p BY <1>1, <1>5, <1>7, WalkWaits DEF IInv
<1>9. WalkPos' = i BY <1>1, <1>5, <1>6 DEF WalkPos, Unmerged
<1>10. p < i /\ p \in Nat BY <1>2, <1>3, <1>7 DEF IsChunkStart
<1>11. \A q \in (p + 1)..i : seq[q] \in {ADDC, DELC}
  BY <1>3, <1>7, <1>10 DEF ModsInv, ChunkInv, IsChunkStart, CtrlChars
<1>12. Walk!IsChunk(p + 1, i)
  BY <1>2, <1>3, <1>10, <1>11
  DEF Walk!IsChunk, Walk!CharAt, seq, ChunkEndsAt, SAMC, ADDC, DELC
<1>13. mg.end = OldLine(i) /\ mg.rep_end = NewLine(i)
  <2>1. pc' \in {"scan", "merge"} BY <1>1
  <2>2. line' + 0 = OldLine(i)' /\ repline' + 0 = NewLine(i)'
    BY <2>1, <1>5 DEF IInv, LinesInv, OpenOld, OpenNew
  <2> QED BY <2>2, <1>1, <1>3, <1>4
<1>14. /\ mg.end = line + Walk!CountIn("-", p + 1, i)
       /\ mg.rep_end = repline + Walk!CountIn("+", p + 1, i)
  <2>0. ASSUME NEW chars
        PROVE  LET S == {q \in (p + 1)..i : seq[q] \in chars}
               IN  /\ Cardinality(S) \in Nat
                   /\ CharCount(seq, chars, i) = CharCount(seq, chars, p) + Cardinality(S)
    <3>1. i \in Nat /\ p \in 0..i BY <1>3
    <3> QED BY ONLY <3>1, CharCountSplit, SMTT(30)
  <2>1. /\ {q \in (p + 1)..i : seq[q] \in {SAMC, DELC}}
             = {q \in (p + 1)..i : hunk.ctrlseq[q] = "-"}
        /\ {q \in (p + 1)..i : seq[q] \in {SAMC, ADDC}}
             = {q \in (p + 1)..i : hunk.ctrlseq[q] = "+"}
    BY <1>11 DEF seq, SAMC, ADDC, DELC
  <2>2. /\ Walk!CountIn("-", p + 1, i) \in Nat
        /\ Count({SAMC, DELC}, i) = Count({SAMC, DELC}, p) + Walk!CountIn("-", p + 1, i)
    <3> DEFINE S == {q \in (p + 1)..i : seq[q] \in {SAMC, DELC}}
    <3>1. Cardinality(S) \in Nat
          /\ CharCount(seq, {SAMC, DELC}, i) = CharCount(seq, {SAMC, DELC}, p) + Cardinality(S)
      BY <2>0
    <3>2. Walk!CountIn("-", p + 1, i) = Cardinality(S)
      BY <2>1 DEF Walk!CountIn, Walk!CharAt, Walk!Cardinality, Cardinality
    <3> HIDE DEF S
    <3> QED BY <3>1, <3>2 DEF Count
  <2>3. /\ Walk!CountIn("+", p + 1, i) \in Nat
        /\ Count({SAMC, ADDC}, i) = Count({SAMC, ADDC}, p) + Walk!CountIn("+", p + 1, i)
    <3> DEFINE S == {q \in (p + 1)..i : seq[q] \in {SAMC, ADDC}}
    <3>1. Cardinality(S) \in Nat
          /\ CharCount(seq, {SAMC, ADDC}, i) = CharCount(seq, {SAMC, ADDC}, p) + Cardinality(S)
      BY <2>0
    <3>2. Walk!CountIn("+", p + 1, i) = Cardinality(S)
      BY <2>1 DEF Walk!CountIn, Walk!CharAt, Walk!Cardinality, Cardinality
    <3> HIDE DEF S
    <3> QED BY <3>1, <3>2 DEF Count
  <2>4. Count({SAMC, DELC}, p) \in Int /\ Count({SAMC, ADDC}, p) \in Int
    <3>1. Count({SAMC, DELC}, p) \in 0..p BY <1>10, CharCountType DEF Count
    <3>2. Count({SAMC, ADDC}, p) \in 0..p BY <1>10, CharCountType DEF Count
    <3> QED BY <3>1, <3>2
  <2>5. hunk.start_line \in Nat /\ hunk.rep_start_line \in Nat BY <1>3, HunkFacts
  <2> HIDE DEF Walk!CountIn
  <2> QED BY <2>2, <2>3, <2>4, <2>5, <1>7, <1>13 DEF OldLine, NewLine
<1>15. /\ OldTouched' = OldTouched \cup ((line + 1)..mg.end)
       /\ NewTouched' = NewTouched \cup ((repline + 1)..mg.rep_end)
  <2>1. OldCover' = OldCover /\ NewCover' = NewCover BY <1>1, CoverKept
  <2>2. /\ OldCover \subseteq Nat /\ \A l \in OldCover : l <= mg.end
        /\ NewCover \subseteq Nat /\ \A l \in NewCover : l <= mg.rep_end
    BY <1>1, CoverBehind DEF IInv, ModsInv, OldCur, NewCur
  <2>3. ~RegionOpen
    <3>1. mg.k > Len(buf) BY DEF MergeReturn
    <3> QED BY <3>1, <1>3 DEF ModsInv, RegionInv
  <2>4. (line + 1)..mg.end \subseteq OldCover /\ (repline + 1)..mg.rep_end \subseteq NewCover
    BY <2>3, <1>1 DEF ModsInv, MergeCoverInv, OldRegion, NewRegion
  <2>5. OldTouched' = OldCover /\ NewTouched' = NewCover
    BY <2>1, <2>2, <1>1, <1>6 DEF OldTouched, NewTouched
  <2>6. /\ OldTouched = {l \in OldCover : l <= line}
        /\ NewTouched = {l \in NewCover : l <= repline}
    BY <1>6 DEF OldTouched, NewTouched
  <2>7. OldCover = {l \in OldCover : l <= line} \cup ((line + 1)..mg.end)
    <3>1. \A l \in OldCover : l <= line \/ l \in (line + 1)..mg.end BY <2>2, <1>3
    <3> QED BY ONLY <3>1, <2>4
  <2>8. NewCover = {l \in NewCover : l <= repline} \cup ((repline + 1)..mg.rep_end)
    <3>1. \A l \in NewCover : l <= repline \/ l \in (repline + 1)..mg.rep_end BY <2>2, <1>3
    <3> QED BY ONLY <3>1, <2>4
  <2> QED BY <2>5, <2>6, <2>7, <2>8
<1>16. /\ i \in 1..Len(hunk.ctrlseq) /\ WalkOld = line /\ WalkOld' = mg.end
       /\ WalkNew = repline /\ WalkNew' = mg.rep_end
  BY <1>1, <1>2, <1>3, <1>6 DEF seq, WalkOld, WalkNew
<1>17. /\ Walk!IsChunk(WalkPos + 1, i) /\ WalkPos' = i
       /\ WalkOld' = WalkOld + Walk!CountIn("-", WalkPos + 1, i)
       /\ WalkNew' = WalkNew + Walk!CountIn("+", WalkPos + 1, i)
       /\ OldTouched' = OldTouched \cup ((WalkOld + 1)..WalkOld')
       /\ NewTouched' = NewTouched \cup ((WalkNew + 1)..WalkNew')
  BY <1>8, <1>9, <1>12, <1>14, <1>15, <1>16
<1>18. Walk!Change
  <2> HIDE DEF Walk!CountIn, Walk!IsChunk
  <2> QED
    BY <1>1, <1>16, <1>17
    DEF Walk!Change, WalkPos, WalkOld, WalkNew, OldTouched, NewTouched
<1> QED BY <1>18 DEF Walk!Next

LEMMA StutterWalk ==
  ASSUME UNCHANGED vars
  PROVE  UNCHANGED walkVars
BY CoverKept DEF vars, walkVars, WalkPos, WalkOld, WalkNew, OldTouched, NewTouched, Unmerged,
   ChunkOpen, ChunkEndsAt, ChunkStart, Entered, seq

(***************************************************************************)
(* For every set of hunks, reduce with its buffer, its counter and merge   *)
(* walks the control sequence as EditScript does: a kept line moves both   *)
(* cursors, a chunk moves each by its own lines and touches just those.    *)
(***************************************************************************)
THEOREM ReduceWalksScript == Spec => ImplementsEditScript
<1>1. Init => Walk!Init BY InitWalk
<1>2. IInv /\ ModsInv /\ EnteredInv /\ [Next]_vars /\ EnteredInv'
        => [Walk!Next]_(Walk!vars)
  <2> SUFFICES ASSUME IInv, ModsInv, EnteredInv, [Next]_vars, EnteredInv'
               PROVE  WalkStep
    BY DEF WalkStep, walkVars, WalkPos, WalkOld, WalkNew, OldTouched, NewTouched, Walk!vars
  <2>0. IInv' /\ ModsInv' BY NextIInv, NextModsInv
  <2>1. CASE RejectEmpty \/ Enter \/ Invalid \/ Return BY <2>1, LeaveWalk DEF WalkStep
  <2>2. CASE Same BY <2>2, SameWalk DEF WalkStep
  <2>3. CASE AddPlain \/ AddReplace \/ Del BY <2>0, <2>3, ChunkCharWalk DEF WalkStep
  <2>4. CASE MergeChar BY <2>4, MergeCharWalk DEF WalkStep
  <2>5. CASE MergeReturn BY <2>0, <2>5, MergeReturnWalk DEF WalkStep
  <2>6. CASE Done \/ UNCHANGED vars BY <2>6, StutterWalk DEF Done, WalkStep
  <2> QED BY <2>1, <2>2, <2>3, <2>4, <2>5, <2>6 DEF Next
<1> QED BY <1>1, <1>2, EnteredHolds, ModsInvHolds, PTL DEF Spec, ImplementsEditScript, Walk!Spec

=============================================================================
