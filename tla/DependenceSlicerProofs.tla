----------------------- MODULE DependenceSlicerProofs -----------------------
(***************************************************************************)
(* The dependence slicer: the graph, the order of the walks, the walks.    *)
(*                                                                         *)
(* The slicer implements an enumeration: for every function, criterion and *)
(* kind of dependence it gives each instruction the criterion leads to     *)
(* exactly once.  The argument is the one of a depth-first search.  What   *)
(* was given is the visited set; all of it can be reached; and the         *)
(* neighbours of a visited instruction are visited too, unless the         *)
(* instruction is on the worklist, where those before its place are.  With *)
(* the worklist empty the visited set is closed, and so holds everything   *)
(* that can be reached.  It is made first for the one kind whose iterator  *)
(* the constructor sets up, Walked, whatever was asked for; with one kind  *)
(* asked for that is the kind, with both and a memory access it is the     *)
(* memory half.                                                            *)
(*                                                                         *)
(* GraphAlwaysExact is about the graph the walks use: each dependence      *)
(* result the build has taken is one pair of entries, in the lists of both *)
(* its ends.  WalksAlwaysExact is about what both iterators give: of an    *)
(* instruction given by the two-fold iterator there is a cause given       *)
(* before it, memory dependences come first, and PDGSlicer, in any order   *)
(* its client calls it, gives each instruction once and at the end all     *)
(* that the criterion leads to.                                            *)
(***************************************************************************)
EXTENDS DependenceSlicer, SequenceTheorems, FiniteSetTheorems, TLAPS

Before == pc \in {"build", "choose", "pdg"}
Giving == pc \in {"next", "mem", "ssa"}

\* The kind whose iterator the constructor sets up, and what it is to give.
Walked == IF WantsMem(crit) THEN "mem" ELSE "ssa"
WalkGoal == IF ~Before /\ Walked \in crit.request THEN Reach(Walked, crit.inst) ELSE {}
WalkPhase == IF Before THEN "idle" ELSE IF pc = "ended" THEN "ended" ELSE "giving"

Walk == INSTANCE Enumeration WITH Items <- Inst, phase <- WalkPhase, goal <- WalkGoal

\* That iterator.
St == iter[Walked].stack
Vis == iter[Walked].visited

\* Of a kind not walked there is nothing, and the done bits say which it is.
FlagsInv ==
  /\ pc \in {"build", "choose", "pdg"} => given = <<>>
  /\ Giving =>
       /\ crit.inst \in Inst
       /\ Walked \in crit.request
       /\ Walked = "mem" => iter["ssa"].stack = <<>>
       /\ Walked = "mem" /\ pc # "ssa" => "MemDone" \notin flags
       /\ Walked = "mem" /\ pc = "ssa" => iter["mem"].stack = <<>>
       /\ Walked = "ssa" => pc # "mem" /\ iter["mem"].stack = <<>>
       /\ Walked = "ssa" /\ "mem" \in crit.request => "MemDone" \in flags

\* A worklist entry has given the neighbours before its place.
EntrySound(e) ==
  /\ e.node \in {crit.inst} \cup Vis
  /\ \A p \in 1..(e.place - 1) : Neighbours(Walked, e.node)[p] \in {NoInst} \cup Vis

\* All dependences of x were followed, or x is on the worklist.
FollowedOrWaiting(x) ==
  \/ Succ(Walked, x) \subseteq Vis
  \/ \E n \in DOMAIN St : St[n].node = x

WalkInv ==
  Giving =>
    /\ ToSet(given) = Vis
    /\ Vis \subseteq Reach(Walked, crit.inst)
    /\ \A n \in DOMAIN St : EntrySound(St[n])
    /\ \A x \in {crit.inst} \cup Vis : FollowedOrWaiting(x)

\* Only nodes have edges.
GraphInv == \A i \in Inst \ nodes : outN[i] = <<>> /\ inN[i] = <<>>

\* Of the instruction queried the results so far are in the graph, of those
\* before it all, of the others none.
Taken(y) == IF y < at.inst THEN Len(Asked(y)) ELSE IF y = at.inst THEN at.taken ELSE 0

\* The results that are edges from x to y.
Edges(x, y) == {j \in DOMAIN Asked(y) : Asked(y)[j].inst = x /\ x # y /\ (must => Asked(y)[j].def)}

BuildInv ==
  /\ at.inst \in Inst => at.taken <= Len(Asked(at.inst))
  /\ pc # "build" => at.inst \notin Inst
  /\ \A x, y \in Inst :
       /\ Occurs(y, outN[x]) = Cardinality(Edges(x, y) \cap 1..Taken(y))
       /\ Occurs(x, inN[y]) = Cardinality(Edges(x, y) \cap 1..Taken(y))
  /\ nodes = {x \in Inst : outN[x] # <<>> \/ inN[x] # <<>>}

\* The way to each instruction given and to each worklist entry.
CausedBy(n) == \E x \in {crit.inst} \cup {given[m] : m \in 1..n - 1} : given[n] \in Succ(Walked, x)
LedTo(n) == IF n = 1 THEN St[n].node = crit.inst ELSE St[n].node \in Succ(Walked, St[n - 1].node)

CauseInv ==
  Giving =>
    /\ \A n \in DOMAIN given : CausedBy(n)
    /\ \A n \in DOMAIN St : LedTo(n)
    /\ pc = "next" => St # <<>> /\ depinst = Last(<<crit.inst>> \o given)

\* What PDGSlicer has visited is on its stack or was given, each at one place.
NoRepeat(seq) == \A m, n \in DOMAIN seq : seq[m] = seq[n] => m = n

PDGOnce ==
  /\ Cardinality(ToSet(pdg.given)) = Len(pdg.given)
  /\ NoRepeat(pdg.stack)
  /\ ToSet(pdg.stack) \cap ToSet(pdg.given) = {}
  /\ pdg.visited = ToSet(pdg.stack) \cup ToSet(pdg.given)

\* All of it can be reached, and the neighbours of what was given were visited
\* or are still to push.
PDGCovers ==
  IF pdg.crit = NoInst THEN pdg.given = <<>> /\ pdg.stack = <<>> /\ pdg.rest = <<>> /\ ~pdg.inited
  ELSE /\ pc = "pdg"
       /\ pdg.visited \cup ToSet(pdg.rest) \subseteq ReachOut(pdg.crit)
       /\ \A x \in {pdg.crit} \cup ToSet(pdg.given) : Out(x) \subseteq pdg.visited \cup ToSet(pdg.rest)

IInv ==
  /\ fun \in Functions
  /\ TypeOK
  /\ GraphInv
  /\ FlagsInv
  /\ WalkInv

--------------------------------------------------------------------------

\* The neighbours of an instruction are instructions or no instruction.
LEMMA NeighboursType ==
  ASSUME fun \in Functions, TypeOK, NEW k \in Kinds, NEW i \in Inst
  PROVE  Neighbours(k, i) \in Seq(Inst \cup {NoInst})
<1>1. fun.uses[i] \in Seq(Inst \cup {NoInst}) /\ fun.operands[i] \in Seq(Inst \cup {NoInst})
  BY FunctionsAssumption
<1>2. outN[i] \in Seq(Inst) /\ inN[i] \in Seq(Inst) /\ crit.forward \in BOOLEAN
  BY DEF TypeOK
<1>3. Seq(Inst) \subseteq Seq(Inst \cup {NoInst})
  BY SeqMonotonic
<1> QED
  BY <1>1, <1>2, <1>3 DEF Neighbours, Kinds

\* What an instruction leads to depends on the graph and the criterion only.
LEMMA ReachKept ==
  ASSUME UNCHANGED <<graphVars, crit>>
  PROVE  /\ Walked' = Walked
         /\ \A k, i : Neighbours(k, i)' = Neighbours(k, i)
         /\ \A k, i : Succ(k, i)' = Succ(k, i)
         /\ \A k, i : Reach(k, i)' = Reach(k, i)
<1>1. Walked' = Walked
  BY DEF Walked, WantsMem, TouchesMemory, graphVars
<1>2. ASSUME NEW k, NEW i PROVE Neighbours(k, i)' = Neighbours(k, i)
  BY DEF Neighbours, graphVars
<1>3. ASSUME NEW k, NEW i PROVE Succ(k, i)' = Succ(k, i)
  BY <1>2 DEF Succ
<1>4. ASSUME NEW k, NEW i PROVE Reach(k, i)' = Reach(k, i)
  <2>1. \A S : Closed(k, S)' <=> Closed(k, S)
    BY <1>3 DEF Closed
  <2> QED
    BY <1>3, <2>1 DEF Reach
<1> QED
  BY <1>1, <1>2, <1>3, <1>4

\* What the criterion depends on can be reached, and what can be reached leads on.
LEMMA ReachFirst ==
  ASSUME NEW k, NEW i, NEW y \in Inst, y \in Succ(k, i)
  PROVE  y \in Reach(k, i)
BY DEF Reach

LEMMA ReachNext ==
  ASSUME NEW k, NEW i, NEW x \in Reach(k, i), NEW y \in Inst, y \in Succ(k, x)
  PROVE  y \in Reach(k, i)
BY DEF Reach, Closed

\* A closed set that holds what the criterion depends on holds all it leads to.
LEMMA ReachLeast ==
  ASSUME NEW k, NEW i, NEW S \in SUBSET Inst, Succ(k, i) \subseteq S, Closed(k, S)
  PROVE  Reach(k, i) \subseteq S
BY DEF Reach

\* The last entry and the rest of a worklist.
LEMMA FrontLast ==
  ASSUME NEW T, NEW s \in Seq(T), s # <<>>
  PROVE  /\ Len(s) \in Nat \ {0}
         /\ Last(s) = s[Len(s)] /\ Last(s) \in T
         /\ Front(s) \in Seq(T)
         /\ Len(Front(s)) = Len(s) - 1
         /\ DOMAIN Front(s) = 1..(Len(s) - 1)
         /\ \A n \in 1..(Len(s) - 1) : Front(s)[n] = s[n]
<1>1. Len(s) \in Nat \ {0}
  BY EmptySeq
<1>2. Last(s) = s[Len(s)] /\ Last(s) \in T
  BY <1>1, ElementOfSeq DEF Last
<1>3. /\ SubSeq(s, 1, Len(s) - 1) \in Seq(T)
      /\ Len(SubSeq(s, 1, Len(s) - 1)) = IF 1 <= Len(s) - 1 THEN Len(s) - 1 - 1 + 1 ELSE 0
      /\ \A n \in 1 .. Len(s) - 1 - 1 + 1 : SubSeq(s, 1, Len(s) - 1)[n] = s[1 + n - 1]
  <2>1. Len(s) - 1 \in Int /\ 1 \in Int
    BY <1>1
  <2>2. \A i \in 1..Len(s) - 1 : s[i] \in T
    BY <1>1, ElementOfSeq
  <2> QED
    BY <2>1, <2>2, SubSeqProperties
<1>4. Front(s) = SubSeq(s, 1, Len(s) - 1)
  BY DEF Front
<1>5. Front(s) \in Seq(T) /\ Len(Front(s)) = Len(s) - 1
  <2>1. Front(s) \in Seq(T) /\ Len(Front(s)) = IF 1 <= Len(s) - 1 THEN Len(s) - 1 - 1 + 1 ELSE 0
    BY <1>3, <1>4, Zenon
  <2>2. \A m \in Nat \ {0} : (IF 1 <= m - 1 THEN m - 1 - 1 + 1 ELSE 0) = m - 1
    OBVIOUS
  <2> QED
    BY <1>1, <2>1, <2>2, Zenon
<1>6. \A n \in 1..(Len(s) - 1) : Front(s)[n] = s[n]
  <2> TAKE n \in 1..(Len(s) - 1)
  <2>1. 1 + n - 1 = n /\ n \in 1..Len(s) - 1 - 1 + 1
    BY <1>1
  <2> QED
    BY <1>3, <1>4, <2>1
<1> QED
  BY <1>1, <1>2, <1>5, <1>6, LenProperties

\* A worklist whose last entry is changed and that has one more.
LEMMA PushedFacts ==
  ASSUME NEW T, NEW s \in Seq(T), s # <<>>, NEW e \in T, NEW f \in T
  PROVE  LET t == Append(Append(Front(s), e), f)
         IN  /\ t \in Seq(T)
             /\ Len(t) = Len(s) + 1 /\ DOMAIN t = 1..(Len(s) + 1)
             /\ \A n \in 1..(Len(s) - 1) : t[n] = s[n]
             /\ t[Len(s)] = e /\ t[Len(s) + 1] = f
<1>1. /\ Len(s) \in Nat \ {0} /\ Front(s) \in Seq(T)
      /\ Len(Front(s)) = Len(s) - 1
      /\ \A n \in 1..(Len(s) - 1) : Front(s)[n] = s[n]
  BY FrontLast
<1> DEFINE u == Append(Front(s), e)
<1>2. /\ u \in Seq(T) /\ Len(u) = Len(s) /\ u[Len(s)] = e
      /\ \A n \in 1..(Len(s) - 1) : u[n] = s[n]
  BY <1>1, AppendProperties
<1> HIDE DEF u
<1>3. /\ Append(u, f) \in Seq(T) /\ Len(Append(u, f)) = Len(s) + 1
      /\ Append(u, f)[Len(s) + 1] = f
      /\ \A n \in 1..Len(s) : Append(u, f)[n] = u[n]
  BY <1>1, <1>2, AppendProperties
<1>4. /\ \A n \in 1..(Len(s) - 1) : Append(u, f)[n] = s[n]
      /\ Append(u, f)[Len(s)] = e
  BY <1>1, <1>2, <1>3
<1>5. DOMAIN Append(u, f) = 1..(Len(s) + 1)
  BY <1>3, LenProperties
<1> QED
  BY <1>3, <1>4, <1>5 DEF u

\* Nothing is empty after something was appended.
LEMMA AppendNonEmpty ==
  ASSUME NEW T, NEW s \in Seq(T), NEW e \in T
  PROVE  Append(s, e) # <<>>
BY AppendProperties

\* What was given, once one more is.
LEMMA ToSetAppend ==
  ASSUME NEW T, NEW s \in Seq(T), NEW x \in T
  PROVE  ToSet(Append(s, x)) = ToSet(s) \cup {x}
<1>1. Len(s) \in Nat /\ DOMAIN s = 1..Len(s)
  BY LenProperties
<1>2. /\ Append(s, x) \in Seq(T) /\ Len(Append(s, x)) = Len(s) + 1
      /\ \A n \in 1..Len(s) : Append(s, x)[n] = s[n]
      /\ Append(s, x)[Len(s) + 1] = x
  BY AppendProperties
<1>3. DOMAIN Append(s, x) = 1..(Len(s) + 1)
  BY <1>2, LenProperties
<1> QED
  BY <1>1, <1>2, <1>3 DEF ToSet

\* What is in a sequence is its first or in the rest, and its last or before.
LEMMA ToSetTail ==
  ASSUME NEW T, NEW s \in Seq(T), s # <<>>
  PROVE  /\ Head(s) \in T /\ Tail(s) \in Seq(T)
         /\ ToSet(s) = {Head(s)} \cup ToSet(Tail(s))
<1>1. /\ Head(s) = s[1] /\ Head(s) \in T /\ Tail(s) \in Seq(T)
      /\ Len(s) \in Nat /\ Len(s) > 0 /\ DOMAIN s = 1..Len(s)
      /\ DOMAIN Tail(s) = 1..(Len(s) - 1)
      /\ \A n \in 1..(Len(s) - 1) : Tail(s)[n] = s[n + 1]
  OBVIOUS
<1>2. ASSUME NEW n \in DOMAIN s PROVE s[n] \in {Head(s)} \cup ToSet(Tail(s))
  <2>1. CASE n = 1
    BY <1>1, <2>1
  <2>2. CASE n # 1
    <3>1. n - 1 \in DOMAIN Tail(s) /\ n = (n - 1) + 1
      BY <1>1, <2>2
    <3>2. Tail(s)[n - 1] = s[n]
      BY <1>1, <3>1
    <3> QED
      BY <3>1, <3>2 DEF ToSet
  <2> QED
    BY <2>1, <2>2
<1>3. 1 \in DOMAIN s /\ \A n \in DOMAIN Tail(s) : n + 1 \in DOMAIN s
  BY <1>1
<1>4. Head(s) \in ToSet(s) /\ ToSet(Tail(s)) \subseteq ToSet(s)
  BY <1>1, <1>3 DEF ToSet
<1>5. ToSet(s) \subseteq {Head(s)} \cup ToSet(Tail(s))
  BY <1>2 DEF ToSet
<1> QED
  BY <1>1, <1>4, <1>5

LEMMA ToSetFront ==
  ASSUME NEW T, NEW s \in Seq(T), s # <<>>
  PROVE  ToSet(s) = ToSet(Front(s)) \cup {Last(s)}
<1> DEFINE l == Len(s)
<1>1. /\ l \in Nat \ {0} /\ Last(s) = s[l]
      /\ DOMAIN Front(s) = 1..(l - 1) /\ DOMAIN s = 1..l
      /\ \A n \in 1..(l - 1) : Front(s)[n] = s[n]
  BY FrontLast, LenProperties
<1> HIDE DEF l
<1>2. l \in 1..l /\ \A n \in 1..(l - 1) : n \in 1..l
  BY <1>1
<1>3. \A n \in 1..l : n = l \/ n \in 1..(l - 1)
  BY <1>1
<1> QED
  BY <1>1, <1>2, <1>3 DEF ToSet

--------------------------------------------------------------------------

LEMMA InitHolds == Init => IInv
<1> SUFFICES ASSUME Init PROVE IInv
  OBVIOUS
<1>1. TypeOK
  BY NAssumption DEF Init, TypeOK, NoIter, Kinds, Inst, NoInst, EntryType, PDGType
<1>2. GraphInv /\ FlagsInv /\ WalkInv
  BY DEF Init, GraphInv, FlagsInv, WalkInv, Giving
<1> QED
  BY <1>1, <1>2 DEF IInv, Init

\* A result added to the graph.
LEMMA AddResultHolds ==
  ASSUME IInv, AddResult
  PROVE  IInv'
<1> DEFINE r == Asked(at.inst)[at.taken + 1]
<1>1. at.inst \in Inst /\ at.taken \in Nat /\ at.taken < Len(Asked(at.inst))
  BY DEF IInv, TypeOK, AddResult, Inst
<1>2. r.inst \in Inst \cup {NoInst}
  <2> DEFINE T == [inst : Inst \cup {NoInst}, def : BOOLEAN]
  <2>1. Asked(at.inst) \in Seq(T)
    <3>1. fun \in Functions
      BY DEF IInv
    <3>2. fun.results \in [Inst -> Seq(T)]
      BY <3>1, FunctionsAssumption
    <3>3. <<>> \in Seq(T)
      OBVIOUS
    <3> HIDE DEF T
    <3> QED
      BY <1>1, <3>2, <3>3 DEF Asked
  <2>2. r \in T
    <3> HIDE DEF T
    <3>1. Len(Asked(at.inst)) \in Nat
      BY <2>1
    <3>2. at.taken + 1 \in 1..Len(Asked(at.inst))
      BY <1>1, <3>1
    <3> QED
      BY <2>1, <3>2, ElementOfSeq
  <2> QED
    BY <2>2
<1>3. /\ nodes' \subseteq Inst
      /\ outN' \in [Inst -> Seq(Inst)] /\ inN' \in [Inst -> Seq(Inst)]
      /\ GraphInv'
  <2>1. /\ nodes \subseteq Inst /\ outN \in [Inst -> Seq(Inst)] /\ inN \in [Inst -> Seq(Inst)]
        /\ GraphInv
    BY DEF IInv, TypeOK
  <2>2. CASE Added(at.inst, r)
    <3>1. r.inst \in Inst /\ r.inst # NoInst
      BY <1>2, <2>2 DEF Added
    <3>2. /\ nodes' = nodes \cup {r.inst, at.inst}
          /\ outN' = [outN EXCEPT ![r.inst] = Append(outN[r.inst], at.inst)]
          /\ inN' = [inN EXCEPT ![at.inst] = Append(inN[at.inst], r.inst)]
      BY <2>2 DEF AddResult, InAfter
    <3> HIDE DEF r
    <3>3. Append(outN[r.inst], at.inst) \in Seq(Inst) /\ Append(inN[at.inst], r.inst) \in Seq(Inst)
      BY <1>1, <2>1, <3>1
    <3> QED
      BY <1>1, <2>1, <3>1, <3>2, <3>3 DEF GraphInv
  <2>3. CASE ~Added(at.inst, r)
    BY <2>1, <2>3 DEF AddResult, GraphInv
  <2> QED
    BY <2>2, <2>3
<1>4. at' \in [inst : 1..N + 1, taken : Nat]
  BY <1>1, NAssumption DEF AddResult, Inst
<1>5. TypeOK'
  BY <1>3, <1>4 DEF IInv, TypeOK, AddResult, iterVars
<1>6. pc = "build" /\ pc' = "build" /\ given' = given
  BY DEF AddResult, iterVars
<1> QED
  BY <1>3, <1>5, <1>6 DEF IInv, FlagsInv, WalkInv, Giving, AddResult

\* The types of PDGSlicer.
LEMMA PDGTypeHolds ==
  ASSUME TypeOK, SlicePush \/ SliceNext \/ \E i \in Inst : SliceInit(i)
  PROVE  pdg' \in PDGType
<1>1. /\ pdg.stack \in Seq(Inst) /\ pdg.visited \subseteq Inst /\ pdg.rest \in Seq(Inst)
      /\ pdg.given \in Seq(Inst) /\ pdg \in PDGType /\ outN \in [Inst -> Seq(Inst)]
  BY DEF TypeOK, PDGType
<1>2. CASE SlicePush
  <2>1. Head(pdg.rest) \in Inst /\ Tail(pdg.rest) \in Seq(Inst)
    BY <1>1, <1>2, ToSetTail DEF SlicePush
  <2>2. Append(pdg.stack, Head(pdg.rest)) \in Seq(Inst)
    BY <1>1, <2>1
  <2> QED
    BY <1>1, <1>2, <2>1, <2>2 DEF SlicePush, AddToSliceStack, PDGType
<1>3. CASE SliceNext
  <2>1. CASE pdg.stack = <<>>
    BY <1>1, <1>3, <2>1 DEF SliceNext, PDGType
  <2>2. CASE pdg.stack # <<>>
    <3>1. Last(pdg.stack) \in Inst /\ Front(pdg.stack) \in Seq(Inst)
      BY <1>1, <2>2, FrontLast
    <3>2. Append(pdg.given, Last(pdg.stack)) \in Seq(Inst) /\ outN[Last(pdg.stack)] \in Seq(Inst)
      BY <1>1, <3>1
    <3> QED
      BY <1>1, <1>3, <2>2, <3>1, <3>2 DEF SliceNext, PDGType
  <2> QED
    BY <2>1, <2>2
<1>4. CASE \E i \in Inst : SliceInit(i)
  <2>1. PICK i \in Inst : SliceInit(i)
    BY <1>4
  <2> QED
    BY <1>1, <2>1 DEF SliceInit, PDGType
<1> QED
  BY <1>2, <1>3, <1>4

\* The other steps before a slice, and those of PDGSlicer, leave it alone.
LEMMA AsideHolds ==
  ASSUME IInv, NextInstruction \/ Built \/ UsePDG \/ Refused \/ SlicePush \/ SliceNext \/ \E i \in Inst : SliceInit(i)
  PROVE  IInv' /\ WalkPhase' = "idle" /\ WalkPhase = "idle" /\ given' = given
<1>1. /\ pc \in {"build", "choose", "pdg"} /\ pc' \in {"build", "choose", "pdg"}
      /\ UNCHANGED <<fun, nodes, outN, inN, crit, flags, iter, depinst, given>>
  BY DEF NextInstruction, Built, UsePDG, Refused, SlicePush, SliceNext, SliceInit, graphVars, iterVars, vars
<1>2. at' \in [inst : 1..N + 1, taken : Nat]
  <2>1. CASE NextInstruction
    BY <2>1, NAssumption DEF NextInstruction, Inst
  <2>2. CASE at' = at
    BY <2>2 DEF IInv, TypeOK
  <2> QED
    BY <2>1, <2>2 DEF NextInstruction, Built, UsePDG, Refused, SlicePush, SliceNext, SliceInit, graphVars, vars
<1>3. TypeOK'
  <2>1. pdg' \in PDGType
    BY PDGTypeHolds DEF IInv, TypeOK, NextInstruction, Built, UsePDG, Refused, vars
  <2> QED
    BY <1>1, <1>2, <2>1 DEF IInv, TypeOK
<1> QED
  BY <1>1, <1>3 DEF IInv, GraphInv, FlagsInv, WalkInv, Giving, WalkPhase, Before

--------------------------------------------------------------------------
(* The steps of a slice, each with the step of the enumeration it is.      *)

AbstractStep == Walk!Next \/ UNCHANGED <<WalkPhase, WalkGoal, given>>

\* An iterator is set up on the criterion.
LEMMA SetUpHolds ==
  ASSUME IInv, Open, NEW k \in Kinds, SetUp(crit', k), k = Walked', k \in crit'.request,
         k = "mem" => WantsMem(crit')
  PROVE  IInv' /\ AbstractStep
<1>1. /\ pc = "choose" /\ pc' = "next" /\ given = <<>> /\ given' = <<>>
      /\ UNCHANGED <<fun, must, at, nodes, outN, inN, pdg>>
      /\ crit' \in [inst : Inst, request : Requests, forward : BOOLEAN]
  BY DEF IInv, FlagsInv, Open, SetUp, graphVars
<1>2. crit'.inst \in Inst /\ crit' \in [inst : Inst \cup {NoInst}, request : SUBSET Kinds, forward : BOOLEAN]
  BY <1>1, RequestsAssumption
<1>3. /\ iter'[k] = [stack |-> <<[node |-> crit'.inst, place |-> 0]>>, visited |-> {}]
      /\ \A j \in Kinds \ {k} : iter'[j] = [stack |-> <<>>, visited |-> {}]
      /\ iter' = [j \in Kinds |-> IF j = k THEN Begin(crit'.inst) ELSE NoIter]
  BY DEF SetUp, Begin, NoIter
<1>4. TypeOK'
  <2>1. iter' \in [Kinds -> [stack : Seq(EntryType), visited : SUBSET Inst]]
    <3>1. [node |-> crit'.inst, place |-> 0] \in EntryType
      BY <1>2 DEF EntryType
    <3>2. Begin(crit'.inst) \in [stack : Seq(EntryType), visited : SUBSET Inst]
      BY <3>1 DEF Begin
    <3>3. NoIter \in [stack : Seq(EntryType), visited : SUBSET Inst]
      BY DEF NoIter
    <3> QED
      BY <1>3, <3>2, <3>3
  <2>2. flags' \subseteq {"Ready", "Start", "SSADone", "MemDone", "AllDone"}
    BY DEF SetUp, DoneBits
  <2>3. depinst' \in Inst
    BY <1>2 DEF SetUp
  <2> QED
    BY <1>1, <1>2, <2>1, <2>2, <2>3 DEF IInv, TypeOK
<1>5. FlagsInv'
  <2>1. k = "mem" => "MemDone" \notin flags'
    BY DEF SetUp, DoneBits
  <2>2. k = "ssa" /\ "mem" \in crit'.request => "MemDone" \in flags'
    BY DEF SetUp, DoneBits
  <2>3. \A j \in Kinds : j # k => iter'[j].stack = <<>>
    BY <1>3
  <2> QED
    BY <1>1, <1>2, <2>1, <2>2, <2>3 DEF FlagsInv, Kinds
<1>6. WalkInv'
  <2>1. St' = <<[node |-> crit'.inst, place |-> 0]>> /\ Vis' = {}
    BY <1>3 DEF St, Vis
  <2>2. ToSet(given)' = {}
    BY <1>1 DEF ToSet
  <2>3. \A n \in DOMAIN St' : EntrySound(St[n])'
    BY <2>1 DEF EntrySound
  <2>4. \A x \in {crit'.inst} \cup Vis' : FollowedOrWaiting(x)'
    BY <2>1 DEF FollowedOrWaiting
  <2> QED
    BY <2>1, <2>2, <2>3, <2>4 DEF WalkInv
<1>7. AbstractStep
  <2>1. WalkGoal' \subseteq Inst
    BY DEF WalkGoal, Reach, Before
  <2> QED
    BY <1>1, <2>1 DEF AbstractStep, Walk!Next, Walk!SetUp, WalkPhase, Before
<1> QED
  BY <1>1, <1>4, <1>5, <1>6, <1>7 DEF IInv, GraphInv

\* No iterator can be set up: the criterion leads nowhere.
LEMMA SetUpNothingHolds ==
  ASSUME IInv, Open, NEW ready \in {{}, {"Ready"}}, SetUpNothing(crit', ready),
         \/ WantsMem(crit') /\ ~HasNode(crit'.inst)
         \/ ~WantsMem(crit') /\ "ssa" \notin crit'.request
  PROVE  IInv' /\ AbstractStep
<1>1. /\ pc = "choose" /\ pc' = "ended" /\ given' = given
      /\ UNCHANGED <<fun, must, at, nodes, outN, inN, pdg>>
      /\ crit' \in [inst : Inst, request : Requests, forward : BOOLEAN]
  BY DEF Open, SetUpNothing, graphVars
<1>2. crit'.inst \in Inst /\ crit' \in [inst : Inst \cup {NoInst}, request : SUBSET Kinds, forward : BOOLEAN]
  BY <1>1, RequestsAssumption
<1>3. TypeOK'
  <2>1. NoIter \in [stack : Seq(EntryType), visited : SUBSET Inst]
    BY DEF NoIter
  <2>2. iter' \in [Kinds -> [stack : Seq(EntryType), visited : SUBSET Inst]]
    BY <2>1 DEF SetUpNothing
  <2>3. flags' \subseteq {"Ready", "Start", "SSADone", "MemDone", "AllDone"}
    BY DEF SetUpNothing, DoneBits
  <2>4. depinst' \in Inst \cup {NoInst}
    BY DEF SetUpNothing
  <2> QED
    BY <1>1, <1>2, <2>2, <2>3, <2>4 DEF IInv, TypeOK
<1>4. IInv'
  BY <1>1, <1>3 DEF IInv, GraphInv, FlagsInv, WalkInv, Giving
<1>5. WalkGoal = {}
  BY <1>1 DEF WalkGoal, Before
<1>6. WalkGoal' = {}
  <2>1. CASE WantsMem(crit') /\ ~HasNode(crit'.inst)
    <3>1. outN[crit'.inst] = <<>> /\ inN[crit'.inst] = <<>>
      BY <1>2, <2>1 DEF IInv, GraphInv, HasNode
    <3>2. Walked' = "mem"
      BY <1>1, <2>1 DEF Walked, WantsMem, TouchesMemory
    <3>3. Neighbours("mem", crit.inst)' = <<>>
      BY <1>1, <1>2, <3>1 DEF Neighbours
    <3>4. Succ("mem", crit.inst)' = {}
      BY <3>3 DEF Succ, ToSet
    <3>5. Reach("mem", crit.inst)' = {}
      <4>1. Closed("mem", {})'
        BY DEF Closed
      <4> QED
        BY <3>4, <4>1 DEF Reach
    <3> QED
      BY <3>2, <3>5 DEF WalkGoal, Before
  <2>2. CASE ~WantsMem(crit') /\ "ssa" \notin crit'.request
    <3>1. Walked' = "ssa"
      BY <1>1, <2>2 DEF Walked, WantsMem, TouchesMemory
    <3> QED
      BY <2>2, <3>1 DEF WalkGoal, Before
  <2> QED
    BY <2>1, <2>2
<1> QED
  BY <1>1, <1>4, <1>5, <1>6 DEF AbstractStep, Walk!Next, Walk!NothingToGive, WalkPhase, Before

LEMMA OpenHolds ==
  ASSUME IInv, Open
  PROVE  IInv' /\ AbstractStep
<1>1. fun' = fun
  BY DEF Open, graphVars
<1>2. Walked' = IF WantsMem(crit') THEN "mem" ELSE "ssa"
  BY <1>1 DEF Walked, WantsMem, TouchesMemory
<1>3. CASE WantsMem(crit') /\ HasNode(crit'.inst) /\ SetUp(crit', "mem")
  BY <1>2, <1>3, SetUpHolds DEF WantsMem, Kinds
<1>4. CASE WantsMem(crit') /\ ~HasNode(crit'.inst) /\ SetUpNothing(crit', {})
  BY <1>4, SetUpNothingHolds
<1>5. CASE ~WantsMem(crit') /\ "ssa" \in crit'.request /\ SetUp(crit', "ssa")
  BY <1>2, <1>5, SetUpHolds DEF Kinds
<1>6. CASE ~WantsMem(crit') /\ "ssa" \notin crit'.request /\ SetUpNothing(crit', {"Ready"})
  BY <1>6, SetUpNothingHolds
<1> QED
  BY <1>3, <1>4, <1>5, <1>6 DEF Open

\* A step of the walk is one of the iterator that has something to give.
LEMMA WalkedOnly ==
  ASSUME IInv, NEW k \in Kinds, pc = k
  PROVE  /\ Giving /\ crit.inst \in Inst /\ Walked \in Kinds
         /\ k = Walked \/ (k = "ssa" /\ Walked = "mem" /\ iter["mem"].stack = <<>>
                           /\ iter["ssa"].stack = <<>>)
         /\ iter[Walked].stack \in Seq(EntryType) /\ Vis \subseteq Inst /\ given \in Seq(Inst)
         /\ iter \in [Kinds -> [stack : Seq(EntryType), visited : SUBSET Inst]]
<1>1. Giving /\ Walked \in Kinds
  BY DEF Giving, Walked, Kinds
<1>2. iter \in [Kinds -> [stack : Seq(EntryType), visited : SUBSET Inst]] /\ given \in Seq(Inst)
  BY DEF IInv, TypeOK
<1>3. iter[Walked] \in [stack : Seq(EntryType), visited : SUBSET Inst]
  BY <1>1, <1>2
<1>4. k = Walked \/ (k = "ssa" /\ Walked = "mem" /\ iter["mem"].stack = <<>>
                     /\ iter["ssa"].stack = <<>>)
  BY <1>1 DEF IInv, FlagsInv, Kinds
<1> QED
  BY <1>1, <1>2, <1>3, <1>4 DEF IInv, FlagsInv, Vis

LEMMA AdvanceHolds ==
  ASSUME IInv, NEW k \in Kinds, Advance(k)
  PROVE  IInv' /\ AbstractStep
<1>1. /\ pc = "next" /\ pc' = k /\ UNCHANGED <<graphVars, iterVars, pdg>>
  BY DEF Advance
<1>2. /\ UNCHANGED <<fun, must, at, nodes, outN, inN, crit, flags, iter, depinst, given, pdg>>
  BY <1>1 DEF graphVars, iterVars
<1>3. /\ Walked' = Walked /\ \A j, i : Neighbours(j, i)' = Neighbours(j, i)
      /\ \A j, i : Succ(j, i)' = Succ(j, i)
      /\ \A j, i : Reach(j, i)' = Reach(j, i)
  BY <1>1, <1>2, ReachKept
<1>4. k = Walked
  BY <1>1 DEF IInv, FlagsInv, Giving, Advance, DoneBits, Kinds, Walked
<1>5. TypeOK'
  BY <1>1, <1>2 DEF IInv, TypeOK, Kinds
<1>6. FlagsInv'
  BY <1>1, <1>2, <1>3, <1>4 DEF IInv, FlagsInv, Giving, Kinds
<1>7. WalkInv'
  <2>1. St' = St /\ Vis' = Vis
    BY <1>2, <1>3 DEF St, Vis
  <2>2. \A e : EntrySound(e)' <=> EntrySound(e)
    BY <1>2, <1>3, <2>1 DEF EntrySound
  <2>3. \A x : FollowedOrWaiting(x)' <=> FollowedOrWaiting(x)
    BY <1>3, <2>1 DEF FollowedOrWaiting
  <2> QED
    BY <1>1, <1>2, <1>3, <2>1, <2>2, <2>3 DEF IInv, WalkInv, Giving
<1>8. WalkPhase' = WalkPhase /\ WalkGoal' = WalkGoal
  BY <1>1, <1>2, <1>3 DEF WalkPhase, WalkGoal, Kinds, Before
<1> QED
  BY <1>2, <1>5, <1>6, <1>7, <1>8 DEF IInv, GraphInv, AbstractStep

\* A visit goes on from the top of the worklist.
Visits(n) ==
  /\ St # <<>> /\ Len(St) \in Nat /\ DOMAIN St = 1..Len(St)
  /\ St[Len(St)].node \in {crit.inst} \cup ToSet(given)
  /\ n \in Succ(Walked, St[Len(St)].node)
  /\ depinst' = n /\ given' = Append(given, n)
  /\ DOMAIN St' = 1..(Len(St) + 1)
  /\ \A m \in 1..Len(St) : St'[m].node = St[m].node
  /\ St'[Len(St) + 1].node = n

LEMMA VisitHolds ==
  ASSUME IInv, NEW k \in Kinds, Visit(k)
  PROVE  IInv' /\ AbstractStep /\ \E n \in Inst : Visits(n)
<1>1. pc = k /\ pc' = "next" /\ iter[k].stack # <<>> /\ flags' = flags \cup {"Start"}
      /\ UNCHANGED <<graphVars, crit, pdg>>
  BY DEF Visit
<1>2. /\ UNCHANGED <<fun, must, at, nodes, outN, inN, crit, pdg>>
      /\ fun \in Functions /\ TypeOK
  BY <1>1 DEF graphVars, IInv
<1>3. /\ Walked' = Walked /\ \A j, i : Neighbours(j, i)' = Neighbours(j, i)
      /\ \A j, i : Succ(j, i)' = Succ(j, i)
      /\ \A j, i : Reach(j, i)' = Reach(j, i)
  BY <1>1, <1>2, ReachKept
<1>4. /\ k = Walked /\ Giving /\ crit.inst \in Inst
      /\ St \in Seq(EntryType) /\ St # <<>> /\ Vis \subseteq Inst /\ given \in Seq(Inst)
      /\ iter \in [Kinds -> [stack : Seq(EntryType), visited : SUBSET Inst]]
  BY <1>1, WalkedOnly DEF St
<1>5. PICK p \in Places(k) :
        LET n == Neighbours(k, TopOf(k).node)[p] IN
          /\ FirstUnvisited(k, p)
          /\ iter' = [iter EXCEPT ![k] = [stack |-> Pushed(k, p), visited |-> iter[k].visited \cup {n}]]
          /\ depinst' = n
          /\ given' = Append(given, n)
  BY DEF Visit
<1> DEFINE top == TopOf(k)
           nb == Neighbours(k, top.node)
           n == nb[p]
           t == Append(Append(Front(St), [node |-> top.node, place |-> p]), [node |-> n, place |-> 0])
<1>6. /\ Len(St) \in Nat \ {0} /\ top = St[Len(St)] /\ top \in EntryType /\ DOMAIN St = 1..Len(St)
      /\ top.node \in Inst /\ top.place \in Nat /\ nb \in Seq(Inst \cup {NoInst})
      /\ Len(nb) \in Nat /\ DOMAIN nb = 1..Len(nb)
  <2>1. Len(St) \in Nat \ {0} /\ top = St[Len(St)] /\ top \in EntryType /\ DOMAIN St = 1..Len(St)
    BY <1>4, FrontLast, LenProperties DEF TopOf, St
  <2>2. top.node \in Inst /\ top.place \in Nat
    BY <2>1 DEF EntryType
  <2>3. nb \in Seq(Inst \cup {NoInst})
    BY <1>2, <2>2, NeighboursType
  <2> HIDE DEF top, nb
  <2> QED
    BY <2>1, <2>2, <2>3, LenProperties
<1>7. /\ p \in Nat \ {0} /\ p \in 1..Len(nb) /\ n \in Inst /\ n \notin Vis
      /\ \A q \in 1..(p - 1) : nb[q] \in {NoInst} \cup Vis
  <2>1. p \in Nat \ {0} /\ p \in 1..Len(nb) /\ top.place <= p
    <3> HIDE DEF nb
    <3> QED
      BY <1>6 DEF Places, nb
  <2>2. n \in Inst \cup {NoInst}
    <3> HIDE DEF nb
    <3> QED
      BY <1>6, <2>1, ElementOfSeq
  <2>3. n \notin {NoInst} \cup Vis
    BY <1>4, <1>5 DEF FirstUnvisited, Unvisited, Vis
  <2>4. ASSUME NEW q \in 1..(p - 1) PROVE nb[q] \in {NoInst} \cup Vis
    <3>1. CASE q <= top.place - 1
      <4>1. EntrySound(St[Len(St)])
        <5>1. \A m \in DOMAIN St : EntrySound(St[m])
          BY <1>4 DEF IInv, WalkInv
        <5>2. Len(St) \in DOMAIN St
          BY <1>6
        <5> QED
          BY <5>1, <5>2, Zenon
      <4>2. q \in 1..(top.place - 1)
        BY <1>6, <2>1, <3>1
      <4> QED
        BY <1>4, <1>6, <4>1, <4>2 DEF EntrySound
    <3>2. CASE ~(q <= top.place - 1)
      <4>1. q \in Places(k) /\ q < p
        <5> HIDE DEF nb
        <5> QED
          BY <1>6, <2>1, <3>2 DEF Places, nb
      <4>2. ~Unvisited(k, q)
        BY <1>5, <4>1 DEF FirstUnvisited
      <4> QED
        BY <1>4, <4>2 DEF Unvisited, Vis
    <3> QED
      BY <3>1, <3>2
  <2> QED
    BY <2>1, <2>2, <2>3, <2>4
<1>8. /\ iter' = [iter EXCEPT ![k] = [stack |-> t, visited |-> Vis \cup {n}]]
      /\ depinst' = n /\ given' = Append(given, n)
  BY <1>4, <1>5 DEF Pushed, St, Vis
<1>9. n \in Succ(Walked, top.node)
  <2> HIDE DEF nb
  <2>1. n \in ToSet(nb)
    BY <1>6, <1>7 DEF ToSet
  <2>2. n # NoInst
    BY <1>7 DEF Inst, NoInst
  <2> QED
    BY <1>4, <2>1, <2>2 DEF Succ, nb
<1>10. n \in Reach(Walked, crit.inst)
  <2>1. top.node \in {crit.inst} \cup Vis
    BY <1>4, <1>6 DEF IInv, WalkInv, EntrySound
  <2> HIDE DEF n, top
  <2>2. CASE top.node = crit.inst
    BY <1>7, <1>9, <2>2, ReachFirst
  <2>3. CASE top.node \in Vis
    <3>1. top.node \in Reach(Walked, crit.inst)
      BY <1>4, <2>3 DEF IInv, WalkInv
    <3> QED
      BY <1>7, <1>9, <3>1, ReachNext
  <2> QED
    BY <2>1, <2>2, <2>3
<1> HIDE DEF n, nb
<1>11. /\ t \in Seq(EntryType)
       /\ Len(t) = Len(St) + 1 /\ DOMAIN t = 1..(Len(St) + 1)
       /\ \A m \in 1..(Len(St) - 1) : t[m] = St[m]
       /\ t[Len(St)] = [node |-> top.node, place |-> p]
       /\ t[Len(St) + 1] = [node |-> n, place |-> 0]
  <2>1. [node |-> top.node, place |-> p] \in EntryType /\ [node |-> n, place |-> 0] \in EntryType
    BY <1>6, <1>7 DEF EntryType
  <2> QED
    BY <1>4, <2>1, PushedFacts
<1> HIDE DEF t, top
<1>12. /\ iter'[k] = [stack |-> t, visited |-> Vis \cup {n}]
       /\ \A j \in Kinds \ {k} : iter'[j] = iter[j]
       /\ iter' \in [Kinds -> [stack : Seq(EntryType), visited : SUBSET Inst]]
  BY <1>4, <1>7, <1>8, <1>11
<1>13. St' = t /\ Vis' = Vis \cup {n} /\ ToSet(given)' = ToSet(given) \cup {n}
       /\ given' \in Seq(Inst)
  <2>1. St' = t /\ Vis' = Vis \cup {n}
    BY <1>3, <1>4, <1>12 DEF St, Vis
  <2>2. ToSet(given)' = ToSet(given) \cup {n} /\ given' \in Seq(Inst)
    BY <1>4, <1>7, <1>8, ToSetAppend
  <2> QED
    BY <2>1, <2>2
<1>14. TypeOK'
  BY <1>1, <1>2, <1>7, <1>8, <1>12, <1>13 DEF TypeOK
<1>15. FlagsInv'
  <2>1. ("MemDone" \in flags') <=> ("MemDone" \in flags)
    BY <1>1
  <2>2. \A j \in Kinds : j # k => iter'[j].stack = iter[j].stack
    BY <1>12
  <2> QED
    BY <1>1, <1>2, <1>3, <1>4, <2>1, <2>2 DEF IInv, FlagsInv, Giving, Kinds
<1>16. WalkInv'
  <2>1. ToSet(given)' = Vis'
    BY <1>4, <1>13 DEF IInv, WalkInv
  <2>2. Vis' \subseteq Reach(Walked, crit.inst)'
    BY <1>2, <1>3, <1>4, <1>10, <1>13 DEF IInv, WalkInv
  <2>3. ASSUME NEW m \in DOMAIN St' PROVE EntrySound(St[m])'
    <3>1. CASE m \in 1..(Len(St) - 1)
      <4>1. St'[m] = St[m] /\ m \in DOMAIN St
        BY <1>6, <1>11, <1>13, <3>1, SMTT(30)
      <4>2. EntrySound(St[m])
        BY <1>4, <4>1 DEF IInv, WalkInv
      <4> QED
        BY <1>2, <1>3, <1>13, <4>1, <4>2 DEF EntrySound
    <3>2. CASE m = Len(St)
      <4>1. top.node \in {crit.inst} \cup Vis
        BY <1>4, <1>6 DEF IInv, WalkInv, EntrySound
      <4> QED
        BY <1>2, <1>3, <1>4, <1>7, <1>11, <1>13, <3>2, <4>1 DEF EntrySound, nb
    <3>3. CASE m = Len(St) + 1
      BY <1>11, <1>13, <3>3 DEF EntrySound
    <3> QED
      BY <1>6, <1>11, <1>13, <3>1, <3>2, <3>3
  <2>4. ASSUME NEW x \in {crit.inst} \cup Vis' PROVE FollowedOrWaiting(x)'
    <3>1. CASE x = n
      BY <1>6, <1>11, <1>13, <3>1 DEF FollowedOrWaiting
    <3>2. CASE x # n
      <4>1. FollowedOrWaiting(x)
        BY <1>4, <1>13, <3>2 DEF IInv, WalkInv
      <4>2. CASE Succ(Walked, x) \subseteq Vis
        BY <1>3, <1>13, <4>2 DEF FollowedOrWaiting
      <4>3. CASE \E m \in DOMAIN St : St[m].node = x
        <5>1. PICK m \in DOMAIN St : St[m].node = x
          BY <4>3
        <5>2. St'[m].node = x /\ m \in DOMAIN St'
          BY <1>6, <1>11, <1>13, <5>1
        <5> QED
          BY <5>2 DEF FollowedOrWaiting
      <4> QED
        BY <4>1, <4>2, <4>3 DEF FollowedOrWaiting
    <3> QED
      BY <3>1, <3>2
  <2> QED
    BY <1>2, <2>1, <2>2, <2>3, <2>4 DEF WalkInv
<1>17. Walk!Next
  <2>1. WalkPhase = "giving" /\ WalkPhase' = "giving"
    BY <1>1 DEF WalkPhase, Kinds, Before
  <2>2. WalkGoal' = WalkGoal /\ WalkGoal = Reach(Walked, crit.inst)
    BY <1>1, <1>2, <1>3, <1>4 DEF WalkGoal, Kinds, IInv, FlagsInv, Before
  <2>3. n \in WalkGoal \ ToSet(given)
    BY <1>4, <1>7, <1>10, <2>2 DEF IInv, WalkInv
  <2> QED
    BY <1>8, <2>1, <2>2, <2>3 DEF Walk!Next, Walk!Give, Walk!ToSet, ToSet
<1>18. Visits(n)
  <2>1. top.node \in {crit.inst} \cup ToSet(given)
    BY <1>4, <1>6 DEF IInv, WalkInv, EntrySound
  <2>2. \A m \in 1..Len(St) : t[m].node = St[m].node
    <3> TAKE m \in 1..Len(St)
    <3>1. Len(St) \in Nat \ {0} /\ top = St[Len(St)]
      BY <1>6
    <3>2. m \in 1..(Len(St) - 1) \/ m = Len(St)
      BY <3>1
    <3>3. CASE m \in 1..(Len(St) - 1)
      BY <1>11, <3>3
    <3>4. CASE m = Len(St)
      BY <1>11, <3>1, <3>4
    <3> QED
      BY <3>2, <3>3, <3>4
  <2> QED
    BY <1>4, <1>6, <1>8, <1>9, <1>11, <1>13, <2>1, <2>2 DEF Visits
<1> QED
  BY <1>2, <1>7, <1>14, <1>15, <1>16, <1>17, <1>18 DEF IInv, GraphInv, AbstractStep

LEMMA BacktrackHolds ==
  ASSUME IInv, NEW k \in Kinds, Backtrack(k)
  PROVE  IInv' /\ AbstractStep
<1>1. pc = k /\ pc' = k /\ iter[k].stack # <<>>
      /\ UNCHANGED <<graphVars, crit, flags, depinst, given, pdg>>
  BY DEF Backtrack
<1>2. /\ UNCHANGED <<fun, must, at, nodes, outN, inN, crit, flags, depinst, given, pdg>>
      /\ fun \in Functions /\ TypeOK
  BY <1>1 DEF graphVars, IInv
<1>3. /\ Walked' = Walked /\ \A j, i : Neighbours(j, i)' = Neighbours(j, i)
      /\ \A j, i : Succ(j, i)' = Succ(j, i)
      /\ \A j, i : Reach(j, i)' = Reach(j, i)
  BY <1>1, <1>2, ReachKept
<1>4. /\ k = Walked /\ Giving /\ crit.inst \in Inst
      /\ St \in Seq(EntryType) /\ St # <<>> /\ Vis \subseteq Inst
      /\ iter \in [Kinds -> [stack : Seq(EntryType), visited : SUBSET Inst]]
  BY <1>1, WalkedOnly DEF St
<1>5. /\ iter' = [iter EXCEPT ![k] = [stack |-> Front(St), visited |-> Vis]]
      /\ \A p \in Places(k) : ~Unvisited(k, p)
  BY <1>4 DEF Backtrack, Popped, St, Vis
<1> DEFINE top == St[Len(St)]
           nb == Neighbours(k, top.node)
<1>6. /\ Len(St) \in Nat \ {0} /\ top = TopOf(k) /\ top \in EntryType /\ DOMAIN St = 1..Len(St)
      /\ Front(St) \in Seq(EntryType) /\ DOMAIN Front(St) = 1..(Len(St) - 1)
      /\ \A n \in 1..(Len(St) - 1) : Front(St)[n] = St[n]
  BY <1>4, FrontLast, LenProperties, ZenonT(30) DEF TopOf, St
<1>7. /\ top.node \in Inst /\ top.place \in Nat
      /\ Len(nb) \in Nat /\ DOMAIN nb = 1..Len(nb)
  <2>1. top.node \in Inst /\ top.place \in Nat
    BY <1>6 DEF EntryType
  <2>2. nb \in Seq(Inst \cup {NoInst})
    BY <1>2, <2>1, NeighboursType
  <2> HIDE DEF top, nb
  <2> QED
    BY <2>1, <2>2, LenProperties
<1>8. Succ(Walked, top.node) \subseteq Vis
  <2> SUFFICES ASSUME NEW j \in DOMAIN nb, nb[j] # NoInst PROVE nb[j] \in Vis
    BY <1>4 DEF Succ, ToSet
  <2>1. CASE j <= top.place - 1
    <3>1. EntrySound(St[Len(St)])
      BY <1>4, <1>6 DEF IInv, WalkInv
    <3>2. j \in 1..(top.place - 1)
      BY <1>7, <2>1
    <3> QED
      BY <1>4, <3>1, <3>2 DEF EntrySound
  <2>2. CASE ~(j <= top.place - 1)
    <3>1. j \in Places(k)
      <4> HIDE DEF nb, top
      <4> QED
        BY <1>6, <1>7, <2>2 DEF Places, nb
    <3>2. ~Unvisited(k, j)
      BY <1>5, <3>1
    <3> QED
      BY <1>4, <1>6, <3>2 DEF Unvisited, Vis
  <2> QED
    BY <2>1, <2>2
<1> HIDE DEF nb, top
<1>9. /\ iter'[k] = [stack |-> Front(St), visited |-> Vis]
      /\ \A j \in Kinds \ {k} : iter'[j] = iter[j]
      /\ iter' \in [Kinds -> [stack : Seq(EntryType), visited : SUBSET Inst]]
  BY <1>4, <1>5, <1>6
<1>10. St' = Front(St) /\ Vis' = Vis
  BY <1>3, <1>4, <1>9 DEF St, Vis
<1>11. TypeOK'
  BY <1>1, <1>2, <1>9 DEF TypeOK
<1>12. FlagsInv'
  <2>1. \A j \in Kinds : j # k => iter'[j].stack = iter[j].stack
    BY <1>9
  <2> QED
    BY <1>1, <1>2, <1>3, <1>4, <2>1 DEF IInv, FlagsInv, Giving, Kinds
<1>13. WalkInv'
  <2>1. ToSet(given)' = Vis' /\ Vis' \subseteq Reach(Walked, crit.inst)'
    BY <1>2, <1>3, <1>4, <1>10 DEF IInv, WalkInv
  <2>2. ASSUME NEW m \in DOMAIN St' PROVE EntrySound(St[m])'
    <3>1. St'[m] = St[m] /\ m \in DOMAIN St
      BY <1>6, <1>10
    <3>2. EntrySound(St[m])
      BY <1>4, <3>1 DEF IInv, WalkInv
    <3> QED
      BY <1>2, <1>3, <1>10, <3>1, <3>2 DEF EntrySound
  <2>3. ASSUME NEW x \in {crit.inst} \cup Vis' PROVE FollowedOrWaiting(x)'
    <3>1. FollowedOrWaiting(x)
      BY <1>4, <1>10 DEF IInv, WalkInv
    <3>2. CASE Succ(Walked, x) \subseteq Vis
      BY <1>3, <1>10, <3>2 DEF FollowedOrWaiting
    <3>3. CASE \E m \in DOMAIN St : St[m].node = x
      <4>1. PICK m \in DOMAIN St : St[m].node = x
        BY <3>3
      <4>2. CASE m = Len(St)
        BY <1>3, <1>8, <1>10, <4>1, <4>2 DEF FollowedOrWaiting, top
      <4>3. CASE m # Len(St)
        <5>1. m \in DOMAIN St' /\ St'[m].node = x
          BY <1>6, <1>10, <4>1, <4>3
        <5> QED
          BY <5>1 DEF FollowedOrWaiting
      <4> QED
        BY <4>2, <4>3
    <3> QED
      BY <3>1, <3>2, <3>3 DEF FollowedOrWaiting
  <2> QED
    BY <1>2, <2>1, <2>2, <2>3 DEF WalkInv
<1>14. WalkPhase' = WalkPhase /\ WalkGoal' = WalkGoal
  BY <1>1, <1>2, <1>3 DEF WalkPhase, WalkGoal, Kinds, Before
<1> QED
  BY <1>2, <1>11, <1>12, <1>13, <1>14 DEF IInv, GraphInv, AbstractStep

\* With its worklist empty the iterator has given all that there is.
LEMMA AllGiven ==
  ASSUME IInv, Giving, St = <<>>
  PROVE  /\ ToSet(given) = Vis /\ Vis \subseteq Reach(Walked, crit.inst)
         /\ \A x \in {crit.inst} \cup Vis : Succ(Walked, x) \subseteq Vis
         /\ ToSet(given) = Reach(Walked, crit.inst)
<1>1. /\ ToSet(given) = Vis /\ Vis \subseteq Reach(Walked, crit.inst)
      /\ \A x \in {crit.inst} \cup Vis : Succ(Walked, x) \subseteq Vis
  BY DEF IInv, WalkInv, FollowedOrWaiting
<1>2. Vis \subseteq Inst
  BY <1>1 DEF Reach
<1>3. Closed(Walked, Vis)
  BY <1>1 DEF Closed
<1>4. Reach(Walked, crit.inst) \subseteq Vis
  BY <1>1, <1>2, <1>3, ReachLeast
<1> QED
  BY <1>1, <1>4

LEMMA ExhaustedHolds ==
  ASSUME IInv, NEW k \in Kinds, Exhausted(k)
  PROVE  IInv' /\ AbstractStep
<1>1. /\ pc = k /\ iter[k].stack = <<>> /\ flags' = flags \cup DoneBits({k}) /\ depinst' = NoInst
      /\ pc' = IF k = "mem" /\ "ssa" \in crit.request THEN "ssa" ELSE "ended"
      /\ UNCHANGED <<fun, must, at, nodes, outN, inN, crit, iter, given, pdg>>
  BY DEF Exhausted, graphVars
<1>2. /\ Walked' = Walked /\ \A j, i : Neighbours(j, i)' = Neighbours(j, i)
      /\ \A j, i : Succ(j, i)' = Succ(j, i)
      /\ \A j, i : Reach(j, i)' = Reach(j, i)
  BY <1>1, ReachKept DEF graphVars
<1>3. /\ Giving /\ crit.inst \in Inst /\ Vis \subseteq Inst /\ Walked \in crit.request
      /\ k = Walked \/ (k = "ssa" /\ Walked = "mem")
      /\ St = <<>>
  BY <1>1, WalkedOnly DEF St, IInv, FlagsInv
<1>4. TypeOK'
  <2>1. flags' \subseteq {"Ready", "Start", "SSADone", "MemDone", "AllDone"}
    BY <1>1 DEF IInv, TypeOK, DoneBits
  <2> QED
    BY <1>1, <2>1 DEF IInv, TypeOK
<1>5. /\ ToSet(given) = Vis /\ Vis \subseteq Reach(Walked, crit.inst)
      /\ \A x \in {crit.inst} \cup Vis : Succ(Walked, x) \subseteq Vis
      /\ ToSet(given) = Reach(Walked, crit.inst)
  BY <1>3, AllGiven
<1>7. WalkGoal = Reach(Walked, crit.inst) /\ WalkGoal' = WalkGoal
  BY <1>1, <1>2, <1>3 DEF WalkGoal, Kinds, Before
<1>8. CASE pc' = "ended"
  <2>1. IInv'
    BY <1>1, <1>4, <1>8 DEF IInv, GraphInv, FlagsInv, WalkInv, Giving
  <2>2. Walk!Next
    BY <1>1, <1>5, <1>7, <1>8 DEF Walk!Next, Walk!End, Walk!ToSet, ToSet, WalkPhase, Kinds, Before
  <2> QED
    BY <2>1, <2>2 DEF AbstractStep
<1>9. CASE pc' = "ssa" /\ k = "mem"
  <2>1. Walked = "mem"
    BY <1>3, <1>9
  <2>2. St' = St /\ Vis' = Vis
    BY <1>1, <1>2 DEF St, Vis
  <2>3. FlagsInv'
    BY <1>1, <1>2, <1>3, <1>9, <2>1 DEF IInv, FlagsInv, Giving
  <2>4. WalkInv'
    <3>1. \A x \in {crit.inst} \cup Vis : FollowedOrWaiting(x)'
      BY <1>2, <1>5, <2>2 DEF FollowedOrWaiting
    <3>2. ToSet(given)' = Vis' /\ Vis' \subseteq Reach(Walked, crit.inst)' /\ crit' = crit
      BY <1>1, <1>2, <1>5, <2>2
    <3>3. DOMAIN St' = {}
      BY <1>3, <2>2
    <3> QED
      BY <2>2, <3>1, <3>2, <3>3 DEF WalkInv
  <2>5. WalkPhase' = WalkPhase
    BY <1>1, <1>9 DEF WalkPhase, Before
  <2> QED
    BY <1>1, <1>4, <1>7, <2>3, <2>4, <2>5 DEF IInv, GraphInv, AbstractStep
<1> QED
  BY <1>1, <1>8, <1>9

LEMMA StepHolds == IInv /\ [Next]_vars => IInv' /\ AbstractStep
<1> SUFFICES ASSUME IInv, [Next]_vars PROVE IInv' /\ AbstractStep
  OBVIOUS
<1>1. CASE AddResult
  <2>1. IInv'
    BY <1>1, AddResultHolds
  <2>2. UNCHANGED <<WalkPhase, WalkGoal, given>>
    BY <1>1 DEF AddResult, WalkPhase, WalkGoal, iterVars, Before
  <2> QED
    BY <2>1, <2>2 DEF AbstractStep
<1>2. CASE NextInstruction \/ Built \/ UsePDG \/ Refused \/ SlicePush \/ SliceNext \/ \E i \in Inst : SliceInit(i)
  <2>1. IInv' /\ WalkPhase' = "idle" /\ WalkPhase = "idle" /\ given' = given
    BY <1>2, AsideHolds
  <2>2. WalkGoal' = {} /\ WalkGoal = {}
    BY <2>1 DEF WalkPhase, WalkGoal, Before
  <2> QED
    BY <2>1, <2>2 DEF AbstractStep
<1>3. CASE Open
  BY <1>3, OpenHolds
<1>4. ASSUME NEW k \in Kinds, Advance(k) PROVE IInv' /\ AbstractStep
  BY <1>4, AdvanceHolds
<1>5. ASSUME NEW k \in Kinds, Visit(k) PROVE IInv' /\ AbstractStep
  BY <1>5, VisitHolds
<1>6. ASSUME NEW k \in Kinds, Backtrack(k) PROVE IInv' /\ AbstractStep
  BY <1>6, BacktrackHolds
<1>7. ASSUME NEW k \in Kinds, Exhausted(k) PROVE IInv' /\ AbstractStep
  BY <1>7, ExhaustedHolds
<1>8. CASE UNCHANGED vars
  <2>1. UNCHANGED <<fun, must, pc, at, nodes, outN, inN, crit, flags, iter, depinst, given, pdg>>
    BY <1>8 DEF vars
  <2>2. /\ Walked' = Walked /\ \A j, i : Neighbours(j, i)' = Neighbours(j, i)
        /\ \A j, i : Succ(j, i)' = Succ(j, i)
        /\ \A j, i : Reach(j, i)' = Reach(j, i)
    BY <2>1, ReachKept DEF graphVars
  <2>3. WalkPhase' = WalkPhase /\ WalkGoal' = WalkGoal
    BY <2>1, <2>2 DEF WalkPhase, WalkGoal, Before
  <2>4. St' = St /\ Vis' = Vis
    BY <2>1, <2>2 DEF St, Vis
  <2>5. WalkInv'
    <3>1. \A e : EntrySound(e)' <=> EntrySound(e)
      BY <2>1, <2>2, <2>4 DEF EntrySound
    <3>2. \A x : FollowedOrWaiting(x)' <=> FollowedOrWaiting(x)
      BY <2>2, <2>4 DEF FollowedOrWaiting
    <3> QED
      BY <2>1, <2>2, <2>4, <3>1, <3>2 DEF IInv, WalkInv, Giving
  <2>6. FlagsInv'
    BY <2>1, <2>2 DEF IInv, FlagsInv, Giving
  <2> QED
    BY <2>1, <2>3, <2>5, <2>6 DEF IInv, TypeOK, GraphInv, AbstractStep
<1> QED
  BY <1>1, <1>2, <1>3, <1>4, <1>5, <1>6, <1>7, <1>8 DEF Next, Finished

--------------------------------------------------------------------------

\* The graph, the iterators and what is given keep their types
\* (DepGraph.h, DFSIter.h, DepIter.h).
THEOREM TypesKept == Spec => []TypeOK
<1>1. IInv => TypeOK
  BY DEF IInv
<1>2. IInv /\ [Next]_vars => IInv'
  BY StepHolds
<1> QED
  BY <1>1, <1>2, InitHolds, PTL DEF Spec

\* With one kind to walk, or none, the enumeration promised is the one walked;
\* without, nothing is promised, and before a criterion is chosen nothing is walked.
Promised ==
  /\ OneKind => Phase = WalkPhase /\ Goal = WalkGoal /\ GivenOfOne = given
  /\ ~OneKind => Phase = "idle" /\ Goal = {} /\ GivenOfOne = <<>>
  /\ Before => ~OneKind /\ WalkPhase = "idle" /\ WalkGoal = {} /\ given = <<>>

LEMMA PromisedWalked == IInv => Promised
<1> SUFFICES ASSUME IInv PROVE Promised
  OBVIOUS
<1>1. ASSUME OneKind PROVE Phase = WalkPhase /\ Goal = WalkGoal /\ GivenOfOne = given
  <2>1. ~Before /\ crit.request \subseteq Kinds
    BY <1>1 DEF OneKind, Before, IInv, TypeOK
  <2>2. Phase = WalkPhase /\ GivenOfOne = given
    BY <1>1, <2>1 DEF Phase, WalkPhase, GivenOfOne
  <2>3. CASE Walked \in crit.request
    <3>1. Sought = {Walked}
      BY <1>1, <2>1, <2>3 DEF OneKind, Sought, Walked, WantsMem, Kinds
    <3> QED
      BY <1>1, <2>1, <2>2, <2>3, <3>1 DEF Goal, WalkGoal
  <2>4. CASE Walked \notin crit.request
    <3>1. Sought = {}
      BY <2>1, <2>4 DEF Sought, Walked, WantsMem, Kinds
    <3> QED
      BY <1>1, <2>2, <2>4, <3>1 DEF Goal, WalkGoal
  <2> QED
    BY <2>3, <2>4
<1>2. ~OneKind => Phase = "idle" /\ Goal = {} /\ GivenOfOne = <<>>
  BY DEF Phase, Goal, GivenOfOne
<1>3. Before => ~OneKind /\ WalkPhase = "idle" /\ WalkGoal = {} /\ given = <<>>
  BY DEF OneKind, Before, WalkPhase, WalkGoal, IInv, FlagsInv
<1> QED
  BY <1>1, <1>2, <1>3 DEF Promised

\* The criterion is chosen once.
LEMMA CriterionKept ==
  ASSUME IInv, [Next]_vars, ~Before
  PROVE  ~Before' /\ (OneKind' <=> OneKind)
<1>1. crit' = crit /\ fun' = fun /\ ~Before'
  BY DEF Before, Next, AddResult, NextInstruction, Built, Open, Advance, Visit, Backtrack, Exhausted, UsePDG, Refused,
     SlicePush, SliceNext, SliceInit, Finished, vars, graphVars, iterVars, Kinds
<1>2. Sought' = Sought
  BY <1>1 DEF Sought, TouchesMemory
<1> QED
  BY <1>1, <1>2 DEF OneKind, Before

\* For every function, criterion and kind asked for the slicer gives each
\* instruction that dependences of the kind lead to from the criterion, once, and
\* no other, before it says that there are no more (Slicer.cpp:50, DFSIter.h:80).
THEOREM SlicerEnumerates == Spec => ImplementsEnumeration
<1>1. Init => Slice!Init
  BY DEF Init, Slice!Init, Phase, Goal, GivenOfOne, OneKind
<1>2. IInv /\ [Next]_vars => IInv'
  BY StepHolds
<1>3. IInv /\ Promised /\ Promised' /\ [Next]_vars => [Slice!Next]_(Slice!vars)
  <2> SUFFICES ASSUME IInv, Promised, Promised', [Next]_vars PROVE [Slice!Next]_(Slice!vars)
    OBVIOUS
  <2>1. Walk!Next \/ UNCHANGED <<WalkPhase, WalkGoal, given>>
    BY StepHolds DEF AbstractStep
  <2>2. CASE ~OneKind'
    <3>1. ~OneKind
      BY <2>2, CriterionKept DEF Promised
    <3> QED
      BY <2>2, <3>1 DEF Promised, Slice!vars
  <2>3. CASE OneKind'
    <3>1. Phase = WalkPhase /\ Goal = WalkGoal /\ GivenOfOne = given
      BY <2>3, CriterionKept DEF Promised
    <3>2. Phase' = WalkPhase' /\ Goal' = WalkGoal' /\ GivenOfOne' = given'
      BY <2>3 DEF Promised
    <3> QED
      BY <2>1, <3>1, <3>2 DEF Slice!vars, Slice!Next, Slice!SetUp, Slice!Give, Slice!End, Slice!NothingToGive,
         Walk!Next, Walk!SetUp, Walk!Give, Walk!End, Walk!NothingToGive, Slice!ToSet, Walk!ToSet
  <2> QED
    BY <2>2, <2>3
<1> QED
  BY <1>1, <1>2, <1>3, InitHolds, PromisedWalked, PTL DEF Spec, ImplementsEnumeration, Slice!Spec

--------------------------------------------------------------------------
(* The graph                                                               *)

\* Counting the numbers of a set up to a bound, one further.
LEMMA CountUpTo ==
  ASSUME NEW S, NEW n \in Nat
  PROVE  /\ IsFiniteSet(S \cap 1..n) /\ Cardinality(S \cap 1..n) \in Nat
         /\ Cardinality(S \cap 1..(n + 1)) = Cardinality(S \cap 1..n) + (IF n + 1 \in S THEN 1 ELSE 0)
<1>1. IsFiniteSet(S \cap 1..n) /\ Cardinality(S \cap 1..n) \in Nat
  <2>1. IsFiniteSet(1..n)
    BY FS_Interval
  <2>2. IsFiniteSet(S \cap 1..n)
    BY <2>1, FS_Subset
  <2> QED
    BY <2>2, FS_CardinalityType
<1>2. CASE n + 1 \in S
  <2>1. S \cap 1..(n + 1) = (S \cap 1..n) \cup {n + 1} /\ n + 1 \notin S \cap 1..n
    BY <1>2
  <2> QED
    BY <1>1, <1>2, <2>1, FS_AddElement
<1>3. CASE n + 1 \notin S
  <2>1. S \cap 1..(n + 1) = S \cap 1..n
    BY <1>3
  <2> QED
    BY <1>1, <1>3, <2>1
<1> QED
  BY <1>1, <1>2, <1>3

LEMMA OccursAppend ==
  ASSUME NEW T, NEW s \in Seq(T), NEW y \in T, NEW x
  PROVE  /\ Occurs(x, s) \in Nat
         /\ Occurs(x, Append(s, y)) = Occurs(x, s) + (IF x = y THEN 1 ELSE 0)
<1> DEFINE a == Append(s, y)
           S == {j \in DOMAIN a : a[j] = x}
<1>1. /\ Len(s) \in Nat /\ DOMAIN s = 1..Len(s) /\ DOMAIN a = 1..(Len(s) + 1)
      /\ a[Len(s) + 1] = y /\ \A j \in 1..Len(s) : a[j] = s[j]
  BY AppendProperties, LenProperties
<1> HIDE DEF a
<1>2. \A j \in 1..Len(s) : j \in 1..(Len(s) + 1)
  BY <1>1
<1>3. {j \in DOMAIN s : s[j] = x} = S \cap 1..Len(s)
  BY <1>1, <1>2
<1>4. S = S \cap 1..(Len(s) + 1) /\ (Len(s) + 1 \in S <=> x = y)
  <2>1. Len(s) + 1 \in 1..(Len(s) + 1)
    BY <1>1
  <2> QED
    BY <1>1, <2>1
<1> HIDE DEF S
<1>5. Occurs(x, s) = Cardinality(S \cap 1..Len(s)) /\ Occurs(x, a) = Cardinality(S)
  BY <1>3 DEF Occurs, S
<1>6. /\ Cardinality(S \cap 1..Len(s)) \in Nat
      /\ Cardinality(S \cap 1..(Len(s) + 1))
           = Cardinality(S \cap 1..Len(s)) + (IF Len(s) + 1 \in S THEN 1 ELSE 0)
  BY <1>1, CountUpTo
<1> QED
  BY <1>4, <1>5, <1>6 DEF a

LEMMA AskedShape ==
  ASSUME fun \in Functions, NEW i \in Inst
  PROVE  /\ Asked(i) \in Seq([inst : Inst \cup {NoInst}, def : BOOLEAN])
         /\ Len(Asked(i)) \in Nat /\ DOMAIN Asked(i) = 1..Len(Asked(i))
<1> DEFINE T == [inst : Inst \cup {NoInst}, def : BOOLEAN]
<1>1. fun.results \in [Inst -> Seq(T)]
  BY FunctionsAssumption
<1> HIDE DEF T
<1>2. Asked(i) \in Seq(T)
  BY <1>1 DEF Asked
<1> QED
  BY <1>2, LenProperties DEF T

LEMMA BuildInit == Init => BuildInv
<1> SUFFICES ASSUME Init PROVE BuildInv
  OBVIOUS
<1>1. /\ fun \in Functions /\ pc = "build" /\ nodes = {} /\ at.inst = 1 /\ at.taken = 0
      /\ \A i \in Inst : outN[i] = <<>> /\ inN[i] = <<>>
  BY DEF Init
<1>2. ASSUME NEW x \in Inst, NEW y \in Inst
      PROVE  Occurs(y, outN[x]) = Cardinality(Edges(x, y) \cap 1..Taken(y))
             /\ Occurs(x, inN[y]) = Cardinality(Edges(x, y) \cap 1..Taken(y))
  <2>1. Taken(y) = 0
    BY <1>1, NAssumption DEF Taken, Inst
  <2>2. Edges(x, y) \cap 1..Taken(y) = {}
    BY <2>1
  <2>3. \A z : {j \in DOMAIN <<>> : <<>>[j] = z} = {}
    OBVIOUS
  <2> QED
    BY <1>1, <2>2, <2>3 DEF Occurs
<1>3. at.inst \in Inst => at.taken <= Len(Asked(at.inst))
  BY <1>1, AskedShape
<1> QED
  BY <1>1, <1>2, <1>3 DEF BuildInv

LEMMA BuildHolds == ASSUME IInv, BuildInv, [Next]_vars PROVE BuildInv'
<1>1. /\ fun \in Functions /\ at.inst \in 1..(N + 1) /\ at.taken \in Nat /\ N \in Nat
      /\ outN \in [Inst -> Seq(Inst)] /\ inN \in [Inst -> Seq(Inst)]
  BY NAssumption DEF IInv, TypeOK
<1>2. CASE AddResult
  <2> DEFINE i == at.inst
             r == Asked(at.inst)[at.taken + 1]
             adds(x, y) == y = i /\ Added(i, r) /\ r.inst = x
  <2>1. /\ i \in Inst /\ at.taken < Len(Asked(i)) /\ pc = "build" /\ pc' = "build"
        /\ fun' = fun /\ must' = must /\ at'.inst = i /\ at'.taken = at.taken + 1
        /\ IF Added(i, r)
           THEN /\ nodes' = nodes \cup {r.inst, i}
                /\ outN' = [outN EXCEPT ![r.inst] = Append(outN[r.inst], i)]
                /\ inN' = [inN EXCEPT ![i] = Append(inN[i], r.inst)]
           ELSE UNCHANGED <<nodes, outN, inN>>
    BY <1>2 DEF AddResult, InAfter
  <2>2. /\ Len(Asked(i)) \in Nat /\ DOMAIN Asked(i) = 1..Len(Asked(i))
        /\ at.taken + 1 \in DOMAIN Asked(i) /\ at.taken + 1 <= Len(Asked(i))
        /\ r.inst \in Inst \cup {NoInst}
    <3>1. /\ Len(Asked(i)) \in Nat /\ DOMAIN Asked(i) = 1..Len(Asked(i))
          /\ Asked(i) \in Seq([inst : Inst \cup {NoInst}, def : BOOLEAN])
      BY <1>1, <2>1, AskedShape
    <3>2. at.taken + 1 \in DOMAIN Asked(i) /\ at.taken + 1 <= Len(Asked(i))
      BY <1>1, <2>1, <3>1, SMTT(30)
    <3>3. r \in [inst : Inst \cup {NoInst}, def : BOOLEAN]
      BY <3>1, <3>2, ElementOfSeq
    <3> QED
      BY <3>1, <3>2, <3>3
  <2>3. \A y : Asked(y)' = Asked(y)
    BY <2>1 DEF Asked
  <2>4. \A x, y : Edges(x, y)' = Edges(x, y)
    BY <2>1, <2>3 DEF Edges
  <2>5. \A y \in Inst : Taken(y)' = (IF y = i THEN Taken(y) + 1 ELSE Taken(y)) /\ Taken(y) \in Nat
    <3> TAKE y \in Inst
    <3>1. Len(Asked(y)) \in Nat /\ Asked(y)' = Asked(y)
      BY <1>1, <2>3, AskedShape
    <3>2. at'.inst = at.inst /\ at'.taken = at.taken + 1 /\ at.inst \in Nat /\ y \in Nat
      BY <1>1, <2>1 DEF Inst
    <3> QED
      BY <1>1, <3>1, <3>2 DEF Taken
  <2>6. ASSUME NEW x \in Inst, NEW y \in Inst
        PROVE  Cardinality(Edges(x, y) \cap 1..Taken(y))' =
                 Cardinality(Edges(x, y) \cap 1..Taken(y)) + (IF adds(x, y) THEN 1 ELSE 0)
    <3>1. CASE y # i
      BY <2>4, <2>5, <3>1, CountUpTo, SMTT(30)
    <3>2. CASE y = i
      <4>1. Taken(y) = at.taken /\ Taken(y)' = at.taken + 1
        BY <1>1, <2>5, <3>2 DEF Taken
      <4>2. at.taken + 1 \in Edges(x, y) <=> adds(x, y)
        BY <2>2, <3>2 DEF Edges, Added, Inst, NoInst
      <4>3. Edges(x, y)' = Edges(x, y)
        BY <2>4
      <4> HIDE DEF adds
      <4>4. Cardinality(Edges(x, y) \cap 1..(at.taken + 1)) =
              Cardinality(Edges(x, y) \cap 1..at.taken) + (IF adds(x, y) THEN 1 ELSE 0)
        BY <1>1, <4>2, CountUpTo
      <4> QED
        BY <4>1, <4>3, <4>4
    <3> QED
      BY <3>1, <3>2
  <2>7. ASSUME NEW x \in Inst, NEW y \in Inst
        PROVE  /\ Occurs(y, outN[x])' = Occurs(y, outN[x]) + (IF adds(x, y) THEN 1 ELSE 0)
               /\ Occurs(x, inN[y])' = Occurs(x, inN[y]) + (IF adds(x, y) THEN 1 ELSE 0)
    <3>1. outN[x] \in Seq(Inst) /\ inN[y] \in Seq(Inst)
      BY <1>1
    <3>2. Occurs(y, outN[x]) \in Nat /\ Occurs(x, inN[y]) \in Nat
      BY <3>1, OccursAppend
    <3>3. CASE ~Added(i, r)
      BY <2>1, <3>2, <3>3
    <3>4. CASE Added(i, r)
      <4>1. r.inst \in Inst
        BY <2>2, <3>4 DEF Added
      <4> HIDE DEF i, r
      <4>2. /\ outN'[x] = IF x = r.inst THEN Append(outN[x], i) ELSE outN[x]
            /\ inN'[y] = IF y = i THEN Append(inN[y], r.inst) ELSE inN[y]
        BY <1>1, <2>1, <3>4, <4>1
      <4>3. /\ Occurs(y, Append(outN[x], i)) = Occurs(y, outN[x]) + (IF y = i THEN 1 ELSE 0)
            /\ Occurs(x, Append(inN[y], r.inst)) = Occurs(x, inN[y]) + (IF x = r.inst THEN 1 ELSE 0)
        BY <2>1, <3>1, <4>1, OccursAppend
      <4> QED
        BY <3>2, <3>4, <4>2, <4>3
    <3> QED
      BY <3>3, <3>4
  <2>8. nodes' = {x \in Inst : outN'[x] # <<>> \/ inN'[x] # <<>>}
    <3>1. nodes = {x \in Inst : outN[x] # <<>> \/ inN[x] # <<>>}
      BY DEF BuildInv
    <3>2. CASE ~Added(i, r)
      BY <2>1, <3>1, <3>2
    <3>3. CASE Added(i, r)
      <4>1. r.inst \in Inst
        BY <2>2, <3>3 DEF Added
      <4>2. Append(outN[r.inst], i) # <<>> /\ Append(inN[i], r.inst) # <<>>
        <5>1. outN[r.inst] \in Seq(Inst) /\ inN[i] \in Seq(Inst)
          BY <1>1, <2>1, <4>1
        <5>2. r.inst \in Inst /\ i \in Inst
          BY <2>1, <4>1
        <5> HIDE DEF i, r
        <5> QED
          BY <5>1, <5>2, AppendNonEmpty
      <4> HIDE DEF i, r
      <4>3. \A x \in Inst : /\ outN'[x] = IF x = r.inst THEN Append(outN[r.inst], i) ELSE outN[x]
                            /\ inN'[x] = IF x = i THEN Append(inN[i], r.inst) ELSE inN[x]
        BY <1>1, <2>1, <3>3, <4>1
      <4>4. nodes' = nodes \cup {r.inst, i}
        BY <2>1, <3>3
      <4>5. i \in Inst
        BY <2>1
      <4>6. ASSUME NEW x \in Inst PROVE x \in nodes' <=> outN'[x] # <<>> \/ inN'[x] # <<>>
        BY <3>1, <4>2, <4>3, <4>4
      <4>7. nodes' \subseteq Inst
        BY <3>1, <4>1, <4>4, <4>5
      <4> QED
        BY <4>6, <4>7
    <3> QED
      BY <3>2, <3>3
  <2> HIDE DEF i, r, adds
  <2>9. \A x, y \in Inst : /\ Occurs(y, outN[x])' = Cardinality(Edges(x, y) \cap 1..Taken(y))'
                           /\ Occurs(x, inN[y])' = Cardinality(Edges(x, y) \cap 1..Taken(y))'
    <3>1. \A x, y \in Inst : /\ Occurs(y, outN[x]) = Cardinality(Edges(x, y) \cap 1..Taken(y))
                             /\ Occurs(x, inN[y]) = Cardinality(Edges(x, y) \cap 1..Taken(y))
      BY DEF BuildInv
    <3> TAKE x, y \in Inst
    <3>2. /\ Occurs(y, outN[x]) = Cardinality(Edges(x, y) \cap 1..Taken(y))
          /\ Occurs(x, inN[y]) = Cardinality(Edges(x, y) \cap 1..Taken(y))
      BY <3>1
    <3> QED
      BY <2>6, <2>7, <3>2
  <2>10. at'.taken <= Len(Asked(at.inst))' /\ at'.inst = at.inst
    BY <2>1, <2>2, <2>3 DEF i
  <2> QED
    BY <2>1, <2>3, <2>8, <2>9, <2>10 DEF BuildInv, i
<1>3. CASE NextInstruction
  <2>1. /\ at.inst \in Inst /\ at.taken = Len(Asked(at.inst)) /\ pc = "build" /\ pc' = "build"
        /\ at'.inst = at.inst + 1 /\ at'.taken = 0
        /\ UNCHANGED <<fun, must, nodes, outN, inN>>
    BY <1>3 DEF NextInstruction
  <2>2. \A y : Asked(y)' = Asked(y)
    BY <2>1 DEF Asked
  <2>3. \A x, y : Edges(x, y)' = Edges(x, y)
    BY <2>1, <2>2 DEF Edges
  <2>4. \A y \in Inst : Taken(y)' = Taken(y)
    BY <1>1, <2>1, <2>2, SMTT(30) DEF Taken, Inst
  <2>5. at'.inst \in Inst => at'.taken <= Len(Asked(at'.inst))
    BY <1>1, <2>1, AskedShape
  <2> QED
    BY <2>1, <2>2, <2>3, <2>4, <2>5 DEF BuildInv
<1>4. CASE ~AddResult /\ ~NextInstruction
  <2>1. UNCHANGED <<fun, must, at, nodes, outN, inN>>
    BY <1>4 DEF Next, Built, Open, Advance, Visit, Backtrack, Exhausted, UsePDG, Refused, SlicePush, SliceNext,
       SliceInit, Finished, vars, graphVars
  <2>4. pc' # "build" => at.inst \notin Inst
    <3>1. pc # "build" => at.inst \notin Inst
      BY DEF BuildInv
    <3>2. pc' = pc \/ pc # "build" \/ Built
      BY <1>4 DEF Next, Open, Advance, Visit, Backtrack, Exhausted, UsePDG, Refused, SlicePush, SliceNext,
         SliceInit, Finished, vars, Kinds
    <3> QED
      BY <3>1, <3>2 DEF Built
  <2>2. \A y : Asked(y)' = Asked(y) /\ Taken(y)' = Taken(y)
    BY <2>1 DEF Asked, Taken
  <2>3. \A x, y : Edges(x, y)' = Edges(x, y)
    BY <2>1, <2>2 DEF Edges
  <2> QED
    BY <2>1, <2>2, <2>3, <2>4 DEF BuildInv
<1> QED
  BY <1>2, <1>3, <1>4

(***************************************************************************)
(* For every function, each definite result of a memory query is one edge, *)
(* found from both its ends, and only ends of edges are nodes: what a      *)
(* backward slice walks is the inverse of what the forward ones do         *)
(* (DepGraphBuilder.cpp:110, Graph.h:126).                                 *)
(***************************************************************************)
THEOREM GraphAlwaysExact == Spec => []GraphExact
<1>1. IInv /\ BuildInv => GraphExact
  <2> SUFFICES ASSUME IInv, BuildInv, pc = "choose" PROVE GraphExact
    BY DEF GraphExact
  <2>1. /\ at.inst \notin Inst /\ at.inst \in 1..(N + 1) /\ N \in Nat /\ fun \in Functions
    BY NAssumption DEF BuildInv, IInv, TypeOK
  <2>2. ASSUME NEW x \in Inst, NEW y \in Inst
        PROVE  Edges(x, y) \cap 1..Taken(y) = {j \in DOMAIN Asked(y) :
                 Asked(y)[j].inst = x /\ x # y /\ (must => Asked(y)[j].def)}
    <3>1. Taken(y) = Len(Asked(y))
      BY <2>1 DEF Taken, Inst
    <3>2. 1..Taken(y) = DOMAIN Asked(y)
      BY <2>1, <3>1, AskedShape
    <3> QED
      BY <3>2 DEF Edges
  <2> QED
    BY <2>2, ZenonT(30) DEF BuildInv, GraphExact
<1>2. IInv /\ BuildInv /\ [Next]_vars => IInv' /\ BuildInv'
  BY StepHolds, BuildHolds
<1> QED
  BY <1>1, <1>2, InitHolds, BuildInit, PTL DEF Spec

--------------------------------------------------------------------------
(* The order of the walk                                                   *)

\* The last of what was given, or the criterion.
LEMMA LastGiven ==
  ASSUME NEW T, NEW s \in Seq(T), NEW c, NEW x \in T
  PROVE  Last(<<c>> \o Append(s, x)) = x /\ Last(<<c>> \o <<>>) = c
<1>1. Append(s, x) \in Seq(T \cup {c}) /\ <<c>> \in Seq(T \cup {c})
  OBVIOUS
<1>2. Len(Append(s, x)) = Len(s) + 1 /\ Append(s, x)[Len(s) + 1] = x /\ Len(s) \in Nat
  BY AppendProperties, LenProperties
<1> DEFINE a == Append(s, x)
<1> HIDE DEF a
<1>3. /\ Len(<<c>> \o a) = 1 + Len(a)
      /\ \A i \in 1..(1 + Len(a)) : (<<c>> \o a)[i] = IF i <= 1 THEN <<c>>[i] ELSE a[i - 1]
  BY <1>1, ConcatProperties DEF a
<1>4. Last(<<c>> \o a) = x
  <2>1. Len(<<c>> \o a) = Len(s) + 2
    BY <1>2, <1>3 DEF a
  <2>2. (<<c>> \o a)[Len(s) + 2] = a[Len(s) + 1]
    BY <1>2, <1>3 DEF a
  <2> QED
    BY <1>2, <2>1, <2>2 DEF Last, a
<1>5. Last(<<c>> \o <<>>) = c
  BY DEF Last
<1> QED
  BY <1>4, <1>5 DEF a

LEMMA CausesHold == ASSUME IInv, CauseInv, [Next]_vars PROVE CauseInv'
<1> USE DEF Giving
<1>1. CASE Open
  <2> SUFFICES ASSUME Giving' PROVE CauseInv'
    BY DEF CauseInv
  <2>1. PICK k \in Kinds : SetUp(crit', k) /\ k = Walked'
    BY <1>1 DEF Open, SetUpNothing, Walked, Kinds, WantsMem, TouchesMemory, graphVars
  <2>2. iter'[k] = Begin(crit'.inst) /\ depinst' = crit'.inst
    BY <2>1 DEF SetUp
  <2>3. St' = <<[node |-> crit'.inst, place |-> 0]>>
    BY <2>1, <2>2 DEF Begin, St
  <2>4. given' = <<>>
    BY <1>1 DEF Open, IInv, FlagsInv
  <2>5. Last(<<crit'.inst>> \o <<>>) = crit'.inst
    BY DEF Last
  <2> QED
    BY <2>2, <2>3, <2>4, <2>5 DEF CauseInv, LedTo
<1>2. ASSUME NEW k \in Kinds, Visit(k) PROVE CauseInv'
  <2>1. UNCHANGED <<graphVars, crit>> /\ Giving /\ Giving'
    BY <1>2, WalkedOnly DEF Visit
  <2>2. Walked' = Walked /\ crit' = crit /\ \A j, i : Succ(j, i)' = Succ(j, i)
    BY <2>1, ReachKept
  <2>3. PICK x \in Inst : Visits(x)
    BY <1>2, VisitHolds
  <2>4. /\ given \in Seq(Inst) /\ Len(given) \in Nat /\ DOMAIN given = 1..Len(given)
        /\ DOMAIN given' = 1..(Len(given) + 1)
        /\ given'[Len(given) + 1] = x /\ \A n \in 1..Len(given) : given'[n] = given[n]
    <3>1. given \in Seq(Inst) /\ given' = Append(given, x)
      BY <2>3 DEF IInv, TypeOK, Visits
    <3> QED
      BY <3>1, AppendProperties, LenProperties
  <2>5. /\ St # <<>> /\ Len(St) \in Nat /\ DOMAIN St = 1..Len(St) /\ DOMAIN St' = 1..(Len(St) + 1)
        /\ \A m \in 1..Len(St) : St'[m].node = St[m].node
        /\ St'[Len(St) + 1].node = x /\ x \in Succ(Walked, St[Len(St)].node)
        /\ St[Len(St)].node \in {crit.inst} \cup ToSet(given)
    BY <2>3 DEF Visits
  <2>6. ASSUME NEW n \in DOMAIN given' PROVE CausedBy(n)'
    <3>1. CASE n \in 1..Len(given)
      <4>1. CausedBy(n)
        BY <2>1, <2>4, <3>1 DEF CauseInv
      <4>2. given'[n] = given[n] /\ \A m \in 1..n - 1 : given'[m] = given[m]
        BY <2>4, <3>1
      <4> QED
        BY <2>2, <4>1, <4>2 DEF CausedBy
    <3>2. CASE n = Len(given) + 1
      <4>1. n - 1 = Len(given)
        BY <2>4, <3>2
      <4>2. ToSet(given) \subseteq {given'[m] : m \in 1..n - 1}
        BY <2>4, <4>1 DEF ToSet
      <4> QED
        BY <2>2, <2>4, <2>5, <3>2, <4>2 DEF CausedBy
    <3> QED
      BY <2>4, <3>1, <3>2
  <2>7. ASSUME NEW n \in DOMAIN St' PROVE LedTo(n)'
    <3>1. CASE n \in 1..Len(St)
      <4>1. LedTo(n)
        BY <2>1, <2>5, <3>1 DEF CauseInv
      <4>2. n # 1 => n - 1 \in 1..Len(St)
        BY <2>5, <3>1
      <4> QED
        BY <2>2, <2>5, <3>1, <4>1, <4>2 DEF LedTo
    <3>2. CASE n = Len(St) + 1
      <4>1. Len(St) # 0 /\ n # 1 /\ n - 1 = Len(St) /\ Len(St) \in 1..Len(St)
        BY <2>5, <3>2
      <4> QED
        BY <2>2, <2>5, <3>2, <4>1 DEF LedTo
    <3> QED
      BY <2>5, <3>1, <3>2
  <2>8. St' # <<>> /\ depinst' = Last(<<crit.inst>> \o given)'
    <3>1. Last(<<crit.inst>> \o Append(given, x)) = x
      BY <2>4, LastGiven
    <3> QED
      BY <2>2, <2>3, <2>5, <3>1 DEF Visits
  <2> QED
    BY <2>6, <2>7, <2>8 DEF CauseInv
<1>3. ASSUME NEW k \in Kinds, Backtrack(k) PROVE CauseInv'
  <2>1. UNCHANGED <<graphVars, crit>> /\ pc = k /\ pc' = k /\ iter[k].stack # <<>> /\ given' = given
        /\ iter' = [iter EXCEPT ![k] = [stack |-> Front(iter[k].stack), visited |-> iter[k].visited]]
    BY <1>3 DEF Backtrack, Popped
  <2>2. Walked' = Walked /\ crit' = crit /\ \A j, i : Succ(j, i)' = Succ(j, i)
    BY <2>1, ReachKept
  <2>3. Giving /\ k = Walked /\ St \in Seq(EntryType) /\ St # <<>> /\ St = iter[k].stack
        /\ iter \in [Kinds -> [stack : Seq(EntryType), visited : SUBSET Inst]]
    BY <2>1, WalkedOnly DEF St
  <2>4. St' = Front(St)
    BY <2>1, <2>2, <2>3 DEF St
  <2>5. /\ Len(St) \in Nat \ {0} /\ DOMAIN St = 1..Len(St) /\ DOMAIN Front(St) = 1..(Len(St) - 1)
        /\ \A n \in 1..(Len(St) - 1) : Front(St)[n] = St[n]
    BY <2>3, FrontLast, LenProperties
  <2>6. ASSUME NEW n \in DOMAIN St' PROVE LedTo(n)'
    <3>1. n \in DOMAIN St /\ St'[n] = St[n] /\ (n # 1 => St'[n - 1] = St[n - 1])
      BY <2>4, <2>5
    <3>2. LedTo(n)
      BY <2>3, <3>1 DEF CauseInv
    <3> QED
      BY <2>2, <3>1, <3>2 DEF LedTo
  <2>7. \A n \in DOMAIN given' : CausedBy(n)'
    BY <2>1, <2>2, <2>3 DEF CauseInv, CausedBy
  <2>8. pc' # "next"
    BY <2>1 DEF Kinds
  <2> QED
    BY <2>6, <2>7, <2>8 DEF CauseInv
<1>4. ASSUME UNCHANGED <<graphVars, crit, iter, given>>, Giving' => Giving,
             pc' = "next" => pc = "next" /\ depinst' = depinst
      PROVE  CauseInv'
  <2>1. Walked' = Walked /\ crit' = crit /\ \A j, i : Succ(j, i)' = Succ(j, i)
    BY <1>4, ReachKept
  <2>2. St' = St /\ given' = given
    BY <1>4, <2>1 DEF St
  <2>3. \A n : (CausedBy(n)' <=> CausedBy(n)) /\ (LedTo(n)' <=> LedTo(n))
    BY <2>1, <2>2 DEF CausedBy, LedTo
  <2> QED
    BY <1>4, <2>1, <2>2, <2>3 DEF CauseInv
<1>5. ASSUME NEW k \in Kinds, Advance(k) \/ Exhausted(k) PROVE CauseInv'
  <2>1. UNCHANGED <<graphVars, crit, iter, given>> /\ Giving /\ pc' # "next"
    BY <1>5 DEF Advance, Exhausted, iterVars, Kinds
  <2> QED
    BY <1>4, <2>1
<1>6. CASE UNCHANGED vars
  <2>1. UNCHANGED <<graphVars, crit, iter, given, pc, depinst>>
    BY <1>6 DEF vars, graphVars
  <2> QED
    BY <1>4, <2>1
<1>7. CASE AddResult \/ NextInstruction \/ Built \/ UsePDG \/ SlicePush \/ SliceNext
           \/ \E i \in Inst : SliceInit(i)
  <2>1. ~Giving'
    BY <1>7 DEF AddResult, NextInstruction, Built, UsePDG, SlicePush, SliceNext, SliceInit
  <2> QED
    BY <2>1 DEF CauseInv
<1> QED
  BY <1>1, <1>2, <1>3, <1>5, <1>6, <1>7 DEF Next, Refused, Finished

--------------------------------------------------------------------------
(* PDGSlicer                                                               *)

LEMMA PDGShape ==
  ASSUME IInv
  PROVE  /\ pdg \in PDGType
         /\ pdg.stack \in Seq(Inst) /\ pdg.visited \subseteq Inst /\ pdg.rest \in Seq(Inst)
         /\ pdg.given \in Seq(Inst) /\ pdg.crit \in Inst \cup {NoInst}
         /\ outN \in [Inst -> Seq(Inst)] /\ \A i \in Inst : Out(i) \subseteq Inst
         /\ ToSet(pdg.given) \subseteq Inst /\ IsFiniteSet(ToSet(pdg.given))
<1>1. /\ pdg \in PDGType
      /\ pdg.stack \in Seq(Inst) /\ pdg.visited \subseteq Inst /\ pdg.rest \in Seq(Inst)
      /\ pdg.given \in Seq(Inst) /\ pdg.crit \in Inst \cup {NoInst}
      /\ outN \in [Inst -> Seq(Inst)]
  BY DEF IInv, TypeOK, PDGType
<1>2. \A q \in Seq(Inst) : ToSet(q) \subseteq Inst
  BY ElementOfSeq, LenProperties DEF ToSet
<1>3. IsFiniteSet(Inst)
  BY NAssumption, FS_Interval DEF Inst
<1>4. ToSet(pdg.given) \subseteq Inst /\ \A i \in Inst : Out(i) \subseteq Inst
  BY <1>1, <1>2 DEF Out
<1> QED
  BY <1>1, <1>3, <1>4, FS_Subset

\* The out-edges lead to what can be reached, and on from there.
LEMMA ReachOutFacts ==
  ASSUME NEW i \in Inst, \A j \in Inst : Out(j) \subseteq Inst
  PROVE  /\ Out(i) \subseteq ReachOut(i) /\ ReachOut(i) \subseteq Inst
         /\ \A x \in ReachOut(i) : Out(x) \subseteq ReachOut(i)
         /\ \A S \in SUBSET Inst :
              Out(i) \subseteq S /\ (\A x \in S : Out(x) \subseteq S) => ReachOut(i) \subseteq S
  BY DEF ReachOut

\* The stack with one more, and without its last.
LEMMA NoRepeatStack ==
  ASSUME NEW q \in Seq(Inst), NoRepeat(q)
  PROVE  /\ \A x \in Inst \ ToSet(q) : NoRepeat(Append(q, x))
         /\ q # <<>> => NoRepeat(Front(q)) /\ Last(q) \notin ToSet(Front(q))
<1>1. Len(q) \in Nat /\ DOMAIN q = 1..Len(q)
  BY LenProperties
<1>2. ASSUME NEW x \in Inst \ ToSet(q) PROVE NoRepeat(Append(q, x))
  <2> DEFINE a == Append(q, x)
  <2>1. /\ DOMAIN a = 1..(Len(q) + 1) /\ a[Len(q) + 1] = x
        /\ \A n \in 1..Len(q) : a[n] = q[n]
    BY AppendProperties, LenProperties
  <2>2. \A n \in 1..Len(q) : a[n] # x
    BY <1>1, <1>2, <2>1 DEF ToSet
  <2> HIDE DEF a
  <2>3. \A n \in 1..(Len(q) + 1) : n = Len(q) + 1 \/ n \in 1..Len(q)
    BY <1>1
  <2> QED
    BY <1>1, <2>1, <2>2, <2>3 DEF NoRepeat, a
<1>3. ASSUME q # <<>> PROVE NoRepeat(Front(q)) /\ Last(q) \notin ToSet(Front(q))
  <2> DEFINE l == Len(q)
  <2>1. /\ l \in Nat \ {0} /\ Last(q) = q[l] /\ DOMAIN Front(q) = 1..(l - 1)
        /\ \A n \in 1..(l - 1) : Front(q)[n] = q[n]
    BY <1>3, FrontLast
  <2> HIDE DEF l
  <2>2. \A n \in 1..(l - 1) : n \in 1..l /\ n # l
    BY <2>1
  <2>3. l \in 1..l /\ DOMAIN q = 1..l
    BY <1>1, <2>1 DEF l
  <2> QED
    BY <2>1, <2>2, <2>3 DEF NoRepeat, ToSet
<1> QED
  BY <1>2, <1>3

LEMMA PushHolds ==
  ASSUME IInv, PDGOnce, PDGCovers, SlicePush
  PROVE  PDGOnce' /\ PDGCovers'
<1> DEFINE n == Head(pdg.rest)
<1>1. /\ pc = "pdg" /\ pc' = "pdg" /\ outN' = outN /\ pdg.rest # <<>> /\ pdg \in PDGType
      /\ pdg' = AddToSliceStack([pdg EXCEPT !.rest = Tail(pdg.rest)], n)
  BY PDGShape DEF SlicePush, graphVars
<1>2. n \in Inst /\ ToSet(pdg.rest) = {n} \cup ToSet(Tail(pdg.rest)) /\ pdg.stack \in Seq(Inst)
  BY <1>1, PDGShape, ToSetTail
<1>3. /\ pdg'.rest = Tail(pdg.rest) /\ pdg'.given = pdg.given /\ pdg'.crit = pdg.crit
      /\ pdg'.visited = pdg.visited \cup {n}
      /\ pdg'.stack = IF n \in pdg.visited THEN pdg.stack ELSE Append(pdg.stack, n)
  <2> HIDE DEF n
  <2> QED
    BY <1>1 DEF AddToSliceStack, PDGType
<1>4. ToSet(pdg'.stack) = IF n \in pdg.visited THEN ToSet(pdg.stack) ELSE ToSet(pdg.stack) \cup {n}
  <2> HIDE DEF n
  <2>1. ToSet(Append(pdg.stack, n)) = ToSet(pdg.stack) \cup {n}
    BY <1>2, ToSetAppend
  <2> QED
    BY <1>3, <2>1
<1>5. NoRepeat(pdg'.stack)
  BY <1>2, <1>3, NoRepeatStack DEF PDGOnce
<1> HIDE DEF n
<1>6. PDGOnce'
  BY <1>3, <1>4, <1>5 DEF PDGOnce
<1>7. pdg.crit # NoInst
  BY <1>1 DEF PDGCovers
<1>8. (\A x : Out(x)' = Out(x)) /\ ReachOut(pdg.crit)' = ReachOut(pdg.crit)
  <2>1. \A x : Out(x)' = Out(x)
    BY <1>1 DEF Out
  <2> QED
    BY <1>3, <2>1 DEF ReachOut
<1>9. pdg'.visited \cup ToSet(pdg'.rest) = pdg.visited \cup ToSet(pdg.rest)
  BY <1>2, <1>3
<1> QED
  BY <1>1, <1>3, <1>6, <1>7, <1>8, <1>9 DEF PDGCovers

LEMMA NextHolds ==
  ASSUME IInv, PDGOnce, PDGCovers, SliceNext
  PROVE  PDGOnce' /\ PDGCovers'
<1>1. /\ pc = "pdg" /\ pc' = "pdg" /\ outN' = outN /\ pdg.rest = <<>> /\ pdg.inited /\ pdg \in PDGType
      /\ pdg' = IF pdg.stack = <<>> THEN [pdg EXCEPT !.inited = FALSE]
                ELSE [pdg EXCEPT !.stack = Front(pdg.stack), !.rest = outN[Last(pdg.stack)],
                                 !.given = Append(pdg.given, Last(pdg.stack))]
  BY PDGShape DEF SliceNext, graphVars
<1>2. pdg.crit # NoInst /\ pdg.crit \in Inst
  BY <1>1, PDGShape DEF PDGCovers
<1>3. (\A x : Out(x)' = Out(x)) /\ (pdg'.crit = pdg.crit => ReachOut(pdg.crit)' = ReachOut(pdg.crit))
  <2>1. \A x : Out(x)' = Out(x)
    BY <1>1 DEF Out
  <2> QED
    BY <2>1 DEF ReachOut
<1>4. CASE pdg.stack = <<>>
  <2>1. /\ pdg'.stack = pdg.stack /\ pdg'.visited = pdg.visited /\ pdg'.rest = pdg.rest
        /\ pdg'.given = pdg.given /\ pdg'.crit = pdg.crit
    BY <1>1, <1>4 DEF PDGType
  <2> QED
    BY <1>1, <1>2, <1>3, <2>1, ZenonT(30) DEF PDGOnce, PDGCovers
<1>5. CASE pdg.stack # <<>>
  <2> DEFINE x == Last(pdg.stack)
  <2>1. /\ pdg'.stack = Front(pdg.stack) /\ pdg'.visited = pdg.visited /\ pdg'.rest = outN[x]
        /\ pdg'.given = Append(pdg.given, x) /\ pdg'.crit = pdg.crit
    BY <1>1, <1>5 DEF PDGType
  <2>2. /\ x \in Inst /\ ToSet(pdg.stack) = ToSet(pdg'.stack) \cup {x}
        /\ NoRepeat(pdg'.stack) /\ x \notin ToSet(pdg'.stack)
    BY <1>5, <2>1, PDGShape, FrontLast, ToSetFront, NoRepeatStack DEF PDGOnce
  <2> HIDE DEF x
  <2>3. ToSet(pdg'.given) = ToSet(pdg.given) \cup {x} /\ Len(pdg'.given) = Len(pdg.given) + 1
    BY <2>1, <2>2, PDGShape, ToSetAppend, AppendProperties
  <2>4. x \in pdg.visited /\ x \notin ToSet(pdg.given)
    BY <2>2 DEF PDGOnce
  <2>5. Cardinality(ToSet(pdg'.given)) = Len(pdg'.given)
    <3>1. Cardinality(ToSet(pdg.given) \cup {x}) = Cardinality(ToSet(pdg.given)) + 1
      BY <2>4, PDGShape, FS_AddElement
    <3> QED
      BY <2>3, <3>1 DEF PDGOnce
  <2>6. PDGOnce'
    BY <2>1, <2>2, <2>3, <2>4, <2>5 DEF PDGOnce
  <2>7. /\ pdg.visited \subseteq ReachOut(pdg.crit)
        /\ \A y \in {pdg.crit} \cup ToSet(pdg.given) : Out(y) \subseteq pdg.visited
    <3>1. ToSet(pdg.rest) = {}
      BY <1>1 DEF ToSet
    <3> QED
      BY <1>2, <3>1 DEF PDGCovers
  <2>8. Out(x) \subseteq ReachOut(pdg.crit) /\ ToSet(pdg'.rest) = Out(x)
    BY <1>2, <2>1, <2>4, <2>7, PDGShape, ReachOutFacts DEF Out
  <2>9. PDGCovers'
    BY <1>1, <1>2, <1>3, <2>1, <2>3, <2>7, <2>8 DEF PDGCovers
  <2> QED
    BY <2>6, <2>9
<1> QED
  BY <1>4, <1>5

LEMMA InitiateHolds ==
  ASSUME IInv, PDGOnce, PDGCovers, NEW i \in Inst, SliceInit(i)
  PROVE  PDGOnce' /\ PDGCovers'
<1>1. /\ pc' = "pdg" /\ outN' = outN
      /\ pdg'.stack = <<>> /\ pdg'.visited = {} /\ pdg'.rest = outN[i] /\ pdg'.given = <<>> /\ pdg'.crit = i
  BY DEF SliceInit, graphVars
<1>2. (\A x : Out(x)' = Out(x)) /\ ReachOut(i)' = ReachOut(i)
  BY <1>1 DEF Out, ReachOut
<1>3. ToSet(<<>>) = {} /\ Cardinality(ToSet(<<>>)) = Len(<<>>) /\ NoRepeat(<<>>)
  BY FS_EmptySet DEF ToSet, NoRepeat
<1>4. PDGOnce'
  BY <1>1, <1>3 DEF PDGOnce
<1>5. i # NoInst /\ Out(i) \subseteq ReachOut(i) /\ ToSet(pdg'.rest) = Out(i)
  BY <1>1, PDGShape, ReachOutFacts, SMTT(30) DEF Inst, NoInst, Out
<1>6. PDGCovers'
  BY <1>1, <1>2, <1>3, <1>5 DEF PDGCovers
<1> QED
  BY <1>4, <1>6

LEMMA PDGHolds == ASSUME IInv, PDGOnce, PDGCovers, [Next]_vars PROVE PDGOnce' /\ PDGCovers'
<1>1. CASE SlicePush \/ SliceNext \/ \E i \in Inst : SliceInit(i)
  BY <1>1, PushHolds, NextHolds, InitiateHolds
<1>2. CASE ~(SlicePush \/ SliceNext \/ \E i \in Inst : SliceInit(i))
  <2>1. pdg' = pdg
    BY <1>2 DEF Next, AddResult, NextInstruction, Built, Open, Advance, Visit, Backtrack, Exhausted, UsePDG, Refused,
       Finished, vars
  <2>2. pc = "pdg" => outN' = outN /\ pc' = pc
    BY <1>2 DEF Next, AddResult, NextInstruction, Built, Open, Advance, Visit, Backtrack, Exhausted, UsePDG, Refused,
       Finished, vars, Kinds
  <2>3. outN' = outN => (\A x : Out(x)' = Out(x)) /\ ReachOut(pdg.crit)' = ReachOut(pdg.crit)
    BY <2>1 DEF Out, ReachOut
  <2> QED
    BY <2>1, <2>2, <2>3 DEF PDGOnce, PDGCovers
<1> QED
  BY <1>1, <1>2

--------------------------------------------------------------------------
(* Memory dependences first                                                *)

\* No memory dependences lead on from a criterion without a node.
LEMMA NoNodeNothing == GraphInv /\ crit.inst \in Inst \ nodes => Reach("mem", crit.inst) = {}
<1> SUFFICES ASSUME GraphInv, crit.inst \in Inst \ nodes PROVE Reach("mem", crit.inst) = {}
  OBVIOUS
<1>1. Neighbours("mem", crit.inst) = <<>>
  BY DEF GraphInv, Neighbours
<1>2. Succ("mem", crit.inst) = {} /\ Closed("mem", {})
  BY <1>1 DEF Succ, Closed, ToSet
<1> QED
  BY <1>2 DEF Reach

LEMMA FirstHolds == ASSUME IInv, IInv', MemoryFirst, [Next]_vars PROVE MemoryFirst'
<1> SUFFICES ASSUME "mem" \in Sought', pc' \in {"ssa", "ended"}
             PROVE  Reach("mem", crit.inst)' \subseteq ToSet(given)'
  BY DEF MemoryFirst
<1>1. CASE Open
  <2>1. /\ fun' = fun /\ nodes' = nodes /\ pc' = "ended" /\ crit'.inst \in Inst
    BY <1>1 DEF Open, SetUp, SetUpNothing, graphVars
  <2>2. WantsMem(crit') /\ crit'.inst \notin nodes
    BY <1>1, <2>1 DEF Open, SetUp, Sought, WantsMem, TouchesMemory, HasNode
  <2>3. (GraphInv /\ crit.inst \in Inst \ nodes => Reach("mem", crit.inst) = {})'
    BY NoNodeNothing, PTL
  <2> QED
    BY <2>1, <2>2, <2>3 DEF IInv
<1>2. CASE UNCHANGED <<graphVars, crit, given>> /\ ~Before
  <2>1. Walked' = Walked /\ Reach("mem", crit.inst)' = Reach("mem", crit.inst)
    BY <1>2, ReachKept
  <2>2. "mem" \in Sought /\ Walked = "mem"
    BY <1>2 DEF Sought, Walked, WantsMem, TouchesMemory, graphVars
  <2>3. CASE pc \in {"ssa", "ended"}
    BY <1>2, <2>1, <2>2, <2>3 DEF MemoryFirst
  <2>4. CASE pc \notin {"ssa", "ended"}
    <3>1. \E k \in Kinds : Advance(k) \/ Exhausted(k)
      BY <1>2, <2>4 DEF Before, Next, AddResult, NextInstruction, Built, Open, Visit, Backtrack,
         UsePDG, Refused, SlicePush, SliceNext, SliceInit, Finished, vars, Kinds
    <3>4. Exhausted("mem") \/ Advance("ssa")
      BY <2>4, <3>1 DEF Advance, Exhausted, Kinds
    <3>2. CASE Exhausted("mem")
      <4>1. Giving /\ St = <<>>
        BY <2>2, <3>2 DEF Exhausted, Giving, St
      <4> QED
        BY <1>2, <2>1, <2>2, <4>1, AllGiven
    <3>3. CASE Advance("ssa")
      BY <2>2, <3>3 DEF Advance, IInv, FlagsInv, Giving, DoneBits, Sought
    <3> QED
      BY <3>2, <3>3, <3>4
  <2> QED
    BY <2>3, <2>4
<1>3. CASE ~Open /\ ~(UNCHANGED <<graphVars, crit, given>> /\ ~Before)
  <2>1. pc' \notin {"ssa", "ended"}
    BY <1>3 DEF Before, Next, AddResult, NextInstruction, Built, Advance, Visit, Backtrack, Exhausted,
       UsePDG, Refused, SlicePush, SliceNext, SliceInit, Finished, vars, iterVars, graphVars, Kinds
  <2> QED
    BY <2>1
<1> QED
  BY <1>1, <1>2, <1>3

(***************************************************************************)
(* For every function, criterion and request: an instruction is given only *)
(* after one it depends on in a kind asked for, the way to it is on the    *)
(* worklist, and getInst stands on the last one given (DFSIter.h:80,       *)
(* DepIter.cpp:83); memory dependences are exhausted first                 *)
(* (DepIter.cpp:110).  However a client calls sliceInit and sliceNext,     *)
(* PDGSlicer gives an instruction at most once and in the end all that the *)
(* criterion leads to (PDGSlicer.cpp:31).                                  *)
(***************************************************************************)
THEOREM WalksAlwaysExact == Spec => []WalksExact
<1>1. Init => CauseInv /\ MemoryFirst /\ PDGOnce /\ PDGCovers
  <2> SUFFICES ASSUME Init PROVE CauseInv /\ MemoryFirst /\ PDGOnce /\ PDGCovers
    OBVIOUS
  <2>1. ToSet(<<>>) = {} /\ Cardinality(ToSet(<<>>)) = Len(<<>>) /\ NoRepeat(<<>>)
    BY FS_EmptySet DEF ToSet, NoRepeat
  <2> QED
    BY <2>1 DEF Init, CauseInv, Giving, MemoryFirst, PDGOnce, PDGCovers
<1>2. IInv /\ CauseInv /\ MemoryFirst /\ PDGOnce /\ PDGCovers /\ [Next]_vars
        => IInv' /\ CauseInv' /\ MemoryFirst' /\ PDGOnce' /\ PDGCovers'
  BY StepHolds, CausesHold, FirstHolds, PDGHolds
<1>3. IInv /\ CauseInv /\ MemoryFirst /\ PDGOnce /\ PDGCovers => WalksExact
  <2> SUFFICES ASSUME IInv, CauseInv, MemoryFirst, PDGOnce, PDGCovers PROVE WalksExact
    OBVIOUS
  <2>1. ChainOfCauses
    <3> SUFFICES ASSUME Giving PROVE ChainOfCauses
      BY DEF ChainOfCauses, Giving
    <3>1. Walked \in Sought /\ Walked \in Kinds
      BY DEF IInv, FlagsInv, Sought, Walked, WantsMem, Kinds
    <3>2. \A n \in DOMAIN given : \E x \in {crit.inst} \cup {given[m] : m \in 1..n - 1} :
            \E k \in Sought : given[n] \in Succ(k, x)
      BY <3>1 DEF CauseInv, CausedBy
    <3>3. ASSUME NEW k \in Kinds, NEW n \in DOMAIN iter[k].stack
          PROVE  IF n = 1 THEN iter[k].stack[n].node = crit.inst
                 ELSE iter[k].stack[n].node \in Succ(k, iter[k].stack[n - 1].node)
      <4>1. CASE k = Walked
        BY <3>3, <4>1 DEF CauseInv, LedTo, St
      <4>2. CASE k # Walked
        <5>1. (k = "mem" /\ Walked = "ssa") \/ (k = "ssa" /\ Walked = "mem")
          BY <3>1, <3>3, <4>2 DEF Kinds
        <5>2. iter[k].stack = <<>>
          BY <5>1 DEF IInv, FlagsInv
        <5> QED
          BY <3>3, <5>2
      <4> QED
        BY <4>1, <4>2
    <3>4. pc = "next" => (\E k \in Sought : iter[k].stack # <<>>) /\ depinst = Last(<<crit.inst>> \o given)
      BY <3>1 DEF CauseInv, St
    <3> QED
      BY <3>2, <3>3, <3>4 DEF ChainOfCauses
  <2>2. pdg.crit # NoInst => ToSet(pdg.given) \subseteq ReachOut(pdg.crit)
    BY DEF PDGOnce, PDGCovers
  <2>3. ASSUME pdg.crit # NoInst, pdg.stack = <<>>, pdg.rest = <<>>
        PROVE  ReachOut(pdg.crit) \subseteq ToSet(pdg.given)
    <3>1. pdg.visited = ToSet(pdg.given) /\ ToSet(pdg.rest) = {}
      BY <2>3 DEF PDGOnce, ToSet
    <3>2. \A x \in {pdg.crit} \cup ToSet(pdg.given) : Out(x) \subseteq ToSet(pdg.given)
      BY <2>3, <3>1 DEF PDGCovers
    <3>3. pdg.crit \in Inst /\ ToSet(pdg.given) \in SUBSET Inst /\ \A j \in Inst : Out(j) \subseteq Inst
      BY <2>3, PDGShape
    <3> QED
      BY <3>2, <3>3, ReachOutFacts
  <2> QED
    BY <2>1, <2>2, <2>3, PDGShape DEF WalksExact, PDGSliceExact, PDGOnce
<1> QED
  BY <1>1, <1>2, <1>3, InitHolds, PTL DEF Spec
=============================================================================
