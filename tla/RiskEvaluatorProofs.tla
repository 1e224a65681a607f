------------------------- MODULE RiskEvaluatorProofs -------------------------
(***************************************************************************)
(* Proofs about RiskEvaluator, for modules of any size, any depth and any  *)
(* threshold.                                                              *)
(*                                                                         *)
(* Types: IInv adds to TypeOK what the profile's reader keeps and that the *)
(* cursors stay inside their lists.                                        *)
(*                                                                         *)
(* Statistics: SInv says how far the slice is assessed, and which          *)
(* instructions are counted at each point of the run.                      *)
(*                                                                         *)
(* The walk: HInv is the argument for a breadth first search whose queue   *)
(* may hold a function several times.  Near(n) are the functions within n; *)
(* QueueInv orders the queue, CoverInv puts the next distance on it,       *)
(* FollowedInv says that no call site looked at was overlooked, and        *)
(* CountInv that each turn but the first is owed to one of them.           *)
(*                                                                         *)
(* The profile: ReadTo says what the reader holds after n lines of a file  *)
(* of any shape; it turns on headings being opened and closed by the same  *)
(* text (HeadingParts, LatestOne).  SegmentsRead applies it to the file    *)
(* static_profile wrote, FirstOfOrder says which entries any order of them *)
(* puts first, and WrittenListed joins the two.                            *)
(***************************************************************************)
EXTENDS RiskEvaluator, FiniteSetTheorems, SequenceTheorems, WellFoundedInduction, TLAPS

-----------------------------------------------------------------------------
(***************************************************************************)
(* A nonempty set of naturals has a least element, from the library's      *)
(* well-foundedness of < on Nat.                                           *)
(***************************************************************************)
Less == {p \in Nat \X Nat : p[1] < p[2]}

LEMMA LeastNatural ==
  ASSUME NEW T, T \subseteq Nat, T # {}
  PROVE  \E m \in T : \A n \in T : m <= n
<1>1. IsWellFoundedOn(Less, Nat)
  <2>1. OpToRel(<, Nat) = Less
    BY Zenon DEF OpToRel, Less
  <2> QED
    BY <2>1, NatLessThanWellFounded, Zenon
<1>2. PICK m \in T : \A n \in T : ~(<<n, m>> \in Less)
  BY <1>1, WFMin
<1>3. ASSUME NEW n \in T PROVE m <= n
  <2>1. m \in Nat /\ n \in Nat /\ ~(<<n, m>> \in Less)
    BY <1>2
  <2> QED
    BY <2>1 DEF Less
<1> QED
  BY <1>3

-----------------------------------------------------------------------------
(* The functions within a distance *)

\* The call sites of the functions F.
CallGraph(F) == [F -> Seq([caller : F, loop : BOOLEAN])]

CallersIn(s, f) == {s[f][n].caller : n \in DOMAIN s[f]}
CallersOf(s, S) == UNION {CallersIn(s, f) : f \in S}

WithinIn(s, g) ==
  CHOOSE w : w = [n \in Nat |->
    IF n = 0 THEN {} ELSE IF n = 1 THEN {g}
    ELSE w[n - 1] \cup CallersOf(s, w[n - 1])]

LEMMA WithinIs == Within = WithinIn(module.sites, func)
BY DEF Within, WithinIn, Callers, CallersIn, CallersOf

\* A chain of k - 1 calls from g up to x.
Chained(F, s, g, k, x) ==
  \E p \in [1..k -> F] :
    p[1] = g /\ p[k] = x /\ \A j \in 1..(k - 1) : p[j + 1] \in CallersIn(s, p[j])

LEMMA SiteShape ==
  ASSUME NEW F, NEW t \in Seq([caller : F, loop : BOOLEAN])
  PROVE  /\ Len(t) \in Nat /\ DOMAIN t = 1..Len(t)
         /\ \A n \in DOMAIN t : t[n].caller \in F /\ t[n].loop \in BOOLEAN
<1>1. \A n \in 1..Len(t) : t[n] \in [caller : F, loop : BOOLEAN]
  BY ElementOfSeq
<1> QED
  BY <1>1

\* The recursion of Within has a solution: the functions chains of that length lead to.
LEMMA WithinStep ==
  ASSUME NEW F, NEW s \in CallGraph(F), NEW g \in F
  PROVE  /\ WithinIn(s, g)[0] = {}
         /\ WithinIn(s, g)[1] = {g}
         /\ \A n \in Nat \ {0} :
              WithinIn(s, g)[n + 1] = WithinIn(s, g)[n] \cup CallersOf(s, WithinIn(s, g)[n])
<1> DEFINE Next1(w, n) == w[n - 1] \cup CallersOf(s, w[n - 1])
           G == [n \in Nat |-> {x \in F : \E k \in 1..n : Chained(F, s, g, k, x)}]
<1>1. ASSUME NEW f \in F PROVE CallersIn(s, f) \subseteq F
  <2>1. s[f] \in Seq([caller : F, loop : BOOLEAN])
    BY DEF CallGraph
  <2>2. \A n \in DOMAIN s[f] : s[f][n].caller \in F
    BY <2>1, SiteShape
  <2> QED
    BY <2>2 DEF CallersIn
<1>2. G[0] = {}
  OBVIOUS
<1>3. G[1] = {g}
  <2>1. G[1] = {x \in F : Chained(F, s, g, 1, x)}
    OBVIOUS
  <2>2. Chained(F, s, g, 1, g)
    <3>1. [j \in 1..1 |-> g] \in [1..1 -> F]
      OBVIOUS
    <3>2. [j \in 1..1 |-> g][1] = g
      OBVIOUS
    <3>3. \A j \in 1..(1 - 1) : FALSE
      OBVIOUS
    <3> QED
      BY <3>1, <3>2, <3>3 DEF Chained
  <2>3. ASSUME NEW x \in F, Chained(F, s, g, 1, x) PROVE x = g
    BY <2>3 DEF Chained
  <2> HIDE DEF G
  <2> QED
    BY <2>1, <2>2, <2>3
<1>4. ASSUME NEW n \in Nat \ {0, 1} PROVE G[n] = Next1(G, n)
  <2>1. G[n] = {x \in F : \E k \in 1..n : Chained(F, s, g, k, x)}
        /\ G[n - 1] = {x \in F : \E k \in 1..(n - 1) : Chained(F, s, g, k, x)}
    OBVIOUS
  <2> HIDE DEF G
  <2>2. G[n - 1] \subseteq G[n]
    BY <2>1
  <2>3. ASSUME NEW f \in G[n - 1], NEW x \in CallersIn(s, f) PROVE x \in G[n]
    <3>1. f \in F /\ x \in F
      BY <1>1, <2>1
    <3>2. PICK k \in 1..(n - 1) : Chained(F, s, g, k, f)
      BY <2>1
    <3>3. PICK p \in [1..k -> F] :
            p[1] = g /\ p[k] = f /\ \A j \in 1..(k - 1) : p[j + 1] \in CallersIn(s, p[j])
      BY <3>2 DEF Chained
    <3> DEFINE q == [j \in 1..(k + 1) |-> IF j = k + 1 THEN x ELSE p[j]]
    <3>4. /\ q \in [1..(k + 1) -> F] /\ q[1] = g /\ q[k + 1] = x
          /\ \A j \in 1..k : q[j] = p[j]
      BY <3>1, <3>3
    <3> HIDE DEF q
    <3>5. ASSUME NEW j \in 1..k PROVE q[j + 1] \in CallersIn(s, q[j])
      <4>1. CASE j = k
        BY <4>1, <3>3, <3>4, <2>3
      <4>2. CASE j < k
        BY <4>2, <3>3, <3>4
      <4> QED
        BY <4>1, <4>2
    <3>6. Chained(F, s, g, k + 1, x)
      <4>1. \A j \in 1..((k + 1) - 1) : q[j + 1] \in CallersIn(s, q[j])
        BY <3>5
      <4> SUFFICES \E r \in [1..(k + 1) -> F] :
                     r[1] = g /\ r[k + 1] = x /\ \A j \in 1..((k + 1) - 1) : r[j + 1] \in CallersIn(s, r[j])
        BY DEF Chained
      <4> QED
        BY <3>4, <4>1
    <3> QED
      BY <3>1, <3>6, <2>1
  <2>4. ASSUME NEW x \in G[n], x \notin G[n - 1] PROVE \E f \in G[n - 1] : x \in CallersIn(s, f)
    <3>1. x \in F /\ Chained(F, s, g, n, x)
      BY <2>1, <2>4
    <3>2. PICK p \in [1..n -> F] :
            p[1] = g /\ p[n] = x /\ \A j \in 1..(n - 1) : p[j + 1] \in CallersIn(s, p[j])
      BY <3>1 DEF Chained
    <3> DEFINE q == [j \in 1..(n - 1) |-> p[j]]
    <3>3. /\ q \in [1..(n - 1) -> F] /\ q[1] = g /\ q[n - 1] = p[n - 1] /\ p[n - 1] \in F
          /\ \A j \in 1..(n - 1 - 1) : q[j + 1] \in CallersIn(s, q[j])
      BY <3>2
    <3>4. Chained(F, s, g, n - 1, p[n - 1])
      BY <3>3 DEF Chained
    <3>5. p[n - 1] \in G[n - 1]
      BY <3>3, <3>4, <2>1
    <3>6. x \in CallersIn(s, p[n - 1])
      BY <3>2
    <3> QED
      BY <3>5, <3>6
  <2> QED
    BY <2>2, <2>3, <2>4 DEF CallersOf
<1>5. G = [n \in Nat |-> IF n = 0 THEN {} ELSE IF n = 1 THEN {g} ELSE Next1(G, n)]
  <2> DEFINE H == [n \in Nat |-> IF n = 0 THEN {} ELSE IF n = 1 THEN {g} ELSE Next1(G, n)]
  <2>1. ASSUME NEW n \in Nat PROVE G[n] = H[n]
    <3>1. H[n] = IF n = 0 THEN {} ELSE IF n = 1 THEN {g} ELSE Next1(G, n)
      OBVIOUS
    <3> HIDE DEF G, H, Next1
    <3> QED
      BY <1>2, <1>3, <1>4, <3>1
  <2>2. G = [n \in Nat |-> G[n]] /\ H = [n \in Nat |-> H[n]]
    OBVIOUS
  <2> HIDE DEF G, H, Next1
  <2>3. G = H
    BY <2>1, <2>2
  <2> QED
    BY <2>3 DEF H
<1> DEFINE W == WithinIn(s, g)
<1>6. W = [n \in Nat |-> IF n = 0 THEN {} ELSE IF n = 1 THEN {g} ELSE Next1(W, n)]
  <2> HIDE DEF G
  <2> QED
    BY <1>5 DEF WithinIn
<1> HIDE DEF W
<1>7. \A n \in Nat : W[n] = IF n = 0 THEN {} ELSE IF n = 1 THEN {g} ELSE Next1(W, n)
  <2> HIDE DEF Next1
  <2> QED
    BY <1>6
<1>8. W[0] = {} /\ W[1] = {g} /\ \A n \in Nat \ {0, 1} : W[n] = Next1(W, n)
  <2> HIDE DEF Next1
  <2> QED
    BY <1>7
<1>9. ASSUME NEW n \in Nat \ {0} PROVE W[n + 1] = W[n] \cup CallersOf(s, W[n])
  <2>1. n + 1 \in Nat \ {0, 1} /\ (n + 1) - 1 = n
    OBVIOUS
  <2> QED
    BY <1>8, <2>1
<1> QED
  BY <1>8, <1>9 DEF W

\* The functions within a distance are functions, and a longer one loses none.
LEMMA WithinGrows ==
  ASSUME NEW F, NEW s \in CallGraph(F), NEW g \in F,
         NEW m \in Nat, NEW n \in Nat, m <= n
  PROVE  /\ WithinIn(s, g)[n] \subseteq F
         /\ WithinIn(s, g)[m] \subseteq WithinIn(s, g)[n]
<1> DEFINE W == WithinIn(s, g)
           Bad == {k \in Nat : ~(W[k] \subseteq F) \/ (m <= k /\ ~(W[m] \subseteq W[k]))}
<1>1. /\ W[0] = {} /\ W[1] = {g}
      /\ \A k \in Nat \ {0} : W[k + 1] = W[k] \cup CallersOf(s, W[k])
  BY WithinStep
<1> HIDE DEF W
<1>2. ASSUME NEW f \in F PROVE CallersIn(s, f) \subseteq F
  <2>1. s[f] \in Seq([caller : F, loop : BOOLEAN])
    BY DEF CallGraph
  <2> QED
    BY <2>1, SiteShape DEF CallersIn
<1>3. Bad = {}
  <2> SUFFICES ASSUME Bad # {} PROVE FALSE
    OBVIOUS
  <2>1. PICK k \in Bad : \A j \in Bad : k <= j
    BY LeastNatural
  <2>2. k \in Nat /\ (~(W[k] \subseteq F) \/ (m <= k /\ ~(W[m] \subseteq W[k])))
    OBVIOUS
  <2>3. CASE k \in {0, 1}
    <3>1. W[0] \subseteq F /\ W[1] \subseteq F /\ W[0] \subseteq W[0] /\ W[0] \subseteq W[1] /\ W[1] \subseteq W[1]
      BY <1>1
    <3> QED
      BY <2>2, <2>3, <3>1
  <2>4. CASE k \notin {0, 1}
    <3>1. k - 1 \in Nat \ {0} /\ k - 1 \notin Bad
      <4> HIDE DEF Bad
      <4> QED
        BY <2>1, <2>2, <2>4
    <3>2. W[k - 1] \subseteq F /\ (m <= k - 1 => W[m] \subseteq W[k - 1])
      BY <3>1
    <3> HIDE DEF Bad
    <3>3. W[k] = W[k - 1] \cup CallersOf(s, W[k - 1])
      <4>1. (k - 1) + 1 = k
        BY <2>2
      <4> QED
        BY <1>1, <3>1, <4>1
    <3>4. W[k] \subseteq F
      BY <1>2, <3>2, <3>3 DEF CallersOf
    <3>5. CASE m <= k - 1
      BY <2>2, <3>2, <3>3, <3>4, <3>5
    <3>6. CASE ~(m <= k - 1)
      <4>1. m <= k => m = k
        BY <2>2, <3>6
      <4> QED
        BY <2>2, <3>4, <4>1
    <3> QED
      BY <3>5, <3>6
  <2> QED
    BY <2>3, <2>4
<1>4. n \notin Bad
  BY <1>3
<1> QED
  BY <1>4 DEF W

\* Functions that hold those within d, and the callers of those within e - 1
\* that they hold, hold those within e.
LEMMA WithinClosed ==
  ASSUME NEW F, NEW s \in CallGraph(F), NEW g \in F,
         NEW V, NEW d \in Nat \ {0}, NEW e \in Nat, d <= e,
         WithinIn(s, g)[d] \subseteq V,
         \A f \in V \cap WithinIn(s, g)[e - 1] : CallersIn(s, f) \subseteq V
  PROVE  WithinIn(s, g)[e] \subseteq V
<1> DEFINE W == WithinIn(s, g)
           Bad == {k \in d..e : ~(W[k] \subseteq V)}
<1>1. \A k \in Nat \ {0} : W[k + 1] = W[k] \cup CallersOf(s, W[k])
  BY WithinStep
<1>2. \A m, n \in Nat : m <= n => W[m] \subseteq W[n]
  BY WithinGrows
<1>3. W[d] \subseteq V /\ \A f \in V \cap W[e - 1] : CallersIn(s, f) \subseteq V
  OBVIOUS
<1> HIDE DEF W
<1>4. SUFFICES ASSUME Bad # {} PROVE FALSE
  <2>1. e \in d..e
    OBVIOUS
  <2> QED
    BY <2>1 DEF W
<1>5. PICK k \in Bad : \A j \in Bad : k <= j
  <2>1. Bad \subseteq Nat
    OBVIOUS
  <2> QED
    BY <1>4, <2>1, LeastNatural
<1>6. k \in d..e /\ ~(W[k] \subseteq V)
  OBVIOUS
<1>7. k # d
  BY <1>3, <1>6
<1>8. k - 1 \in Nat \ {0} /\ k - 1 \in d..e /\ k - 1 <= e - 1 /\ (k - 1) + 1 = k /\ e - 1 \in Nat
  BY <1>6, <1>7
<1>9. W[k - 1] \subseteq V
  <2>1. k - 1 \notin Bad
    <3> HIDE DEF Bad
    <3> QED
      BY <1>5, <1>6, <1>8
  <2> QED
    BY <1>8, <2>1
<1>10. W[k] = W[k - 1] \cup CallersOf(s, W[k - 1])
  BY <1>1, <1>8
<1>11. W[k - 1] \subseteq W[e - 1]
  BY <1>2, <1>8
<1> QED
  BY <1>3, <1>6, <1>9, <1>10, <1>11 DEF CallersOf

-----------------------------------------------------------------------------
(* Types *)

Near(n) == WithinIn(module.sites, func)[n]

InputsInv == module \in Modules /\ depth \in Depths /\ level \in Levels

ReadingInv ==
  reading \in [at : {"body", "type", "end", "failed"}, type : SpeTypes \cup {InvalidType},
               profile : [SpeTypes -> SUBSET ToSet(module.lines)]]

\* Sites are looked at below the depth only, and an instruction is in hand.
CursorInv ==
  /\ pc = "sites" => queue # <<>> /\ queue[1].depth < depth /\ site <= Len(module.sites[queue[1].fn]) + 1
  /\ pc = "slice" => i <= Len(Insts)

IInv == TypeOK /\ InputsInv /\ ReadingInv /\ CursorInv

LEMMA ModuleFacts ==
  ASSUME InputsInv
  PROVE  /\ module.sites \in CallGraph(Functions) /\ IsFiniteSet(Functions)
         /\ module.lines \in Seq(STRING)
         /\ DOMAIN module.insts # {} /\ DOMAIN module.insts \subseteq Functions
         /\ DOMAIN module.slice = DOMAIN module.insts
         /\ \A f \in DOMAIN module.insts :
              module.insts[f] \in Seq(Instructions) /\ module.slice[f] \in Seq(Instructions)
         /\ depth \in Nat /\ level \in Nat \ {0} /\ CallerHot \in Nat
BY ModulesAssumption, BoundsAssumption DEF InputsInv, CallGraph

LEMMA AssessFacts ==
  ASSUME funcHot \in {Cold, Regular, Hot}, NEW x
  PROVE  /\ Assess(x) \in RISKLEVELS
         /\ funcHot = Hot /\ x.kind # "intrinsic" => Assess(x) >= ModerateRisk
         /\ x.kind = "call" /\ x.callee \in ListedExpensive =>
              Assess(x) >= IF funcHot = Hot THEN ExtremeRisk ELSE ModerateRisk
<1>1. Expensiveness(x) \in {0, 1, 2}
  BY DEF Expensiveness, InstExpensiveness, Minor, Normal, Expensive
<1>2. x.kind = "call" /\ x.callee \in ListedExpensive => Expensiveness(x) = 2 /\ x.kind # "intrinsic"
  BY DEF Expensiveness, InstExpensiveness, Expensive
<1>3. InstHotness(x) \in {0, 1, 2}
  BY DEF InstHotness, Cold, Regular, Hot
<1> DEFINE h == IF funcHot = Hot THEN Hot ELSE IF func \in module.loopy THEN InstHotness(x) ELSE Regular
           e == Expensiveness(x)
<1>4. h \in {0, 1, 2} /\ (funcHot = Hot => h = 2)
  BY <1>3 DEF Cold, Regular, Hot
<1>5. Assess(x) = IF x.kind = "intrinsic" THEN 0 ELSE RiskMatrix[h + 1][e + 1]
  BY DEF Assess, NoRisk
<1> HIDE DEF h, e
<1>6. /\ RiskMatrix[h + 1][e + 1] \in 1..4 /\ (h = 2 => RiskMatrix[h + 1][e + 1] >= 2)
      /\ e = 2 => RiskMatrix[h + 1][e + 1] >= IF h = 2 THEN 4 ELSE 2
  BY <1>1, <1>4 DEF RiskMatrix, e
<1>7. x.kind = "call" /\ x.callee \in ListedExpensive =>
        Assess(x) >= IF funcHot = Hot THEN ExtremeRisk ELSE ModerateRisk
  BY <1>4, <1>5, <1>6, <1>2 DEF e, ModerateRisk, ExtremeRisk
<1> QED
  BY <1>4, <1>5, <1>6, <1>7 DEF RISKLEVELS, ModerateRisk

LEMMA InitTypes == Init => IInv
<1> SUFFICES ASSUME Init PROVE IInv
  OBVIOUS
<1>1. InputsInv
  BY DEF Init, InputsInv
<1>2. func \in DOMAIN module.insts
  BY <1>1, ModuleFacts DEF Init
<1>3. ReadingInv
  BY DEF Init, ReadingInv, EmptyReading
<1>4. Len(module.lines) \in Nat /\ Len(module.insts[func]) \in Nat
  BY <1>1, <1>2, ModuleFacts, LenProperties
<1>5. TypeOK
  BY <1>2, <1>3, <1>4 DEF Init, TypeOK, ReadingInv, profile, EmptyReading, Insts, NoStat, NoRisk, RISKLEVELS,
     Cold, Regular, Hot
<1>6. CursorInv
  BY DEF Init, CursorInv
<1> QED
  BY <1>1, <1>3, <1>5, <1>6 DEF IInv

Entries == [fn : Functions, depth : 1..Higher(1, depth)]

LEMMA QueueFacts ==
  ASSUME IInv
  PROVE  /\ queue \in Seq(Entries) /\ Len(queue) \in Nat /\ DOMAIN queue = 1..Len(queue)
         /\ \A n \in DOMAIN queue : queue[n].fn \in Functions /\ queue[n].depth \in Nat \ {0}
         /\ depth >= 1 => \A n \in DOMAIN queue : queue[n].depth <= depth
         /\ queue # <<>> =>
              /\ 1 \in DOMAIN queue /\ Head(queue) = queue[1] /\ queue[1].fn \in Functions
              /\ Tail(queue) \in Seq(Entries) /\ Len(Tail(queue)) = Len(queue) - 1
              /\ \A n \in 1..(Len(queue) - 1) : Tail(queue)[n] = queue[n + 1]
              /\ Len(ItemSites) \in Nat /\ DOMAIN ItemSites = 1..Len(ItemSites)
              /\ ItemSites = module.sites[queue[1].fn]
              /\ \A n \in DOMAIN ItemSites : ItemSites[n].caller \in Functions /\ ItemSites[n].loop \in BOOLEAN
<1>1. queue \in Seq(Entries) /\ Len(queue) \in Nat /\ DOMAIN queue = 1..Len(queue)
  BY LenProperties DEF IInv, TypeOK, Entries
<1>2. depth \in Nat /\ module.sites \in CallGraph(Functions)
  BY ModuleFacts DEF IInv
<1>3. \A n \in DOMAIN queue : queue[n] \in Entries
  BY <1>1, ElementOfSeq
<1>4. \A n \in DOMAIN queue : queue[n].fn \in Functions /\ queue[n].depth \in 1..Higher(1, depth)
  BY <1>3 DEF Entries
<1>5. Higher(1, depth) \in Nat /\ (depth >= 1 => Higher(1, depth) = depth)
  BY <1>2 DEF Higher
<1>6. ASSUME queue # <<>>
      PROVE  /\ 1 \in DOMAIN queue /\ Head(queue) = queue[1] /\ queue[1].fn \in Functions
             /\ Tail(queue) \in Seq(Entries) /\ Len(Tail(queue)) = Len(queue) - 1
             /\ \A n \in 1..(Len(queue) - 1) : Tail(queue)[n] = queue[n + 1]
             /\ Len(ItemSites) \in Nat /\ DOMAIN ItemSites = 1..Len(ItemSites)
             /\ ItemSites = module.sites[queue[1].fn]
             /\ \A n \in DOMAIN ItemSites : ItemSites[n].caller \in Functions /\ ItemSites[n].loop \in BOOLEAN
  <2>1. /\ Head(queue) = queue[1] /\ 1 \in DOMAIN queue
        /\ Tail(queue) \in Seq(Entries) /\ Len(Tail(queue)) = Len(queue) - 1
        /\ \A n \in 1..(Len(queue) - 1) : Tail(queue)[n] = queue[n + 1]
    BY <1>1, <1>6, EmptySeq, HeadTailProperties
  <2>2. queue[1].fn \in Functions
    BY <2>1, <1>4
  <2>3. ItemSites = module.sites[queue[1].fn] /\ ItemSites \in Seq([caller : Functions, loop : BOOLEAN])
    BY <2>1, <2>2, <1>2 DEF ItemSites, Item, CallGraph
  <2>4. /\ Len(ItemSites) \in Nat /\ DOMAIN ItemSites = 1..Len(ItemSites)
        /\ \A n \in DOMAIN ItemSites : ItemSites[n].caller \in Functions /\ ItemSites[n].loop \in BOOLEAN
    BY <2>3, SiteShape
  <2> QED
    BY <2>1, <2>2, <2>3, <2>4
<1> QED
  BY <1>1, <1>4, <1>5, <1>6

LEMMA ReadTypes ==
  ASSUME IInv, ReadProfileLine \/ ProfileDone
  PROVE  IInv'
<1> USE DEF inputVars, readVars, walkVars, rateVars
<1>1. CASE ReadProfileLine
  <2> DEFINE r == reading
             l == module.lines[line]
  <2>1. /\ ReadingInv /\ line \in 1..Len(module.lines) /\ Len(module.lines) \in Nat
        /\ l \in ToSet(module.lines)
    <3>1. module.lines \in Seq(STRING) /\ Len(module.lines) \in Nat /\ DOMAIN module.lines = 1..Len(module.lines)
      BY ModuleFacts, LenProperties DEF IInv
    <3>2. line \in 1..Len(module.lines)
      BY <1>1, <3>1 DEF ReadProfileLine, IInv, TypeOK
    <3> QED
      BY <3>1, <3>2 DEF IInv, ToSet
  <2>2. reading' = ReadLine(r, l) /\ line' = line + 1 /\ module' = module /\ depth' = depth /\ level' = level
        /\ pc' \in {"profile", "exit"}
    BY <1>1 DEF ReadProfileLine
  <2>3. /\ r \in [at : {"body", "type", "end", "failed"}, type : SpeTypes \cup {InvalidType},
                  profile : [SpeTypes -> SUBSET ToSet(module.lines)]]
    BY <2>1 DEF ReadingInv
  <2> HIDE DEF r, l
  <2>4. ReadLine(r, l) \in [at : {"body", "type", "end", "failed"}, type : SpeTypes \cup {InvalidType},
                            profile : [SpeTypes -> SUBSET ToSet(module.lines)]]
    <3> DEFINE R == [at : {"body", "type", "end", "failed"}, type : SpeTypes \cup {InvalidType},
                     profile : [SpeTypes -> SUBSET ToSet(module.lines)]]
    <3>1. Fails(r) \in R
      BY <2>3 DEF Fails
    <3>2. l \in SpeTypes => [r EXCEPT !.at = "end", !.type = TypeRead(r, l)] \in R
      BY <2>3 DEF TypeRead
    <3>3. [r EXCEPT !.at = "body"] \in R /\ [r EXCEPT !.at = "type"] \in R /\ r \in R
      BY <2>3
    <3>4. r.type # InvalidType => [r EXCEPT !.profile[r.type] = @ \cup {l}] \in R
      <4>1. r.type # InvalidType => r.type \in SpeTypes
        BY <2>3
      <4>2. l \in ToSet(module.lines)
        BY <2>1 DEF l
      <4> QED
        BY <2>3, <4>1, <4>2
    <3> HIDE DEF R
    <3> SUFFICES ReadLine(r, l) \in R
      BY DEF R
    <3> QED
      BY <2>3, <3>1, <3>2, <3>3, <3>4 DEF ReadLine, NameRead
  <2>5. ReadingInv' /\ InputsInv'
    BY <2>2, <2>4 DEF ReadingInv, InputsInv, IInv
  <2>6. reading'.at \in {"body", "type", "end", "failed"} /\ DOMAIN reading'.profile = SpeTypes
        /\ \A t \in SpeTypes : reading'.profile[t] \subseteq ToSet(module.lines)
    BY <2>2, <2>4
  <2>7. line' \in 1..(Len(module.lines) + 1)
    BY <2>1, <2>2
  <2>8. TypeOK'
    BY <1>1, <2>2, <2>6, <2>7 DEF IInv, TypeOK, ReadProfileLine, profile, Insts
  <2> QED
    BY <2>2, <2>5, <2>8 DEF IInv, CursorInv
<1>2. CASE ProfileDone
  BY <1>2 DEF ProfileDone, IInv, TypeOK, InputsInv, ReadingInv, CursorInv, profile, Insts
<1> QED
  BY <1>1, <1>2

\* What the steps of the walk and of the rating leave alone.
LEMMA ReadKept ==
  ASSUME IInv, UNCHANGED readVars
  PROVE  /\ InputsInv' /\ ReadingInv' /\ depth' = depth /\ module' = module /\ level' = level
         /\ line' \in 1..(Len(module.lines) + 1) /\ reading' = reading
         /\ profile' = profile
BY DEF IInv, InputsInv, ReadingInv, readVars, inputVars, TypeOK, profile

LEMMA StartTypes ==
  ASSUME IInv, NEW f \in Functions, StartFunction(f)
  PROVE  IInv'
<1>1. /\ f \in todo /\ f \in DOMAIN module.insts /\ todo' = todo \ {f} /\ func' = f
      /\ module' = module /\ depth' = depth /\ profile' = profile
      /\ InputsInv' /\ ReadingInv' /\ reading' = reading /\ line' = line
  BY ReadKept DEF StartFunction, readVars, inputVars, IInv, TypeOK
<1>2. Len(Insts') \in Nat
  BY <1>1, ModuleFacts, LenProperties DEF IInv, Insts
<1>3. queue' \in Seq(Entries)
  <2>1. depth # 0 => [fn |-> f, depth |-> 1] \in Entries
    BY ModuleFacts DEF Entries, IInv, Higher
  <2> QED
    BY <2>1 DEF StartFunction
<1>4. /\ pc' \in {"callers", "assess"} /\ visited' = {} /\ callers' = 0 /\ funcHot' = Cold /\ i' = 1 /\ max' = NoRisk
      /\ FuncRiskStat' = NoStat /\ AllRiskStat' = AllRiskStat /\ site' = site /\ loopAnalyzed' = loopAnalyzed
  BY DEF StartFunction, StatCleared
<1>5. NoStat \in [RISKLEVELS -> Nat] /\ NoRisk \in RISKLEVELS
  BY DEF NoStat, RISKLEVELS, NoRisk
<1>6. TypeOK'
  BY <1>1, <1>2, <1>3, <1>4, <1>5, SMTT(30) DEF TypeOK, IInv, Entries
<1> QED
  BY <1>1, <1>4, <1>6 DEF IInv, CursorInv

WalkStep ==
  \/ DropDuplicate \/ VisitHot \/ VisitLeaf \/ VisitCallee
  \/ SkipVisited \/ CalledInLoop \/ PushCaller \/ SitesDone \/ WalkDone

LEMMA WalkTypes ==
  ASSUME IInv, WalkStep
  PROVE  IInv'
<1>1. /\ InputsInv' /\ ReadingInv' /\ depth' = depth /\ module' = module /\ profile' = profile
      /\ reading' = reading /\ line' = line
      /\ todo' = todo /\ func' = func /\ i' = i /\ rest' = rest /\ max' = max
      /\ FuncRiskStat' = FuncRiskStat /\ AllRiskStat' = AllRiskStat
  <2>1. UNCHANGED readVars
    BY DEF WalkStep, DropDuplicate, VisitHot, VisitLeaf, VisitCallee, SkipVisited, CalledInLoop, PushCaller,
       SitesDone, WalkDone
  <2>2. UNCHANGED <<todo, func, rateVars>>
    BY DEF WalkStep, DropDuplicate, VisitHot, VisitLeaf, VisitCallee, SkipVisited, CalledInLoop, PushCaller,
       SitesDone, WalkDone
  <2> QED
    BY <2>1, <2>2, ReadKept DEF rateVars, readVars
<1>2. /\ queue \in Seq(Entries)
      /\ queue # <<>> =>
           /\ Item = queue[1] /\ queue[1].fn \in Functions /\ Tail(queue) \in Seq(Entries)
           /\ Len(ItemSites) \in Nat /\ ItemSites = module.sites[queue[1].fn]
           /\ \A n \in 1..Len(ItemSites) : ItemSites[n].caller \in Functions
  BY QueueFacts DEF Item
<1>3. /\ pc' \in {"callers", "sites", "assess"}
      /\ visited' \subseteq Functions /\ callers' \in Nat /\ funcHot' \in {Cold, Regular, Hot}
      /\ (pc' = "sites" => site' <= Len(module.sites[queue'[1].fn]) + 1 /\ queue' # <<>> /\ queue'[1].depth < depth)
      /\ site' \in Nat \ {0} /\ loopAnalyzed' \subseteq Functions /\ queue' \in Seq(Entries)
  <2>1. /\ visited \subseteq Functions /\ callers \in Nat /\ funcHot \in {Cold, Regular, Hot} /\ site \in Nat \ {0}
        /\ loopAnalyzed \subseteq Functions
        /\ (pc = "sites" => site <= Len(module.sites[queue[1].fn]) + 1 /\ queue # <<>> /\ queue[1].depth < depth)
    BY DEF IInv, TypeOK, CursorInv
  <2>2. CASE DropDuplicate
    BY <1>2, <2>1, <2>2 DEF DropDuplicate
  <2>3. CASE VisitHot
    BY <1>2, <2>1, <2>3 DEF VisitHot
  <2>4. CASE VisitLeaf
    BY <1>2, <2>1, <2>4 DEF VisitLeaf
  <2>5. CASE VisitCallee
    <3>1. ~(queue[1].depth >= depth) => queue[1].depth < depth
      <4>1. queue # <<>>
        BY <2>5 DEF VisitCallee
      <4>2. queue[1].depth \in Nat /\ depth \in Nat
        BY <4>1, QueueFacts, ModuleFacts DEF IInv
      <4> QED
        BY <4>2
    <3> QED
      BY <1>2, <2>1, <2>5, <3>1 DEF VisitCallee, AtDepth
  <2>6. CASE SkipVisited
    BY <1>2, <2>1, <2>6 DEF SkipVisited, SiteAfterSkip
  <2>7. CASE CalledInLoop
    BY <1>2, <2>1, <2>7 DEF CalledInLoop, Site
  <2>8. CASE PushCaller
    <3>1. /\ queue # <<>> /\ site <= Len(ItemSites) /\ queue' = Append(queue, [fn |-> Site.caller, depth |-> CallerDepth])
          /\ site' = site + 1 /\ loopAnalyzed' = loopAnalyzed \cup {Site.caller}
          /\ pc' = "sites" /\ visited' = visited /\ callers' = callers /\ funcHot' = funcHot
      BY <2>1, <2>8 DEF PushCaller
    <3>2. Site.caller \in Functions
      BY <1>2, <2>1, <3>1 DEF Site
    <3>3. queue[1].depth < depth /\ queue[1].depth \in Nat \ {0} /\ depth \in Nat
      BY <2>1, <2>8, <3>1, QueueFacts, ModuleFacts DEF PushCaller, IInv
    <3>4. CallerDepth \in 1..Higher(1, depth)
      BY <1>2, <3>1, <3>3 DEF CallerDepth, Higher
    <3>5. [fn |-> Site.caller, depth |-> CallerDepth] \in Entries
      BY <3>2, <3>4 DEF Entries
    <3>6. queue' \in Seq(Entries) /\ queue' # <<>> /\ queue'[1] = queue[1]
      <4>1. queue' \in Seq(Entries) /\ Len(queue') = Len(queue) + 1 /\ \A n \in 1..Len(queue) : queue'[n] = queue[n]
        BY <1>2, <3>1, <3>5, AppendProperties
      <4>2. 1 \in 1..Len(queue) /\ Len(queue) \in Nat
        BY <3>1, QueueFacts
      <4> QED
        BY <4>1, <4>2
    <3> QED
      BY <1>2, <2>1, <3>1, <3>2, <3>3, <3>6
  <2>9. CASE SitesDone
    BY <1>2, <2>1, <2>9 DEF SitesDone
  <2>10. CASE WalkDone
    BY <1>2, <2>1, <2>10 DEF WalkDone, walkVars, VerdictByCallers
  <2> QED
    BY <2>2, <2>3, <2>4, <2>5, <2>6, <2>7, <2>8, <2>9, <2>10 DEF WalkStep
<1>4. TypeOK'
  BY <1>1, <1>3 DEF IInv, TypeOK, Entries, Insts
<1>5. CursorInv'
  BY <1>1, <1>3 DEF CursorInv
<1> QED
  BY <1>1, <1>4, <1>5 DEF IInv

RateStep == AssessInst \/ AssessSlice \/ CountRisk \/ FunctionDone

LEMMA RateTypes ==
  ASSUME IInv, RateStep
  PROVE  IInv'
<1>1. /\ InputsInv' /\ ReadingInv' /\ depth' = depth /\ module' = module /\ profile' = profile
      /\ reading' = reading /\ line' = line
      /\ todo' = todo /\ func' = func /\ funcHot' = funcHot
      /\ queue' = queue /\ visited' = visited /\ callers' = callers /\ site' = site /\ loopAnalyzed' = loopAnalyzed
  <2>1. UNCHANGED readVars /\ UNCHANGED <<todo, func, funcHot, walkVars>>
    BY DEF RateStep, AssessInst, AssessSlice, CountRisk, FunctionDone
  <2> QED
    BY <2>1, ReadKept DEF walkVars, readVars
<1>2. Insts' = Insts /\ Len(Insts) \in Nat
  <2>1. func \in DOMAIN module.insts
    BY DEF IInv, TypeOK
  <2> QED
    BY <1>1, <2>1, ModuleFacts, LenProperties DEF IInv, Insts
<1>3. \A x : Assess(x) \in RISKLEVELS
  BY AssessFacts DEF IInv, TypeOK
<1>4. /\ i \in 1..(Len(Insts) + 1) /\ max \in RISKLEVELS /\ FuncRiskStat \in [RISKLEVELS -> Nat]
      /\ AllRiskStat \in [RISKLEVELS -> Nat] /\ (pc = "slice" => i <= Len(Insts))
  BY DEF IInv, TypeOK, CursorInv
<1>5. /\ pc' \in {"assess", "slice", "done", "next_function"} /\ i' \in 1..(Len(Insts) + 1) /\ max' \in RISKLEVELS
      /\ FuncRiskStat' \in [RISKLEVELS -> Nat] /\ AllRiskStat' \in [RISKLEVELS -> Nat]
      /\ (pc' = "slice" => i' <= Len(Insts))
  <2> USE DEF rateVars
  <2>1. CASE AssessInst
    BY <1>3, <1>4, <2>1 DEF AssessInst
  <2>2. CASE AssessSlice
    BY <1>3, <1>4, <2>2 DEF AssessSlice, Higher
  <2>3. CASE CountRisk
    <3>1. Counted(FuncRiskStat) \in [RISKLEVELS -> Nat] /\ Counted(AllRiskStat) \in [RISKLEVELS -> Nat]
      BY <1>4 DEF Counted
    <3> QED
      BY <1>2, <1>4, <2>3, <3>1 DEF CountRisk
  <2>4. CASE FunctionDone
    BY <1>4, <2>4 DEF FunctionDone
  <2> QED
    BY <2>1, <2>2, <2>3, <2>4 DEF RateStep
<1>6. TypeOK'
  BY <1>1, <1>2, <1>5 DEF IInv, TypeOK
<1>7. CursorInv'
  BY <1>2, <1>5 DEF CursorInv
<1> QED
  BY <1>1, <1>6, <1>7 DEF IInv

LEMMA StepSplit ==
  ASSUME [Next]_vars
  PROVE  \/ ReadProfileLine \/ ProfileDone
         \/ \E f \in Functions : StartFunction(f)
         \/ WalkStep \/ RateStep
         \/ UNCHANGED vars
BY DEF Next, WalkStep, RateStep, Finished

LEMMA StepTypes ==
  ASSUME IInv, [Next]_vars
  PROVE  IInv'
<1>1. CASE UNCHANGED vars
  BY <1>1 DEF vars, IInv, TypeOK, InputsInv, ReadingInv, CursorInv, profile, Insts
<1> QED
  BY <1>1, StepSplit, ReadTypes, StartTypes, WalkTypes, RateTypes

-----------------------------------------------------------------------------
(* The evaluator's state keeps its types: no walk goes deeper than the     *)
(* depth, no index leaves its list, no risk its table                      *)
(* (Evaluator.cpp:257, 399).                                               *)

THEOREM TypeCorrect == Spec => []TypeOK
<1>1. IInv => TypeOK
  BY DEF IInv
<1>2. IInv /\ [Next]_vars => IInv'
  BY StepTypes
<1> QED
  BY <1>1, <1>2, InitTypes, PTL DEF Spec

-----------------------------------------------------------------------------
(* The statistics *)

Walking == pc \in {"callers", "sites"}
Rating == pc \in {"assess", "slice"}
Running == Walking \/ Rating

\* While an instruction is assessed, the highest risk is that of the part of
\* the slice seen so far.
StatInv ==
  /\ Walking => i = 1 /\ rest = Propagated /\ FuncRiskStat = NoStat
  /\ Rating =>
       /\ rest \in Seq(ToSet(Propagated))
       /\ \A r \in RISKLEVELS : FuncRiskStat[r] = Cardinality({n \in 1..(i - 1) : RiskOf(n) = r})
  /\ pc = "assess" => rest = (IF i = 1 THEN Propagated ELSE <<>>)
  /\ pc = "slice" =>
       /\ i > 1 => rest = <<>>
       /\ \E x \in Assessed(i) : max = Assess(x)
       /\ Assess(Insts[i]) <= max
       /\ i = 1 => \A x \in ToSet(Propagated) \ ToSet(rest) : Assess(x) <= max

\* The instructions counted so far.
InstsOf(fs) == UNION {{f} \X DOMAIN module.insts[f] : f \in fs}
CountedInsts ==
  IF Running THEN InstsOf(DOMAIN module.insts \ (todo \cup {func})) \cup {func} \X (1..(i - 1))
  ELSE InstsOf(DOMAIN module.insts \ todo)
AllRisks == AllRiskStat[0] + AllRiskStat[1] + AllRiskStat[2] + AllRiskStat[3] + AllRiskStat[4]
TotalInv ==
  /\ AllRisks = Cardinality(CountedInsts)
  /\ Running => func \notin todo
  /\ pc = "done" => todo = {}

SInv == IInv /\ StatInv /\ TotalInv

\* The highest of some risks.
LEMMA HighestIs ==
  ASSUME NEW S, S \subseteq RISKLEVELS, S # {}
  PROVE  /\ Highest(S) \in S /\ \A q \in S : q <= Highest(S)
         /\ \A r \in S : (\A q \in S : q <= r) => Highest(S) = r
<1> DEFINE Upper == {u \in RISKLEVELS : \A q \in S : q <= u}
<1>1. \E r \in S : \A q \in S : q <= r
  <2>1. Upper \subseteq Nat /\ 4 \in Upper
    BY DEF RISKLEVELS
  <2>2. PICK u \in Upper : \A w \in Upper : u <= w
    <3> HIDE DEF Upper
    <3> QED
      BY <2>1, LeastNatural
  <2>3. u \in 0..4 /\ \A q \in S : q \in 0..4 /\ q <= u
    BY DEF RISKLEVELS
  <2>4. u \in S
    <3> SUFFICES ASSUME u \notin S PROVE FALSE
      OBVIOUS
    <3>1. \A q \in S : q <= u - 1 /\ q >= 0
      BY <2>3
    <3>2. u - 1 \in 0..4
      <4> PICK q \in S : TRUE
        OBVIOUS
      <4> QED
        BY <2>3, <3>1
    <3>3. u - 1 \in Upper
      BY <3>1, <3>2 DEF RISKLEVELS
    <3> HIDE DEF Upper
    <3> QED
      BY <2>2, <2>3, <3>3
  <2> QED
    BY <2>3, <2>4
<1>2. Highest(S) \in S /\ \A q \in S : q <= Highest(S)
  BY <1>1 DEF Highest
<1>3. ASSUME NEW r \in S, \A q \in S : q <= r PROVE Highest(S) = r
  <2>1. Highest(S) <= r /\ r <= Highest(S)
    BY <1>2, <1>3
  <2>2. r \in 0..4 /\ Highest(S) \in 0..4
    BY <1>2 DEF RISKLEVELS
  <2> QED
    BY <2>1, <2>2
<1> QED
  BY <1>2, <1>3

\* The instructions assessed with one, and its risk.
LEMMA RiskFacts ==
  ASSUME funcHot \in {Cold, Regular, Hot}, NEW n
  PROVE  /\ {Assess(x) : x \in Assessed(n)} \subseteq RISKLEVELS
         /\ {Assess(x) : x \in Assessed(n)} # {}
         /\ Insts[n] \in Assessed(n)
<1>1. Insts[n] \in Assessed(n)
  BY DEF Assessed
<1>2. \A x : Assess(x) \in RISKLEVELS
  BY AssessFacts
<1> QED
  BY <1>1, <1>2

\* The verdict on a function and the profile decide what its instructions risk.
LEMMA RiskKept ==
  ASSUME UNCHANGED <<module, level, func, funcHot, reading>>
  PROVE  /\ Propagated' = Propagated /\ Insts' = Insts
         /\ \A n : Assessed(n)' = Assessed(n) /\ RiskOf(n)' = RiskOf(n)
         /\ \A x : Assess(x)' = Assess(x)
<1>1. ListedExpensive' = ListedExpensive
  BY DEF ListedExpensive, profile
<1>2. LoopsAround' = LoopsAround
  BY DEF LoopsAround
<1>3. \A l : IsTight(l)' = IsTight(l)
  BY DEF IsTight, TripCount
<1>4. \A x : InstHotness(x)' = InstHotness(x)
  BY <1>2, <1>3 DEF InstHotness
<1>5. \A x : InstExpensiveness(x)' = InstExpensiveness(x)
  BY <1>1 DEF InstExpensiveness
<1>6. \A x : ExpensiveOn(x.ways)' = ExpensiveOn(x.ways)
  BY <1>5 DEF ExpensiveOn
<1>7. \A x : Expensiveness(x)' = Expensiveness(x)
  BY <1>5, <1>6 DEF Expensiveness, IsPerfSensitive
<1>8. \A x : Assess(x)' = Assess(x)
  BY <1>4, <1>7 DEF Assess
<1>9. Propagated' = Propagated /\ Insts' = Insts
  BY DEF Propagated, Insts
<1>10. \A n : Assessed(n)' = Assessed(n)
  BY <1>9 DEF Assessed
<1>11. \A n : RiskOf(n)' = RiskOf(n)
  BY <1>8, <1>10 DEF RiskOf
<1> QED
  BY <1>8, <1>9, <1>10, <1>11

\* One more number is counted, if it is in the set.
LEMMA CountOne ==
  ASSUME NEW U, NEW n \in Nat
  PROVE  Cardinality({k \in 1..(n + 1) : k \in U})
           = Cardinality({k \in 1..n : k \in U}) + (IF n + 1 \in U THEN 1 ELSE 0)
<1> DEFINE S == {k \in 1..n : k \in U}
           T == {k \in 1..(n + 1) : k \in U}
<1>1. IsFiniteSet(1..n) /\ S \subseteq 1..n
  BY FS_Interval
<1>2. IsFiniteSet(S)
  BY <1>1, FS_Subset
<1>3. n + 1 \notin S /\ n + 1 \in Int
  OBVIOUS
<1>4. T = IF n + 1 \in U THEN S \cup {n + 1} ELSE S
  OBVIOUS
<1> HIDE DEF S, T
<1>5. Cardinality(S \cup {n + 1}) = Cardinality(S) + 1 /\ Cardinality(S) \in Nat
  BY <1>2, <1>3, FS_AddElement, FS_CardinalityType
<1> QED
  BY <1>4, <1>5 DEF S, T

LEMMA SequenceItself ==
  ASSUME NEW A, NEW s \in Seq(A)
  PROVE  s \in Seq(ToSet(s))
<1>1. Len(s) \in Nat /\ s \in [1..Len(s) -> A] /\ DOMAIN s = 1..Len(s)
  BY LenProperties
<1>2. \A n \in 1..Len(s) : s[n] \in ToSet(s)
  BY <1>1 DEF ToSet
<1>3. s \in [1..Len(s) -> ToSet(s)]
  BY <1>1, <1>2
<1> QED
  BY <1>1, <1>3, SeqDef

LEMMA PropagatedType ==
  ASSUME IInv
  PROVE  Propagated \in Seq(Instructions) /\ Propagated \in Seq(ToSet(Propagated))
<1>1. func \in DOMAIN module.insts
  BY DEF IInv, TypeOK
<1>2. Propagated \in Seq(Instructions)
  BY <1>1, ModuleFacts DEF IInv, Propagated
<1> QED
  BY <1>2, SequenceItself

LEMMA StatStart ==
  ASSUME SInv, IInv', (\E f \in Functions : StartFunction(f)) \/ ReadProfileLine \/ ProfileDone
  PROVE  StatInv'
<1>1. CASE ReadProfileLine \/ ProfileDone
  BY <1>1 DEF ReadProfileLine, ProfileDone, StatInv, Walking, Rating
<1>2. ASSUME NEW f \in Functions, StartFunction(f) PROVE StatInv'
  <2>1. /\ level' = level /\ module' = module /\ func' = f /\ FuncRiskStat' = NoStat /\ i' = 1
        /\ rest' = (IF level > 1 THEN module.slice[f] ELSE <<>>)
        /\ pc' \in {"callers", "assess"}
    BY <1>2 DEF StartFunction, StatCleared, readVars, inputVars
  <2>2. rest' = Propagated'
    BY <2>1 DEF Propagated
  <2>3. rest' \in Seq(ToSet(rest'))
    <3>1. f \in DOMAIN module.insts
      BY <1>2 DEF StartFunction, SInv, IInv, TypeOK
    <3>2. rest' \in Seq(Instructions)
      BY <2>1, <3>1, ModuleFacts DEF SInv, IInv
    <3> QED
      BY <3>2, SequenceItself
  <2>4. ASSUME NEW r \in RISKLEVELS
        PROVE  FuncRiskStat'[r] = Cardinality({n \in 1..(i' - 1) : RiskOf(n)' = r})
    <3>1. {n \in 1..(i' - 1) : RiskOf(n)' = r} = {}
      BY <2>1
    <3> QED
      BY <2>1, <3>1, FS_EmptySet, <2>4 DEF NoStat
  <2> QED
    BY <2>1, <2>2, <2>3, <2>4 DEF StatInv, Walking, Rating
<1> QED
  BY <1>1, <1>2

LEMMA StatWalk ==
  ASSUME SInv, WalkStep
  PROVE  StatInv'
<1>1. /\ Walking /\ pc' \in {"callers", "sites", "assess"}
      /\ level' = level /\ module' = module /\ func' = func
      /\ i' = i /\ rest' = rest /\ FuncRiskStat' = FuncRiskStat
  BY DEF WalkStep, DropDuplicate, VisitHot, VisitLeaf, VisitCallee, SkipVisited, CalledInLoop, PushCaller,
     SitesDone, WalkDone, readVars, inputVars, rateVars, Walking
<1>2. Propagated' = Propagated
  BY <1>1 DEF Propagated
<1>3. i = 1 /\ rest = Propagated /\ FuncRiskStat = NoStat
  BY <1>1 DEF SInv, StatInv
<1>4. Propagated \in Seq(ToSet(Propagated))
  BY PropagatedType DEF SInv
<1>5. ASSUME NEW r \in RISKLEVELS
      PROVE  FuncRiskStat'[r] = Cardinality({n \in 1..(i' - 1) : RiskOf(n)' = r})
  <2>1. {n \in 1..(i' - 1) : RiskOf(n)' = r} = {}
    BY <1>1, <1>3
  <2> QED
    BY <1>1, <1>3, <2>1, FS_EmptySet, <1>5 DEF NoStat
<1> QED
  BY <1>1, <1>2, <1>3, <1>4, <1>5 DEF StatInv, Walking, Rating

LEMMA StatRate ==
  ASSUME SInv, RateStep
  PROVE  StatInv'
<1> DEFINE P == Propagated
           Rated(n) == {k \in 1..n : RiskOf(k) = max}
<1>1. UNCHANGED <<module, level, func, funcHot, reading>> /\ Rating
  BY DEF RateStep, AssessInst, AssessSlice, CountRisk, FunctionDone, readVars, inputVars, Rating
<1>2. /\ Propagated' = P /\ Insts' = Insts
      /\ \A n : Assessed(n)' = Assessed(n) /\ RiskOf(n)' = RiskOf(n)
      /\ \A x : Assess(x)' = Assess(x)
  BY <1>1, RiskKept
<1>3. /\ funcHot \in {Cold, Regular, Hot} /\ max \in RISKLEVELS /\ i \in Nat \ {0}
      /\ FuncRiskStat \in [RISKLEVELS -> Nat] /\ \A x : Assess(x) \in 0..4
  <2>1. /\ funcHot \in {Cold, Regular, Hot} /\ max \in RISKLEVELS /\ i \in 1..(Len(Insts) + 1)
        /\ FuncRiskStat \in [RISKLEVELS -> Nat]
    BY DEF SInv, IInv, TypeOK
  <2>2. \A x : Assess(x) \in 0..4
    BY <2>1, AssessFacts DEF RISKLEVELS
  <2> QED
    BY <2>1, <2>2
<1>4. /\ rest \in Seq(ToSet(P))
      /\ \A r \in RISKLEVELS : FuncRiskStat[r] = Cardinality({n \in 1..(i - 1) : RiskOf(n) = r})
  BY <1>1 DEF SInv, StatInv
<1>5. CASE AssessInst
  <2>1. /\ pc = "assess" /\ pc' = "slice" /\ i' = i /\ rest' = rest /\ FuncRiskStat' = FuncRiskStat
        /\ max' = Assess(Insts[i])
    BY <1>5 DEF AssessInst
  <2>2. rest = (IF i = 1 THEN P ELSE <<>>)
    BY <2>1 DEF SInv, StatInv
  <2>3. Insts[i] \in Assessed(i)
    BY DEF Assessed
  <2>4. Assess(Insts[i]) <= max'
    BY <1>3, <2>1
  <2>5. \A r \in RISKLEVELS : FuncRiskStat'[r] = Cardinality({n \in 1..(i' - 1) : RiskOf(n)' = r})
    BY <1>2, <1>4, <2>1
  <2> HIDE DEF P, Rated
  <2>6. /\ rest' \in Seq(ToSet(Propagated))'
        /\ (i' > 1 => rest' = <<>>)
        /\ \E x \in Assessed(i)' : max' = Assess(x)'
        /\ (i' = 1 => \A x \in ToSet(Propagated)' \ ToSet(rest)' : Assess(x)' <= max')
    BY <1>2, <1>3, <1>4, <2>1, <2>2, <2>3
  <2>7. Assess(Insts[i])' <= max'
    BY <1>2, <2>1, <2>4
  <2> QED
    BY <2>1, <2>5, <2>6, <2>7 DEF StatInv, Walking, Rating
<1>6. CASE AssessSlice
  <2>1. /\ pc = "slice" /\ pc' = "slice" /\ i' = i /\ rest # <<>> /\ rest' = Tail(rest)
        /\ FuncRiskStat' = FuncRiskStat /\ max' = Higher(max, Assess(Head(rest)))
    BY <1>6 DEF AssessSlice
  <2>2. /\ i = 1
        /\ \E x \in Assessed(i) : max = Assess(x)
        /\ Assess(Insts[i]) <= max
        /\ \A x \in ToSet(P) \ ToSet(rest) : Assess(x) <= max
    BY <1>3, <2>1 DEF SInv, StatInv
  <2>3. /\ Head(rest) \in ToSet(P) /\ rest' \in Seq(ToSet(P))
        /\ \A x \in ToSet(rest) : x = Head(rest) \/ x \in ToSet(rest')
    <3> HIDE DEF P
    <3>1. /\ Head(rest) \in ToSet(P) /\ Tail(rest) \in Seq(ToSet(P)) /\ Head(rest) = rest[1]
          /\ Len(rest) \in Nat /\ DOMAIN rest = 1..Len(rest) /\ Len(Tail(rest)) = Len(rest) - 1
          /\ DOMAIN Tail(rest) = 1..(Len(rest) - 1)
          /\ \A n \in 1..(Len(rest) - 1) : Tail(rest)[n] = rest[n + 1]
      BY <1>4, <2>1, HeadTailProperties, LenProperties
    <3>2. ASSUME NEW n \in DOMAIN rest PROVE rest[n] = Head(rest) \/ rest[n] \in ToSet(Tail(rest))
      <4>1. n # 1 => n - 1 \in 1..(Len(rest) - 1) /\ Tail(rest)[n - 1] = rest[n]
        BY <3>1
      <4> QED
        BY <3>1, <4>1 DEF ToSet
    <3> QED
      BY <2>1, <3>1, <3>2 DEF ToSet
  <2>4. Head(rest) \in Assessed(i)
    BY <2>2, <2>3 DEF Assessed
  <2>5. max' \in {max, Assess(Head(rest))} /\ max <= max' /\ Assess(Head(rest)) <= max'
    BY <1>3, <2>1 DEF Higher, RISKLEVELS
  <2>6. max' \in 0..4 /\ max \in 0..4
    BY <1>3, <2>5 DEF RISKLEVELS
  <2>7. \E x \in Assessed(i) : max' = Assess(x)
    BY <2>2, <2>4, <2>5
  <2>8. Assess(Insts[i]) <= max'
    BY <1>3, <2>2, <2>5, <2>6
  <2>9. ASSUME NEW x \in ToSet(P) \ ToSet(rest') PROVE Assess(x) <= max'
    <3>1. x = Head(rest) \/ x \in ToSet(P) \ ToSet(rest)
      BY <2>3
    <3> QED
      BY <1>3, <2>2, <2>5, <2>6, <3>1
  <2>10. \A r \in RISKLEVELS : FuncRiskStat'[r] = Cardinality({n \in 1..(i' - 1) : RiskOf(n)' = r})
    BY <1>2, <1>4, <2>1
  <2> HIDE DEF P, Rated
  <2>11. /\ rest' \in Seq(ToSet(Propagated))'
         /\ \E x \in Assessed(i)' : max' = Assess(x)'
         /\ \A x \in ToSet(Propagated)' \ ToSet(rest)' : Assess(x)' <= max'
    BY <1>2, <2>1, <2>3, <2>7, <2>9
  <2>12. Assess(Insts[i])' <= max'
    BY <1>2, <2>1, <2>8
  <2>13. i' = 1
    BY <2>1, <2>2
  <2> QED
    BY <2>1, <2>10, <2>11, <2>12, <2>13 DEF StatInv, Walking, Rating
<1>7. CASE CountRisk
  <2>1. /\ pc = "slice" /\ pc' = "assess" /\ i' = i + 1 /\ rest = <<>> /\ rest' = rest
        /\ FuncRiskStat' = [FuncRiskStat EXCEPT ![max] = @ + 1]
    BY <1>7 DEF CountRisk, Counted
  <2>2. /\ \E x \in Assessed(i) : max = Assess(x)
        /\ Assess(Insts[i]) <= max
        /\ (i = 1 => \A x \in ToSet(P) \ ToSet(rest) : Assess(x) <= max)
    BY <2>1 DEF SInv, StatInv
  <2>3. RiskOf(i) = max
    <3> DEFINE S == {Assess(x) : x \in Assessed(i)}
    <3>1. S \subseteq RISKLEVELS /\ S # {} /\ max \in S
      BY <1>3, <2>2, RiskFacts
    <3>2. ToSet(rest) = {}
      BY <2>1 DEF ToSet
    <3>3. \A x \in Assessed(i) : Assess(x) <= max
      BY <2>2, <3>2 DEF Assessed
    <3>4. \A q \in S : q <= max
      BY <3>3
    <3> HIDE DEF S
    <3>5. Highest(S) = max
      BY <3>1, <3>4, HighestIs
    <3> QED
      BY <3>5 DEF S, RiskOf
  <2>4. ASSUME NEW r \in RISKLEVELS
        PROVE  FuncRiskStat'[r] = Cardinality({n \in 1..(i' - 1) : RiskOf(n)' = r})
    <3> DEFINE U == {n \in Nat : RiskOf(n) = r}
    <3>1. {n \in 1..(i' - 1) : RiskOf(n)' = r} = {n \in 1..((i - 1) + 1) : n \in U}
          /\ {n \in 1..(i - 1) : RiskOf(n) = r} = {n \in 1..(i - 1) : n \in U}
      <4>1. i' - 1 = (i - 1) + 1 /\ \A n : RiskOf(n)' = RiskOf(n)
        BY <1>2, <1>3, <2>1
      <4> QED
        BY <4>1
    <3>2. (i - 1) + 1 \in U <=> max = r
      BY <1>3, <2>3
    <3> HIDE DEF U
    <3>3. Cardinality({n \in 1..((i - 1) + 1) : n \in U})
            = Cardinality({n \in 1..(i - 1) : n \in U}) + (IF (i - 1) + 1 \in U THEN 1 ELSE 0)
      <4>1. i - 1 \in Nat
        BY <1>3
      <4> QED
        BY <4>1, CountOne
    <3>4. FuncRiskStat[r] = Cardinality({n \in 1..(i - 1) : n \in U})
      BY <1>4, <3>1, <2>4
    <3>5. FuncRiskStat'[r] = FuncRiskStat[r] + (IF max = r THEN 1 ELSE 0)
      BY <1>3, <2>1, <2>4
    <3> QED
      BY <3>1, <3>2, <3>3, <3>4, <3>5
  <2>5. rest' \in Seq(ToSet(Propagated))'
    BY <2>1, EmptySeq
  <2>6. i' # 1
    BY <1>3, <2>1
  <2> QED
    BY <2>1, <2>4, <2>5, <2>6 DEF StatInv, Walking, Rating
<1>8. CASE FunctionDone
  BY <1>8 DEF FunctionDone, StatInv, Walking, Rating
<1> QED
  BY <1>5, <1>6, <1>7, <1>8 DEF RateStep

\* The places in some lists.
Places(s, D) == UNION {{f} \X DOMAIN s[f] : f \in D}

LEMMA PlacesFinite ==
  ASSUME NEW A, NEW D, NEW s, IsFiniteSet(D), \A f \in D : s[f] \in Seq(A)
  PROVE  IsFiniteSet(Places(s, D))
<1> DEFINE Part(f) == {f} \X DOMAIN s[f]
           Parts == {Part(f) : f \in D}
           part == [f \in D |-> Part(f)]
<1>1. ASSUME NEW f \in D PROVE IsFiniteSet(Part(f))
  <2>1. DOMAIN s[f] = 1..Len(s[f]) /\ Len(s[f]) \in Nat
    BY LenProperties
  <2>2. IsFiniteSet(1..Len(s[f]))
    BY <2>1, FS_Interval
  <2>3. IsFiniteSet({f})
    BY FS_Singleton
  <2> QED
    BY <2>1, <2>2, <2>3, FS_Product
<1> HIDE DEF Part
<1>2. part \in Surjection(D, Parts)
  BY DEF Surjection
<1>3. IsFiniteSet(Parts)
  <2> HIDE DEF part, Parts
  <2> QED
    BY <1>2, FS_Surjection
<1>4. \A T \in Parts : IsFiniteSet(T)
  BY <1>1
<1> QED
  BY <1>3, <1>4, FS_UNION DEF Places, Part

LEMMA InstsFinite ==
  ASSUME IInv, NEW D, D \subseteq DOMAIN module.insts
  PROVE  IsFiniteSet(InstsOf(D))
<1>1. IsFiniteSet(D)
  BY ModuleFacts, FS_Subset DEF IInv
<1>2. \A f \in D : module.insts[f] \in Seq(Instructions)
  BY ModuleFacts DEF IInv
<1>3. IsFiniteSet(Places(module.insts, D))
  BY <1>1, <1>2, PlacesFinite
<1> QED
  BY <1>3 DEF InstsOf, Places

LEMMA TotalStep ==
  ASSUME SInv, IInv', [Next]_vars
  PROVE  TotalInv'
<1> DEFINE D == DOMAIN module.insts
<1>1. IInv /\ AllRisks = Cardinality(CountedInsts) /\ (Running => func \notin todo) /\ (pc = "done" => todo = {})
  BY DEF SInv, TotalInv
<1>2. ASSUME module' = module PROVE \A S : InstsOf(S)' = InstsOf(S)
  BY <1>2 DEF InstsOf
<1>3. CASE UNCHANGED vars
  BY <1>1, <1>2, <1>3 DEF vars, TotalInv, AllRisks, CountedInsts, Running, Walking, Rating, InstsOf
<1>4. CASE ReadProfileLine \/ ProfileDone
  <2>1. /\ AllRiskStat' = AllRiskStat /\ module' = module /\ todo' = todo
        /\ pc = "profile" /\ pc' \in {"profile", "exit", "next_function"}
    BY <1>4 DEF ReadProfileLine, ProfileDone, readVars, inputVars, rateVars
  <2> QED
    BY <1>1, <1>2, <2>1 DEF TotalInv, AllRisks, CountedInsts, Running, Walking, Rating, InstsOf
<1>5. ASSUME NEW f \in Functions, StartFunction(f) PROVE TotalInv'
  <2>1. /\ AllRiskStat' = AllRiskStat /\ module' = module /\ todo' = todo \ {f} /\ f \in todo /\ i' = 1 /\ func' = f
        /\ pc = "next_function" /\ pc' \in {"callers", "assess"}
    BY <1>5 DEF StartFunction, readVars, inputVars
  <2>2. CountedInsts = InstsOf(D \ todo)
    BY <2>1 DEF CountedInsts, Running, Walking, Rating
  <2>3. CountedInsts' = InstsOf(DOMAIN module.insts \ (todo \cup {func}))' \cup {f} \X (1..(i' - 1))
    BY <2>1 DEF CountedInsts, Running, Walking, Rating
  <2>4. (todo' \cup {f}) = todo /\ {f} \X (1..(i' - 1)) = {}
    BY <2>1
  <2>5. CountedInsts' = CountedInsts
    <3>1. InstsOf(DOMAIN module.insts \ (todo \cup {func}))' = InstsOf(D \ todo)
      BY <2>1, <2>4 DEF InstsOf
    <3> QED
      BY <2>2, <2>3, <2>4, <3>1
  <2> QED
    BY <1>1, <2>1, <2>5 DEF TotalInv, AllRisks, Running
<1>6. CASE WalkStep
  <2>1. /\ AllRiskStat' = AllRiskStat /\ module' = module /\ todo' = todo /\ i' = i /\ func' = func
        /\ Walking /\ pc' \in {"callers", "sites", "assess"}
    BY <1>6 DEF WalkStep, DropDuplicate, VisitHot, VisitLeaf, VisitCallee, SkipVisited, CalledInLoop, PushCaller,
       SitesDone, WalkDone, readVars, inputVars, rateVars, Walking
  <2>2. Running /\ Running'
    BY <2>1 DEF Running, Walking, Rating
  <2>3. CountedInsts' = CountedInsts
    BY <1>2, <2>1, <2>2 DEF CountedInsts
  <2> QED
    BY <1>1, <2>1, <2>2, <2>3 DEF TotalInv, AllRisks
<1>7. CASE AssessInst \/ AssessSlice
  <2>1. /\ AllRiskStat' = AllRiskStat /\ module' = module /\ todo' = todo /\ i' = i /\ func' = func
        /\ Rating /\ pc' = "slice"
    BY <1>7 DEF AssessInst, AssessSlice, readVars, inputVars, Rating
  <2>2. Running /\ Running'
    BY <2>1 DEF Running, Walking, Rating
  <2>3. CountedInsts' = CountedInsts
    BY <1>2, <2>1, <2>2 DEF CountedInsts
  <2> QED
    BY <1>1, <2>1, <2>2, <2>3 DEF TotalInv, AllRisks
<1>8. CASE CountRisk
  <2>1. /\ AllRiskStat' = [AllRiskStat EXCEPT ![max] = @ + 1] /\ module' = module /\ todo' = todo /\ i' = i + 1
        /\ func' = func /\ pc = "slice" /\ pc' = "assess"
    BY <1>8 DEF CountRisk, Counted, readVars, inputVars
  <2>2. i \in Nat \ {0} /\ max \in 0..4 /\ AllRiskStat \in [0..4 -> Nat] /\ func \in D
    <3>1. i \in 1..(Len(Insts) + 1) /\ max \in RISKLEVELS /\ AllRiskStat \in [RISKLEVELS -> Nat] /\ func \in D
      BY <1>1 DEF IInv, TypeOK
    <3> QED
      BY <3>1 DEF RISKLEVELS
  <2> DEFINE C == InstsOf(D \ (todo \cup {func})) \cup {func} \X (1..(i - 1))
  <2>3. CountedInsts = C
    BY <2>1 DEF CountedInsts, Running, Walking, Rating
  <2>4. CountedInsts' = InstsOf(D \ (todo \cup {func})) \cup {func} \X (1..(i' - 1))
    BY <1>2, <2>1 DEF CountedInsts, Running, Walking, Rating
  <2>5. CountedInsts' = C \cup {<<func, i>>}
    <3>1. 1..(i' - 1) = 1..(i - 1) \cup {i}
      BY <2>1, <2>2
    <3> QED
      BY <2>4, <3>1
  <2>6. <<func, i>> \notin C
    <3>1. <<func, i>> \notin InstsOf(D \ (todo \cup {func}))
      BY DEF InstsOf
    <3> QED
      BY <2>2, <3>1
  <2>7. IsFiniteSet(C)
    <3>1. IsFiniteSet(InstsOf(D \ (todo \cup {func})))
      BY <1>1, InstsFinite
    <3>2. IsFiniteSet(1..(i - 1))
      <4>1. 1 \in Int /\ i - 1 \in Int
        BY <2>2
      <4> QED
        BY <4>1, FS_Interval
    <3>3. IsFiniteSet({func})
      BY FS_Singleton
    <3>4. IsFiniteSet({func} \X (1..(i - 1)))
      BY <3>2, <3>3, FS_Product
    <3> QED
      BY <3>1, <3>4, FS_Union
  <2> HIDE DEF C
  <2>8. Cardinality(C \cup {<<func, i>>}) = Cardinality(C) + 1
    BY <2>6, <2>7, FS_AddElement
  <2>9. AllRisks' = AllRisks + 1
    BY <2>1, <2>2 DEF AllRisks
  <2>10. AllRisks' = Cardinality(CountedInsts')
    BY <1>1, <2>3, <2>5, <2>8, <2>9
  <2> QED
    BY <1>1, <2>1, <2>10 DEF TotalInv, Running, Rating, Walking
<1>9. CASE FunctionDone
  <2>1. /\ AllRiskStat' = AllRiskStat /\ module' = module /\ todo' = todo /\ i > Len(Insts)
        /\ pc = "assess" /\ pc' = (IF todo = {} THEN "done" ELSE "next_function")
    BY <1>9 DEF FunctionDone, readVars, inputVars, rateVars
  <2>2. /\ func \in D /\ func \notin todo
        /\ i \in 1..(Len(Insts) + 1) /\ Len(module.insts[func]) \in Nat
        /\ DOMAIN module.insts[func] = 1..Len(module.insts[func])
    <3>1. func \in D /\ i \in 1..(Len(Insts) + 1)
      BY <1>1 DEF IInv, TypeOK
    <3>2. Len(module.insts[func]) \in Nat /\ DOMAIN module.insts[func] = 1..Len(module.insts[func])
      BY <1>1, <3>1, ModuleFacts, LenProperties DEF IInv
    <3> QED
      BY <1>1, <2>1, <3>1, <3>2 DEF Running, Rating
  <2>3. CountedInsts = InstsOf(D \ (todo \cup {func})) \cup {func} \X (1..(i - 1))
    BY <2>1 DEF CountedInsts, Running, Rating
  <2>4. CountedInsts' = InstsOf(D \ todo)
    BY <1>2, <2>1 DEF CountedInsts, Running, Walking, Rating
  <2>5. 1..(i - 1) = DOMAIN module.insts[func]
    BY <2>1, <2>2 DEF Insts
  <2>6. InstsOf(D \ todo) = InstsOf(D \ (todo \cup {func})) \cup {func} \X DOMAIN module.insts[func]
    BY <2>2 DEF InstsOf
  <2> QED
    BY <1>1, <2>1, <2>3, <2>4, <2>5, <2>6 DEF TotalInv, AllRisks, Running, Walking, Rating
<1> QED
  BY <1>3, <1>4, <1>5, <1>6, <1>7, <1>8, <1>9, StepSplit DEF RateStep

LEMMA SInvInductive ==
  /\ Init => SInv
  /\ SInv /\ [Next]_vars => SInv'
<1>1. ASSUME Init PROVE SInv
  <2>1. CountedInsts = {}
    BY <1>1 DEF Init, CountedInsts, Running, Walking, Rating, InstsOf
  <2>2. AllRisks = 0
    BY <1>1 DEF Init, AllRisks, NoStat, RISKLEVELS
  <2> QED
    BY <1>1, <2>1, <2>2, FS_EmptySet, InitTypes
    DEF Init, SInv, StatInv, TotalInv, Walking, Rating, Running
<1>2. ASSUME SInv, [Next]_vars PROVE SInv'
  <2>1. IInv' /\ TotalInv'
    BY <1>2, StepTypes, TotalStep DEF SInv
  <2>2. StatInv'
    <3>1. CASE UNCHANGED vars
      <4>1. UNCHANGED <<module, level, func, funcHot, reading>> /\ UNCHANGED <<pc, i, rest, max, FuncRiskStat>>
        BY <3>1 DEF vars
      <4>2. /\ Propagated' = Propagated /\ Insts' = Insts
            /\ \A n : Assessed(n)' = Assessed(n) /\ RiskOf(n)' = RiskOf(n)
            /\ \A x : Assess(x)' = Assess(x)
        BY <4>1, RiskKept
      <4>3. StatInv
        BY <1>2 DEF SInv
      <4> QED
        BY <4>1, <4>2, <4>3 DEF StatInv, Walking, Rating
    <3> QED
      BY <1>2, <2>1, <3>1, StepSplit, StatStart, StatWalk, StatRate
  <2> QED
    BY <2>1, <2>2 DEF SInv
<1> QED
  BY <1>1, <1>2

-----------------------------------------------------------------------------
(* The walk *)

\* The distance of the front of the queue, one more than any when it is empty.
Level == IF queue = <<>> THEN depth + 1 ELSE queue[1].depth

\* The queue holds two distances at most, the nearer first, and no function
\* farther away than its entry says.
QueueInv ==
  Walking =>
    /\ depth >= 1
    /\ \A n \in DOMAIN queue : queue[n].fn \in Near(queue[n].depth) /\ queue[n].depth <= Level + 1
    /\ \A m, n \in DOMAIN queue : m < n => queue[m].depth <= queue[n].depth
    /\ pc = "sites" => queue[1].fn \in visited /\ queue[1].fn \notin Near(queue[1].depth - 1)

\* What is nearer than the front is visited, and what is as near is visited or
\* on the queue.
CoverInv ==
  Walking =>
    /\ Near(Level - 1) \subseteq visited
    /\ visited \subseteq Near(IF queue = <<>> THEN depth ELSE Level)
    /\ queue # <<>> =>
         \A x \in Near(Level) : x \in visited \/ \E k \in DOMAIN queue : queue[k] = [fn |-> x, depth |-> Level]

\* The call sites the walk has looked at.
Followed(f, k) ==
  /\ f \in visited /\ f \in Near(depth - 1) /\ k \in DOMAIN module.sites[f]
  /\ pc = "sites" => f # queue[1].fn \/ k < site

Queued == {queue[n].fn : n \in DOMAIN queue}

\* Of those, no caller was overlooked, and none farther away calls from a loop.
FollowedInv ==
  Walking =>
    /\ visited \cap profile["FREQCALL"] = {}
    /\ \A f, k : Followed(f, k) =>
         /\ module.sites[f][k].caller \in visited \cup Queued
         /\ module.sites[f][k].loop =>
              \A n \in 1..(depth - 1) : f \in Near(n) \ Near(n - 1) => module.sites[f][k].caller \in Near(n)

\* Every turn of the walk but the first is for a call site followed.
SitesNear == Places(module.sites, Near(depth - 1))
SitesFollowed == {p \in SitesNear : Followed(p[1], p[2])}
CountInv ==
  Walking => callers + Len(queue) <= Cardinality(SitesFollowed) + (IF pc = "sites" THEN 2 ELSE 1)

\* What was found of the callers.
LoopCallNear ==
  \E n \in 1..(depth - 1) : \E f \in Near(n) \ Near(n - 1) : \E k \in DOMAIN module.sites[f] :
    module.sites[f][k].loop /\ module.sites[f][k].caller \in Near(n + 1) \ Near(n)
VerdictInv ==
  Rating =>
    /\ funcHot # Hot => Near(depth) \cap profile["FREQCALL"] = {} /\ ~LoopCallNear
    /\ funcHot = Hot =>
         \/ Near(depth) \cap profile["FREQCALL"] # {}
         \/ \E f \in Near(depth - 1) : \E k \in DOMAIN module.sites[f] : module.sites[f][k].loop
         \/ 1 + Cardinality(SitesNear) > CallerHot

HInv == IInv /\ QueueInv /\ CoverInv /\ FollowedInv /\ CountInv /\ VerdictInv

LEMMA NearFacts ==
  ASSUME IInv
  PROVE  /\ func \in Functions /\ depth \in Nat
         /\ Near(0) = {} /\ Near(1) = {func}
         /\ \A n \in Nat : Near(n) \subseteq Functions
         /\ \A m, n \in Nat : m <= n => Near(m) \subseteq Near(n)
         /\ \A n \in Nat \ {0} : Near(n + 1) = Near(n) \cup CallersOf(module.sites, Near(n))
         /\ \A f \in Functions :
              /\ DOMAIN module.sites[f] = 1..Len(module.sites[f]) /\ Len(module.sites[f]) \in Nat
              /\ \A k \in DOMAIN module.sites[f] : module.sites[f][k].caller \in Functions
<1>1. /\ module.sites \in CallGraph(Functions) /\ func \in Functions /\ depth \in Nat
  BY ModuleFacts DEF IInv, TypeOK
<1>2. /\ WithinIn(module.sites, func)[0] = {} /\ WithinIn(module.sites, func)[1] = {func}
      /\ \A n \in Nat \ {0} : WithinIn(module.sites, func)[n + 1]
           = WithinIn(module.sites, func)[n] \cup CallersOf(module.sites, WithinIn(module.sites, func)[n])
  BY <1>1, WithinStep, SMTT(30)
<1>3. \A m, n \in Nat : m <= n =>
        /\ WithinIn(module.sites, func)[n] \subseteq Functions
        /\ WithinIn(module.sites, func)[m] \subseteq WithinIn(module.sites, func)[n]
  BY <1>1, WithinGrows
<1>4. ASSUME NEW n \in Nat PROVE Near(n) \subseteq Functions
  <2>1. n <= n
    OBVIOUS
  <2> QED
    BY <1>3, <2>1 DEF Near
<1>5. ASSUME NEW f \in Functions
      PROVE  /\ DOMAIN module.sites[f] = 1..Len(module.sites[f]) /\ Len(module.sites[f]) \in Nat
             /\ \A k \in DOMAIN module.sites[f] : module.sites[f][k].caller \in Functions
  <2>1. module.sites[f] \in Seq([caller : Functions, loop : BOOLEAN])
    BY <1>1 DEF CallGraph
  <2> QED
    BY <2>1, SiteShape
<1> QED
  BY <1>1, <1>2, <1>3, <1>4, <1>5 DEF Near

\* What no step of the walk changes.
LEMMA WalkKept ==
  ASSUME WalkStep
  PROVE  /\ Walking /\ UNCHANGED <<module, depth, level, func, reading>>
         /\ profile' = profile
         /\ \A n : Near(n)' = Near(n)
         /\ SitesNear' = SitesNear /\ LoopCallNear' = LoopCallNear
<1>1. /\ Walking /\ UNCHANGED <<module, depth, level, func, reading>>
  BY DEF WalkStep, DropDuplicate, VisitHot, VisitLeaf, VisitCallee, SkipVisited, CalledInLoop, PushCaller,
     SitesDone, WalkDone, readVars, inputVars, Walking
<1>2. \A n : Near(n)' = Near(n)
  BY <1>1 DEF Near
<1>3. SitesNear' = SitesNear /\ LoopCallNear' = LoopCallNear
  BY <1>1, <1>2 DEF SitesNear, LoopCallNear, Places
<1> QED
  BY <1>1, <1>2, <1>3 DEF profile

\* The front of the queue is dropped.
Pops == queue' = Tail(queue) /\ pc' = "callers"

LEMMA FrontFacts ==
  ASSUME HInv, Walking, queue # <<>>
  PROVE  /\ Item = queue[1] /\ queue[1].fn \in Functions /\ Level = queue[1].depth
         /\ Level \in 1..depth /\ depth \in Nat
         /\ Near(Level - 1) \subseteq visited /\ visited \subseteq Near(Level)
         /\ queue[1].fn \in Near(Level)
         /\ queue[1].fn \notin visited => queue[1].fn \notin Near(Level - 1)
         /\ queue[1].fn \in Queued
         /\ ItemSites = module.sites[queue[1].fn] /\ DOMAIN ItemSites = 1..Len(ItemSites) /\ Len(ItemSites) \in Nat
<1>1. /\ Item = queue[1] /\ queue[1].fn \in Functions /\ Level = queue[1].depth /\ 1 \in DOMAIN queue
      /\ queue[1].depth \in Nat \ {0} /\ (depth >= 1 => queue[1].depth <= depth)
      /\ ItemSites = module.sites[queue[1].fn] /\ DOMAIN ItemSites = 1..Len(ItemSites) /\ Len(ItemSites) \in Nat
  BY QueueFacts DEF HInv, Item, Level
<1>2. depth \in Nat /\ depth >= 1
  BY NearFacts DEF HInv, QueueInv
<1>3. queue[1].fn \in Near(queue[1].depth)
  BY <1>1 DEF HInv, QueueInv
<1>4. Near(Level - 1) \subseteq visited /\ visited \subseteq Near(Level)
  BY DEF HInv, CoverInv
<1> QED
  BY <1>1, <1>2, <1>3, <1>4 DEF Queued

LEMMA TailFacts ==
  ASSUME HInv, queue # <<>>, queue' = Tail(queue)
  PROVE  /\ Len(queue') = Len(queue) - 1 /\ DOMAIN queue' = 1..(Len(queue) - 1) /\ Len(queue) \in Nat \ {0}
         /\ \A n \in DOMAIN queue' : queue'[n] = queue[n + 1] /\ n + 1 \in DOMAIN queue
         /\ queue' = <<>> <=> Len(queue) = 1
         /\ Queued \subseteq {queue[1].fn} \cup Queued'
<1>1. /\ Tail(queue) \in Seq(Entries) /\ Len(Tail(queue)) = Len(queue) - 1 /\ Len(queue) \in Nat
      /\ DOMAIN queue = 1..Len(queue) /\ 1 \in DOMAIN queue
      /\ \A n \in 1..(Len(queue) - 1) : Tail(queue)[n] = queue[n + 1]
  BY QueueFacts DEF HInv
<1>2. DOMAIN Tail(queue) = 1..(Len(queue) - 1) /\ (Tail(queue) = <<>> <=> Len(Tail(queue)) = 0)
  BY <1>1, LenProperties, EmptySeq
<1>3. ASSUME NEW n \in DOMAIN queue PROVE queue[n].fn \in {queue[1].fn} \cup Queued'
  <2>1. n # 1 => n - 1 \in DOMAIN queue' /\ queue'[n - 1] = queue[n]
    BY <1>1, <1>2
  <2> QED
    BY <2>1 DEF Queued
<1>4. Queued \subseteq {queue[1].fn} \cup Queued'
  BY <1>3 DEF Queued
<1> QED
  BY <1>1, <1>2, <1>4

LEMMA PushFacts ==
  ASSUME HInv, PushCaller
  PROVE  /\ queue # <<>> /\ queue' = Append(queue, [fn |-> Site.caller, depth |-> Level + 1])
         /\ Len(queue') = Len(queue) + 1 /\ DOMAIN queue' = 1..(Len(queue) + 1) /\ DOMAIN queue = 1..Len(queue)
         /\ Len(queue) \in Nat \ {0}
         /\ \A n \in DOMAIN queue : queue'[n] = queue[n]
         /\ queue'[Len(queue) + 1] = [fn |-> Site.caller, depth |-> Level + 1]
         /\ queue' # <<>> /\ Queued' = Queued \cup {Site.caller}
         /\ site \in DOMAIN module.sites[queue[1].fn] /\ Site = module.sites[queue[1].fn][site]
         /\ Site.caller \in Functions
<1>1. Walking /\ pc = "sites" /\ queue # <<>> /\ site <= Len(ItemSites) /\ site \in Nat \ {0}
  BY DEF PushCaller, HInv, IInv, CursorInv, TypeOK, Walking
<1>2. /\ Item = queue[1] /\ queue[1].fn \in Functions /\ Level = queue[1].depth /\ Level \in 1..depth
      /\ ItemSites = module.sites[queue[1].fn] /\ DOMAIN ItemSites = 1..Len(ItemSites) /\ Len(ItemSites) \in Nat
      /\ depth \in Nat
  BY <1>1, FrontFacts
<1>3. site \in DOMAIN ItemSites /\ Site = ItemSites[site] /\ Site.caller \in Functions
  BY <1>1, <1>2, NearFacts DEF Site, HInv
<1>4. Level + 1 \in 1..Higher(1, depth)
  <2>1. Level < depth
    BY <1>1, <1>2 DEF HInv, IInv, CursorInv
  <2> QED
    BY <1>2, <2>1 DEF Higher
<1>5. [fn |-> Site.caller, depth |-> Level + 1] \in Entries
  BY <1>3, <1>4 DEF Entries
<1>6. queue' = Append(queue, [fn |-> Site.caller, depth |-> Level + 1])
  BY <1>2 DEF PushCaller, CallerDepth
<1>7. /\ queue \in Seq(Entries) /\ DOMAIN queue = 1..Len(queue) /\ Len(queue) \in Nat \ {0}
  <2>1. queue \in Seq(Entries) /\ DOMAIN queue = 1..Len(queue) /\ Len(queue) \in Nat /\ 1 \in DOMAIN queue
    BY <1>1, QueueFacts DEF HInv
  <2> QED
    BY <2>1
<1> DEFINE e == [fn |-> Site.caller, depth |-> Level + 1]
<1> HIDE DEF e
<1>8. /\ Len(queue') = Len(queue) + 1 /\ DOMAIN queue' = 1..(Len(queue) + 1)
      /\ \A n \in DOMAIN queue : queue'[n] = queue[n]
      /\ queue'[Len(queue) + 1] = e
      /\ queue' # <<>>
  <2>1. e \in Entries /\ queue' = Append(queue, e)
    BY <1>5, <1>6 DEF e
  <2>2. /\ Len(queue') = Len(queue) + 1 /\ queue' \in Seq(Entries)
        /\ \A n \in 1..Len(queue) : queue'[n] = queue[n]
        /\ queue'[Len(queue) + 1] = e
    BY <1>7, <2>1, AppendProperties
  <2> QED
    BY <1>7, <2>2, LenProperties, EmptySeq
<1>9. Queued' = Queued \cup {Site.caller}
  <2>1. e.fn = Site.caller
    BY DEF e
  <2>2. \A n \in DOMAIN queue' : n \in DOMAIN queue \/ n = Len(queue) + 1
    BY <1>7, <1>8
  <2>3. DOMAIN queue \subseteq DOMAIN queue' /\ Len(queue) + 1 \in DOMAIN queue'
    BY <1>7, <1>8
  <2>4. Queued' = {queue'[n].fn : n \in DOMAIN queue'}
    BY DEF Queued
  <2>5. ASSUME NEW x PROVE x \in Queued' <=> x \in Queued \cup {Site.caller}
    <3>1. x \in Queued' <=> \E n \in DOMAIN queue' : x = queue'[n].fn
      BY <2>4
    <3>2. x \in Queued <=> \E n \in DOMAIN queue : x = queue[n].fn
      BY DEF Queued
    <3>3. (\E n \in DOMAIN queue' : x = queue'[n].fn)
            <=> (\E n \in DOMAIN queue : x = queue'[n].fn) \/ x = queue'[Len(queue) + 1].fn
      BY <2>2, <2>3
    <3> QED
      BY <1>8, <2>1, <3>1, <3>2, <3>3
  <2> QED
    BY <2>5
<1> QED
  BY <1>1, <1>2, <1>3, <1>6, <1>7, <1>8, <1>9 DEF e

LEMMA FollowedStep ==
  ASSUME HInv, IInv', WalkStep
  PROVE  FollowedInv'
<1> DEFINE x0 == queue[1].fn
           Held(f, k) ==
             /\ module.sites[f][k].caller \in visited' \cup Queued'
             /\ module.sites[f][k].loop =>
                  \A n \in 1..(depth - 1) : f \in Near(n) \ Near(n - 1) => module.sites[f][k].caller \in Near(n)
           FollowedNow(f, k) ==
             /\ f \in visited' /\ f \in Near(depth - 1) /\ k \in DOMAIN module.sites[f]
             /\ pc' = "sites" => f # queue'[1].fn \/ k < site'
<1>1. /\ Walking /\ UNCHANGED <<module, depth, level, func, reading>> /\ profile' = profile
      /\ \A n : Near(n)' = Near(n)
  BY WalkKept
<1>2. /\ visited \cap profile["FREQCALL"] = {}
      /\ \A f, k : Followed(f, k) =>
           /\ module.sites[f][k].caller \in visited \cup Queued
           /\ module.sites[f][k].loop =>
                \A n \in 1..(depth - 1) : f \in Near(n) \ Near(n - 1) => module.sites[f][k].caller \in Near(n)
  BY <1>1 DEF HInv, FollowedInv
<1>3. SUFFICES ASSUME Walking'
               PROVE  /\ visited' \cap profile["FREQCALL"] = {}
                      /\ \A f, k : FollowedNow(f, k) => Held(f, k)
  <2>1. \A f, k : Followed(f, k)' <=> FollowedNow(f, k)
    BY <1>1 DEF Followed
  <2> HIDE DEF FollowedNow
  <2> QED
    BY <1>1, <2>1 DEF FollowedInv
<1>4. ASSUME visited \cup Queued \subseteq visited' \cup Queued', NEW f, NEW k, Followed(f, k)
      PROVE  Held(f, k)
  BY <1>2, <1>4
<1> HIDE DEF Held
<1>5. CASE DropDuplicate
  <2>1. /\ pc = "callers" /\ pc' = "callers" /\ visited' = visited /\ queue # <<>> /\ queue' = Tail(queue)
        /\ x0 \in visited
    BY <1>1, <1>5, FrontFacts DEF DropDuplicate
  <2>2. visited \cup Queued \subseteq visited' \cup Queued'
    BY <2>1, TailFacts
  <2>3. \A f, k : FollowedNow(f, k) => Followed(f, k)
    BY <2>1 DEF Followed
  <2> QED
    BY <1>2, <1>4, <2>1, <2>2, <2>3
<1>6. CASE VisitLeaf
  <2>1. /\ pc = "callers" /\ pc' = "callers" /\ visited' = visited \cup {x0} /\ queue # <<>> /\ queue' = Tail(queue)
        /\ x0 \notin visited /\ x0 \notin profile["FREQCALL"]
        /\ queue[1].depth >= depth \/ ItemSites = <<>>
    BY <1>1, <1>6, FrontFacts DEF VisitLeaf, AtDepth
  <2>2. visited \cup Queued \subseteq visited' \cup Queued'
    BY <2>1, TailFacts
  <2>3. ASSUME NEW k, FollowedNow(x0, k) PROVE FALSE
    <3>1. /\ x0 \notin Near(queue[1].depth - 1) /\ Level = queue[1].depth /\ Level \in 1..depth /\ depth \in Nat
          /\ ItemSites = module.sites[x0]
      BY <1>1, <2>1, FrontFacts
    <3>2. ItemSites # <<>>
      BY <2>3, <3>1
    <3>3. queue[1].depth = depth
      BY <2>1, <3>1, <3>2
    <3> QED
      BY <2>3, <3>1, <3>3
  <2>4. \A f, k : FollowedNow(f, k) => f # x0
    <3> HIDE DEF FollowedNow
    <3> QED
      BY <2>3
  <2>5. \A f, k : FollowedNow(f, k) => Followed(f, k)
    BY <2>1, <2>4 DEF Followed
  <2> QED
    BY <1>2, <1>4, <2>1, <2>2, <2>5
<1>7. CASE VisitCallee
  <2>1. /\ pc = "callers" /\ pc' = "sites" /\ visited' = visited \cup {x0} /\ queue # <<>> /\ queue' = queue
        /\ site' = 1 /\ x0 \notin profile["FREQCALL"]
    BY <1>1, <1>7, FrontFacts DEF VisitCallee
  <2>2. visited \cup Queued \subseteq visited' \cup Queued'
    BY <2>1 DEF Queued
  <2>3. ASSUME NEW f, NEW k, FollowedNow(f, k) PROVE Followed(f, k)
    <3>1. f # x0 \/ k < 1
      BY <2>1, <2>3
    <3>2. f \in Functions /\ k \in Nat \ {0}
      <4>1. f \in Functions
        BY <2>3, NearFacts, <2>1, FrontFacts, <1>1 DEF HInv, IInv, TypeOK
      <4> QED
        BY <2>3, <4>1, NearFacts DEF HInv
    <3>3. f # x0
      BY <3>1, <3>2
    <3> QED
      BY <2>1, <2>3, <3>3 DEF Followed
  <2> QED
    BY <1>2, <1>4, <2>1, <2>2, <2>3
<1>8. CASE SkipVisited
  <2>1. /\ pc = "sites" /\ pc' = "sites" /\ visited' = visited /\ queue' = queue /\ site' = site + 1
        /\ Site.caller \in visited /\ queue # <<>> /\ site \in Nat \ {0} /\ site <= Len(ItemSites)
    BY <1>8 DEF SkipVisited, SiteAfterSkip, HInv, IInv, CursorInv, TypeOK
  <2>2. /\ Level = queue[1].depth /\ Level \in 1..depth /\ depth \in Nat /\ x0 \in Functions
        /\ visited \subseteq Near(Level) /\ ItemSites = module.sites[x0]
        /\ x0 \in Near(Level) /\ x0 \notin Near(Level - 1)
    BY <1>1, <2>1, FrontFacts DEF HInv, QueueInv
  <2>3. Queued' = Queued
    BY <2>1 DEF Queued
  <2>4. Held(x0, site)
    <3>1. Site = module.sites[x0][site]
      BY <2>2 DEF Site
    <3>2. ASSUME NEW n \in 1..(depth - 1), x0 \in Near(n) \ Near(n - 1) PROVE n = Level
      <4>1. \A m, p \in Nat : m <= p => Near(m) \subseteq Near(p)
        BY NearFacts DEF HInv
      <4>2. n < Level => n <= Level - 1 /\ n \in Nat /\ Level - 1 \in Nat
        BY <2>2
      <4>3. Level < n => Level <= n - 1 /\ n - 1 \in Nat /\ Level \in Nat
        BY <2>2
      <4>4. ~(n < Level) /\ ~(Level < n)
        BY <2>2, <3>2, <4>1, <4>2, <4>3
      <4> QED
        BY <2>2, <4>4
    <3>3. Site.caller \in Near(Level)
      BY <2>1, <2>2
    <3> QED
      BY <2>1, <3>1, <3>2, <3>3 DEF Held
  <2>5. ASSUME NEW f, NEW k, FollowedNow(f, k) PROVE Followed(f, k) \/ (f = x0 /\ k = site)
    <3>1. f \in Functions
      BY <2>1, <2>5 DEF HInv, IInv, TypeOK
    <3>2. k \in Nat
      BY <2>5, <3>1, NearFacts DEF HInv
    <3>3. f # x0 \/ k < site + 1
      BY <2>1, <2>5
    <3>4. f # x0 \/ k < site \/ k = site
      BY <2>1, <3>2, <3>3
    <3> QED
      BY <2>1, <2>5, <3>4 DEF Followed
  <2> HIDE DEF FollowedNow
  <2> QED
    BY <1>2, <1>4, <2>1, <2>3, <2>4, <2>5
<1>9. CASE PushCaller
  <2>1. /\ pc = "sites" /\ pc' = "sites" /\ visited' = visited /\ site' = site + 1 /\ site \in Nat \ {0} /\ ~Site.loop
    BY <1>9 DEF PushCaller, HInv, IInv, TypeOK
  <2>2. /\ queue # <<>> /\ 1 \in DOMAIN queue /\ queue'[1] = queue[1] /\ Queued' = Queued \cup {Site.caller}
        /\ Site = module.sites[x0][site]
    BY <1>9, PushFacts
  <2>3. Held(x0, site)
    BY <2>1, <2>2 DEF Held
  <2>4. ASSUME NEW f, NEW k, FollowedNow(f, k) PROVE Followed(f, k) \/ (f = x0 /\ k = site)
    <3>1. f \in Functions
      BY <2>1, <2>4 DEF HInv, IInv, TypeOK
    <3>2. k \in Nat
      BY <2>4, <3>1, NearFacts DEF HInv
    <3>3. f # x0 \/ k < site + 1
      BY <2>1, <2>2, <2>4
    <3>4. f # x0 \/ k < site \/ k = site
      BY <2>1, <3>2, <3>3
    <3> QED
      BY <2>1, <2>2, <2>4, <3>4 DEF Followed
  <2>5. visited \cup Queued \subseteq visited' \cup Queued'
    BY <2>1, <2>2
  <2> HIDE DEF FollowedNow
  <2> QED
    BY <1>2, <1>4, <2>1, <2>3, <2>4, <2>5
<1>10. CASE SitesDone
  <2>1. /\ pc = "sites" /\ pc' = "callers" /\ visited' = visited /\ queue' = Tail(queue) /\ site > Len(ItemSites)
        /\ queue # <<>> /\ site \in Nat \ {0} /\ x0 \in visited
    BY <1>1, <1>10 DEF SitesDone, HInv, QueueInv, IInv, CursorInv, TypeOK
  <2>2. ItemSites = module.sites[x0] /\ DOMAIN ItemSites = 1..Len(ItemSites) /\ Len(ItemSites) \in Nat
    BY <1>1, <2>1, FrontFacts
  <2>3. visited \cup Queued \subseteq visited' \cup Queued'
    BY <2>1, TailFacts
  <2>4. ASSUME NEW f, NEW k, FollowedNow(f, k) PROVE Followed(f, k)
    <3>1. f = x0 => k < site
      BY <2>1, <2>2, <2>4
    <3> QED
      BY <2>1, <2>4, <3>1 DEF Followed
  <2> HIDE DEF FollowedNow
  <2> QED
    BY <1>2, <1>4, <2>1, <2>3, <2>4
<1>11. CASE VisitHot \/ CalledInLoop \/ WalkDone
  BY <1>3, <1>11 DEF VisitHot, CalledInLoop, WalkDone, Walking
<1> QED
  BY <1>5, <1>6, <1>7, <1>8, <1>9, <1>10, <1>11 DEF WalkStep

\* The front is dropped when it is visited and its callers are, or are queued,
\* unless it is at the depth: the functions as near as the next one, and no
\* other, are then visited or queued.
LEMMA PopCover ==
  ASSUME HInv, IInv', FollowedInv', Walking, Pops, queue # <<>>,
         visited' = visited \cup {queue[1].fn},
         UNCHANGED <<module, depth, level, func, reading>>
  PROVE  QueueInv' /\ CoverInv'
<1> DEFINE d == Level
           x0 == queue[1].fn
<1>1. \A n : Near(n)' = Near(n)
  BY DEF Near
<1>2. /\ d = queue[1].depth /\ d \in 1..depth /\ depth \in Nat
      /\ Near(d - 1) \subseteq visited /\ visited \subseteq Near(d) /\ x0 \in Near(d)
      /\ 1 \in DOMAIN queue
  BY FrontFacts, QueueFacts DEF HInv
<1>3. /\ \A m, n \in Nat : m <= n => Near(m) \subseteq Near(n)
      /\ \A n \in Nat \ {0} : Near(n + 1) = Near(n) \cup CallersOf(module.sites, Near(n))
      /\ \A n \in Nat : Near(n) \subseteq Functions
  BY NearFacts DEF HInv
<1>4. /\ Len(queue') = Len(queue) - 1 /\ DOMAIN queue' = 1..(Len(queue) - 1) /\ Len(queue) \in Nat \ {0}
      /\ \A n \in DOMAIN queue' : queue'[n] = queue[n + 1] /\ n + 1 \in DOMAIN queue
      /\ queue' = <<>> <=> Len(queue) = 1
      /\ DOMAIN queue = 1..Len(queue)
  BY TailFacts, QueueFacts DEF HInv, Pops
<1>5. /\ depth >= 1
      /\ \A n \in DOMAIN queue : queue[n].fn \in Near(queue[n].depth) /\ queue[n].depth <= d + 1
      /\ \A m, n \in DOMAIN queue : m < n => queue[m].depth <= queue[n].depth
      /\ \A x \in Near(d) : x \in visited \/ \E k \in DOMAIN queue : queue[k] = [fn |-> x, depth |-> d]
  BY DEF HInv, QueueInv, CoverInv
<1>6. \A n \in DOMAIN queue : queue[n] \in Entries /\ queue[n].depth \in 1..depth
  BY <1>2, QueueFacts, ElementOfSeq DEF HInv
<1>7. pc' = "callers" /\ depth' = depth /\ Walking'
  BY DEF Pops, Walking
<1>8. \A f \in visited' \cap Near(depth - 1) : CallersIn(module.sites, f) \subseteq visited' \cup Queued'
  <2> SUFFICES ASSUME NEW f \in visited' \cap Near(depth - 1), NEW k \in DOMAIN module.sites[f]
               PROVE  module.sites[f][k].caller \in visited' \cup Queued'
    BY DEF CallersIn
  <2>1. Followed(f, k)'
    BY <1>1, <1>7 DEF Followed
  <2> QED
    BY <1>7, <2>1 DEF FollowedInv
<1> HIDE DEF d, x0
<1>9. CASE queue' = <<>>
  <2>1. Level' = depth + 1 /\ DOMAIN queue' = {}
    BY <1>4, <1>7, <1>9 DEF Level
  <2>2. QueueInv'
    BY <1>5, <1>7, <2>1 DEF QueueInv
  <2>3. Queued' = {}
    BY <2>1 DEF Queued
  <2>4. Near(d) \subseteq visited'
    <3>1. \A k \in DOMAIN queue : k = 1
      BY <1>4, <1>9
    <3>2. \A x \in Near(d) : x \in visited \/ x = x0
      BY <1>5, <3>1 DEF x0
    <3> QED
      BY <3>2 DEF x0
  <2>5. Near(depth) \subseteq visited'
    <3>1. module.sites \in CallGraph(Functions) /\ func \in Functions
      BY ModuleFacts, NearFacts DEF HInv, IInv
    <3>2. d \in Nat \ {0} /\ depth \in Nat /\ d <= depth
      BY <1>2
    <3>3. WithinIn(module.sites, func)[d] \subseteq visited'
          /\ \A f \in visited' \cap WithinIn(module.sites, func)[depth - 1] : CallersIn(module.sites, f) \subseteq visited'
      BY <1>8, <2>3, <2>4 DEF Near
    <3>4. WithinIn(module.sites, func)[depth] \subseteq visited'
      BY <3>1, <3>2, <3>3, WithinClosed
    <3> QED
      BY <3>4 DEF Near
  <2>6. visited' \subseteq Near(depth)
    <3>1. Near(d) \subseteq Near(depth)
      BY <1>2, <1>3
    <3> QED
      BY <1>2, <3>1 DEF x0
  <2>7. (depth + 1) - 1 = depth
    BY <1>2
  <2> QED
    BY <1>1, <1>7, <1>9, <2>1, <2>2, <2>5, <2>6, <2>7 DEF CoverInv
<1>10. CASE queue' # <<>>
  <2>1. /\ 1 \in DOMAIN queue' /\ 2 \in DOMAIN queue /\ queue'[1] = queue[2] /\ Level' = queue[2].depth
        /\ queue[2].depth \in 1..depth /\ d <= queue[2].depth /\ queue[2].depth <= d + 1
    <3>1. 1 \in DOMAIN queue' /\ 2 \in DOMAIN queue
      BY <1>4, <1>10
    <3>2. queue'[1] = queue[2]
      BY <1>4, <3>1
    <3> QED
      BY <1>2, <1>5, <1>6, <1>10, <3>1, <3>2 DEF Level
  <2> DEFINE e == queue[2].depth
  <2>2. \A n \in DOMAIN queue' : queue'[n].fn \in Near(queue'[n].depth) /\ queue'[n].depth <= e + 1
    <3> SUFFICES ASSUME NEW n \in DOMAIN queue' PROVE queue[n + 1].fn \in Near(queue[n + 1].depth) /\ queue[n + 1].depth <= e + 1
      BY <1>4
    <3>1. queue[n + 1].depth \in 1..depth /\ n + 1 \in DOMAIN queue
      BY <1>4, <1>6
    <3> QED
      BY <1>2, <1>5, <2>1, <3>1
  <2>3. \A m, n \in DOMAIN queue' : m < n => queue'[m].depth <= queue'[n].depth
    BY <1>4, <1>5
  <2>4. QueueInv'
    BY <1>1, <1>5, <1>7, <2>1, <2>2, <2>3 DEF QueueInv
  <2>5. visited' \subseteq Near(e) /\ Near(e - 1) \subseteq visited' /\
        \A x \in Near(e) : x \in visited' \/ \E k \in DOMAIN queue' : queue'[k] = [fn |-> x, depth |-> e]
    <3>1. CASE e = d
      <4>1. \A x \in Near(d) : x \in visited' \/ \E k \in DOMAIN queue' : queue'[k] = [fn |-> x, depth |-> d]
        <5> SUFFICES ASSUME NEW x \in Near(d), x \notin visited'
                     PROVE  \E k \in DOMAIN queue' : queue'[k] = [fn |-> x, depth |-> d]
          OBVIOUS
        <5>1. PICK k \in DOMAIN queue : queue[k] = [fn |-> x, depth |-> d]
          BY <1>5
        <5>2. k # 1
          BY <5>1
        <5>3. k - 1 \in DOMAIN queue' /\ queue'[k - 1] = queue[k]
          BY <1>4, <5>2
        <5> QED
          BY <5>1, <5>3
      <4> QED
        BY <1>2, <3>1, <4>1 DEF x0
    <3>2. CASE e = d + 1
      <4>1. Near(d) \subseteq visited'
        <5>1. \A k \in DOMAIN queue : k = 1 \/ d + 1 <= queue[k].depth
          <6>1. \A k \in DOMAIN queue : k = 1 \/ k = 2 \/ 2 < k
            BY <1>4
          <6> QED
            BY <1>5, <1>6, <2>1, <3>2, <6>1
        <5>2. \A k \in DOMAIN queue : queue[k].depth = d => k = 1
          BY <1>2, <5>1
        <5>3. \A x \in Near(d) : x \in visited \/ x = x0
          <6> SUFFICES ASSUME NEW x \in Near(d), x \notin visited PROVE x = x0
            OBVIOUS
          <6>1. PICK k \in DOMAIN queue : queue[k] = [fn |-> x, depth |-> d]
            BY <1>5
          <6>2. k = 1
            BY <5>2, <6>1
          <6> QED
            BY <6>1, <6>2 DEF x0
        <5> QED
          BY <5>3 DEF x0
      <4>2. Near(d) \subseteq Near(e) /\ Near(d) \subseteq Near(depth - 1) /\ Near(d + 1) = Near(d) \cup CallersOf(module.sites, Near(d))
        <5>1. d \in Nat \ {0} /\ d <= depth - 1 /\ d <= d + 1 /\ d + 1 \in Nat /\ depth - 1 \in Nat
          BY <1>2, <2>1, <3>2
        <5> QED
          BY <1>3, <3>2, <5>1
      <4>3. ASSUME NEW x \in Near(e), x \notin visited' PROVE \E k \in DOMAIN queue' : queue'[k] = [fn |-> x, depth |-> e]
        <5>1. PICK f \in Near(d) : x \in CallersIn(module.sites, f)
          BY <3>2, <4>1, <4>2, <4>3 DEF CallersOf
        <5>2. x \in Queued'
          BY <1>8, <4>1, <4>2, <4>3, <5>1
        <5>3. PICK k \in DOMAIN queue' : x = queue'[k].fn
          BY <5>2 DEF Queued
        <5>4. queue'[k] = queue[k + 1] /\ k + 1 \in DOMAIN queue /\ (k = 1 \/ 1 < k)
          BY <1>4
        <5>5. queue[k + 1].depth = e
          <6>1. queue[k + 1].depth <= d + 1 /\ e <= queue[k + 1].depth
            <7>1. k = 1 \/ 2 < k + 1
              BY <1>4, <5>4
            <7>2. k = 1 => k + 1 = 2
              OBVIOUS
            <7>3. queue[k + 1].depth \in 1..depth
              BY <1>6, <5>4
            <7> QED
              BY <1>2, <1>5, <2>1, <5>4, <7>1, <7>2, <7>3
          <6> QED
            BY <1>2, <1>6, <3>2, <5>4, <6>1
        <5>6. queue[k + 1] = [fn |-> queue[k + 1].fn, depth |-> queue[k + 1].depth]
          BY <1>6, <5>4 DEF Entries
        <5> QED
          BY <5>3, <5>4, <5>5, <5>6
      <4>4. e - 1 = d
        BY <1>2, <3>2
      <4>5. visited' \subseteq Near(e)
        BY <1>2, <4>2 DEF x0
      <4> QED
        BY <4>1, <4>3, <4>4, <4>5
    <3> QED
      BY <1>2, <2>1, <3>1, <3>2
  <2>6. CoverInv'
    BY <1>1, <1>7, <1>10, <2>1, <2>5 DEF CoverInv
  <2> QED
    BY <2>4, <2>6
<1> QED
  BY <1>9, <1>10

LEMMA QueueStep ==
  ASSUME HInv, IInv', FollowedInv', WalkStep
  PROVE  QueueInv' /\ CoverInv'
<1> DEFINE x0 == queue[1].fn
<1>1. /\ Walking /\ UNCHANGED <<module, depth, level, func, reading>> /\ profile' = profile
      /\ \A n : Near(n)' = Near(n)
  BY WalkKept
<1>2. CASE DropDuplicate \/ VisitLeaf \/ SitesDone
  <2>1. queue # <<>> /\ Pops
    BY <1>2 DEF DropDuplicate, VisitLeaf, SitesDone, Pops, HInv, IInv, CursorInv
  <2>2. visited' = visited \cup {queue[1].fn}
    <3>1. DropDuplicate => x0 \in visited /\ visited' = visited
      BY <1>1, <2>1, FrontFacts DEF DropDuplicate
    <3>2. VisitLeaf => visited' = visited \cup {queue[1].fn}
      BY <1>1, <2>1, FrontFacts DEF VisitLeaf
    <3>3. SitesDone => x0 \in visited /\ visited' = visited
      BY <1>1 DEF SitesDone, HInv, QueueInv
    <3> QED
      BY <1>2, <3>1, <3>2, <3>3
  <2> QED
    BY <1>1, <2>1, <2>2, PopCover
<1>3. CASE VisitCallee
  <2>1. /\ queue # <<>> /\ queue' = queue /\ pc' = "sites" /\ visited' = visited \cup {x0} /\ x0 \notin visited
        /\ Walking'
    BY <1>1, <1>3, FrontFacts DEF VisitCallee, Walking
  <2>2. /\ x0 \notin Near(queue[1].depth - 1) /\ Level = queue[1].depth /\ x0 \in Near(Level)
        /\ Near(Level - 1) \subseteq visited /\ visited \subseteq Near(Level)
    BY <1>1, <2>1, FrontFacts
  <2>3. Level' = Level
    BY <1>1, <2>1 DEF Level
  <2>4. QueueInv'
    BY <1>1, <2>1, <2>2, <2>3 DEF HInv, QueueInv
  <2>5. CoverInv'
    BY <1>1, <2>1, <2>2, <2>3 DEF HInv, CoverInv
  <2> QED
    BY <2>4, <2>5
<1>4. CASE SkipVisited
  <2>1. queue' = queue /\ pc = "sites" /\ pc' = "sites" /\ visited' = visited /\ Walking'
    BY <1>4 DEF SkipVisited, Walking
  <2>2. Level' = Level
    BY <1>1, <2>1 DEF Level
  <2> QED
    BY <1>1, <2>1, <2>2 DEF HInv, QueueInv, CoverInv
<1>5. CASE PushCaller
  <2> DEFINE d == Level
             e == [fn |-> Site.caller, depth |-> d + 1]
  <2>1. /\ pc = "sites" /\ pc' = "sites" /\ visited' = visited /\ Walking'
    BY <1>5 DEF PushCaller, Walking
  <2>2. /\ queue # <<>> /\ queue' # <<>> /\ DOMAIN queue' = 1..(Len(queue) + 1) /\ DOMAIN queue = 1..Len(queue)
        /\ Len(queue) \in Nat \ {0} /\ \A n \in DOMAIN queue : queue'[n] = queue[n]
        /\ queue'[Len(queue) + 1] = e
        /\ site \in DOMAIN module.sites[x0] /\ Site = module.sites[x0][site]
    BY <1>5, PushFacts
  <2>3. d = queue[1].depth /\ d \in 1..depth /\ depth \in Nat /\ x0 \in Near(d)
    BY <1>1, <2>2, FrontFacts
  <2>4. queue'[1] = queue[1] /\ Level' = d
    BY <1>1, <2>2, <2>3 DEF Level
  <2>5. Site.caller \in Near(d + 1)
    <3>1. Site.caller \in CallersIn(module.sites, x0)
      BY <2>2 DEF CallersIn
    <3>2. Site.caller \in CallersOf(module.sites, Near(d))
      BY <2>3, <3>1 DEF CallersOf
    <3>3. d \in Nat \ {0}
      BY <2>3
    <3>4. Near(d + 1) = Near(d) \cup CallersOf(module.sites, Near(d))
      BY <3>3, NearFacts DEF HInv
    <3> QED
      BY <3>2, <3>4
  <2>6. /\ depth >= 1
        /\ \A n \in DOMAIN queue : queue[n].fn \in Near(queue[n].depth) /\ queue[n].depth <= d + 1
        /\ \A m, n \in DOMAIN queue : m < n => queue[m].depth <= queue[n].depth
        /\ queue[1].fn \in visited /\ queue[1].fn \notin Near(queue[1].depth - 1)
        /\ Near(d - 1) \subseteq visited /\ visited \subseteq Near(d)
        /\ \A x \in Near(d) : x \in visited \/ \E k \in DOMAIN queue : queue[k] = [fn |-> x, depth |-> d]
    BY <1>1, <2>1, <2>2 DEF HInv, QueueInv, CoverInv
  <2>7. e.fn = Site.caller /\ e.depth = d + 1
    OBVIOUS
  <2> HIDE DEF d, e
  <2>8. \A n \in DOMAIN queue' : n \in DOMAIN queue \/ (n = Len(queue) + 1 /\ queue'[n] = e)
    BY <2>2
  <2>9. \A n \in DOMAIN queue' : queue'[n].fn \in Near(queue'[n].depth) /\ queue'[n].depth <= d + 1
    <3> SUFFICES ASSUME NEW n \in DOMAIN queue'
                 PROVE  queue'[n].fn \in Near(queue'[n].depth) /\ queue'[n].depth <= d + 1
      OBVIOUS
    <3>1. CASE n \in DOMAIN queue
      BY <2>2, <2>6, <3>1
    <3>2. CASE queue'[n] = e
      BY <2>3, <2>5, <2>7, <3>2
    <3> QED
      BY <2>8, <3>1, <3>2
  <2>10. \A m, n \in DOMAIN queue' : m < n => queue'[m].depth <= queue'[n].depth
    <3> SUFFICES ASSUME NEW m \in DOMAIN queue', NEW n \in DOMAIN queue', m < n
                 PROVE  queue'[m].depth <= queue'[n].depth
      OBVIOUS
    <3>1. m \in DOMAIN queue /\ queue'[m] = queue[m]
      BY <2>2
    <3>2. CASE n \in DOMAIN queue
      BY <2>2, <2>6, <3>1, <3>2
    <3>3. CASE queue'[n] = e
      BY <2>6, <2>7, <3>1, <3>3
    <3> QED
      BY <2>8, <3>2, <3>3
  <2>11. QueueInv'
    BY <1>1, <2>1, <2>4, <2>6, <2>9, <2>10 DEF QueueInv
  <2>12. \A x \in Near(d) : x \in visited' \/ \E k \in DOMAIN queue' : queue'[k] = [fn |-> x, depth |-> d]
    <3>1. DOMAIN queue \subseteq DOMAIN queue'
      BY <2>2
    <3> QED
      BY <2>1, <2>2, <2>6, <3>1
  <2>13. CoverInv'
    BY <1>1, <2>1, <2>2, <2>4, <2>6, <2>12 DEF CoverInv
  <2> QED
    BY <2>11, <2>13
<1>6. CASE VisitHot \/ CalledInLoop \/ WalkDone
  BY <1>6 DEF VisitHot, CalledInLoop, WalkDone, Walking, QueueInv, CoverInv
<1> QED
  BY <1>2, <1>3, <1>4, <1>5, <1>6 DEF WalkStep

LEMMA SitesFinite ==
  ASSUME HInv, depth >= 1
  PROVE  IsFiniteSet(SitesNear) /\ IsFiniteSet(SitesFollowed)
<1>1. depth - 1 \in Nat
  BY NearFacts DEF HInv
<1>2. Near(depth - 1) \subseteq Functions
  BY <1>1, NearFacts DEF HInv
<1>3. IsFiniteSet(Near(depth - 1))
  BY <1>2, ModuleFacts, FS_Subset DEF HInv, IInv
<1>4. \A f \in Near(depth - 1) : module.sites[f] \in Seq([caller : Functions, loop : BOOLEAN])
  BY <1>2, ModuleFacts DEF HInv, IInv, CallGraph
<1>5. IsFiniteSet(SitesNear)
  BY <1>3, <1>4, PlacesFinite DEF SitesNear
<1>6. SitesFollowed \subseteq SitesNear
  BY DEF SitesFollowed
<1> QED
  BY <1>5, <1>6, FS_Subset

LEMMA CountStep ==
  ASSUME HInv, IInv', WalkStep
  PROVE  CountInv'
<1> DEFINE x0 == queue[1].fn
<1>1. /\ Walking /\ UNCHANGED <<module, depth, level, func, reading>>
      /\ (\A n : Near(n)' = Near(n)) /\ SitesNear' = SitesNear
  BY WalkKept
<1>2. /\ callers \in Nat /\ Len(queue) \in Nat /\ visited \subseteq Functions /\ site \in Nat \ {0}
      /\ callers + Len(queue) <= Cardinality(SitesFollowed) + (IF pc = "sites" THEN 2 ELSE 1)
  BY <1>1, QueueFacts DEF HInv, IInv, TypeOK, CountInv
<1>3. depth >= 1 /\ depth \in Nat
  BY <1>1, NearFacts DEF HInv, QueueInv
<1>4. /\ IsFiniteSet(SitesNear) /\ IsFiniteSet(SitesFollowed) /\ Cardinality(SitesFollowed) \in Nat
  BY <1>3, SitesFinite, FS_CardinalityType
<1>5. SitesFollowed' \subseteq SitesNear
  BY <1>1 DEF SitesFollowed
<1>6. IsFiniteSet(SitesFollowed') /\ Cardinality(SitesFollowed') \in Nat
  BY <1>4, <1>5, FS_Subset, FS_CardinalityType
<1>7. ASSUME \A f, k : Followed(f, k) => Followed(f, k)'
      PROVE  SitesFollowed \subseteq SitesFollowed'
  BY <1>1, <1>7 DEF SitesFollowed
<1>8. SitesFollowed \subseteq SitesFollowed' => Cardinality(SitesFollowed) <= Cardinality(SitesFollowed')
  BY <1>6, FS_Subset
<1>9. CASE DropDuplicate \/ VisitLeaf
  <2>1. /\ pc = "callers" /\ pc' = "callers" /\ callers' = callers + 1 /\ queue # <<>> /\ queue' = Tail(queue)
        /\ visited \subseteq visited'
    BY <1>9 DEF DropDuplicate, VisitLeaf
  <2>2. Len(queue') = Len(queue) - 1
    BY <2>1, TailFacts
  <2>3. \A f, k : Followed(f, k) => Followed(f, k)'
    BY <1>1, <2>1 DEF Followed
  <2> QED
    BY <1>2, <1>4, <1>6, <1>7, <1>8, <2>1, <2>2, <2>3 DEF CountInv
<1>10. CASE VisitCallee
  <2>1. /\ pc = "callers" /\ pc' = "sites" /\ callers' = callers + 1 /\ queue # <<>> /\ queue' = queue
        /\ visited \subseteq visited' /\ x0 \notin visited
    BY <1>1, <1>10, FrontFacts DEF VisitCallee
  <2>2. \A f, k : Followed(f, k) => Followed(f, k)'
    BY <1>1, <2>1 DEF Followed
  <2> QED
    BY <1>2, <1>4, <1>6, <1>7, <1>8, <2>1, <2>2 DEF CountInv
<1>11. CASE SkipVisited
  <2>1. /\ pc = "sites" /\ pc' = "sites" /\ callers' = callers /\ queue' = queue /\ visited' = visited /\ site' = site + 1
    BY <1>11 DEF SkipVisited, SiteAfterSkip
  <2>2. \A f, k : Followed(f, k) => Followed(f, k)'
    <3>1. ASSUME NEW f, NEW k, Followed(f, k) PROVE Followed(f, k)'
      <4>1. k \in Nat
        BY <1>2, <3>1, NearFacts DEF Followed, HInv
      <4>2. k < site => k < site'
        BY <1>2, <2>1, <4>1
      <4> QED
        BY <1>1, <2>1, <3>1, <4>2 DEF Followed
    <3> QED
      BY <3>1
  <2> QED
    BY <1>2, <1>4, <1>6, <1>7, <1>8, <2>1, <2>2 DEF CountInv
<1>12. CASE PushCaller
  <2>1. /\ pc = "sites" /\ pc' = "sites" /\ callers' = callers /\ visited' = visited /\ site' = site + 1
    BY <1>12 DEF PushCaller
  <2>2. /\ queue # <<>> /\ queue'[1] = queue[1] /\ Len(queue') = Len(queue) + 1 /\ site \in DOMAIN module.sites[x0]
    <3>1. 1 \in DOMAIN queue
      BY <1>12, PushFacts
    <3> QED
      BY <1>12, <3>1, PushFacts
  <2>3. \A f, k : Followed(f, k) => Followed(f, k)'
    <3>1. ASSUME NEW f, NEW k, Followed(f, k) PROVE Followed(f, k)'
      <4>1. k \in Nat
        BY <1>2, <3>1, NearFacts DEF Followed, HInv
      <4>2. k < site => k < site'
        BY <1>2, <2>1, <4>1
      <4> QED
        BY <1>1, <2>1, <2>2, <3>1, <4>2 DEF Followed
    <3> QED
      BY <3>1
  <2>4. x0 \in Near(depth - 1) /\ x0 \in visited
    <3>1. queue[1].depth < depth /\ queue[1].depth = Level /\ Level \in 1..depth /\ x0 \in Near(Level) /\ x0 \in visited
      BY <1>1, <2>1, <2>2, FrontFacts DEF HInv, IInv, CursorInv, QueueInv
    <3>2. Level \in Nat /\ depth - 1 \in Nat /\ Level <= depth - 1
      BY <1>3, <3>1
    <3>3. Near(Level) \subseteq Near(depth - 1)
      BY <3>2, NearFacts DEF HInv
    <3> QED
      BY <3>1, <3>3
  <2>5. ASSUME NEW f, NEW k, f = x0, k = site PROVE Followed(f, k)' /\ ~Followed(f, k)
    <3>1. queue'[1].fn = f /\ k < site'
      BY <1>2, <2>1, <2>2, <2>5
    <3> QED
      BY <1>1, <1>2, <2>1, <2>2, <2>4, <2>5, <3>1 DEF Followed
  <2>6. PICK p : p = <<x0, site>>
    OBVIOUS
  <2>7. p \in SitesFollowed' /\ p \notin SitesFollowed
    <3>1. p \in SitesNear
      BY <2>2, <2>4, <2>6 DEF SitesNear, Places
    <3>2. p[1] = x0 /\ p[2] = site
      BY <2>6
    <3>3. Followed(p[1], p[2])' /\ ~Followed(p[1], p[2])
      BY <2>5, <3>2
    <3> HIDE DEF x0
    <3> QED
      BY <1>1, <3>1, <3>3 DEF SitesFollowed
  <2>8. Cardinality(SitesFollowed) + 1 <= Cardinality(SitesFollowed')
    <3> DEFINE S == SitesFollowed
               T == SitesFollowed'
    <3>1. IsFiniteSet(S) /\ p \notin S /\ S \cup {p} \subseteq T /\ IsFiniteSet(T)
      BY <1>4, <1>6, <1>7, <2>3, <2>7
    <3> HIDE DEF S, T
    <3>2. Cardinality(S \cup {p}) = Cardinality(S) + 1
      BY <3>1, FS_AddElement
    <3>3. Cardinality(S \cup {p}) <= Cardinality(T)
      BY <3>1, FS_Subset
    <3> QED
      BY <3>2, <3>3 DEF S, T
  <2> QED
    BY <1>2, <1>4, <1>6, <2>1, <2>2, <2>8 DEF CountInv
<1>13. CASE SitesDone
  <2>1. /\ pc = "sites" /\ pc' = "callers" /\ callers' = callers /\ visited' = visited /\ queue # <<>> /\ queue' = Tail(queue)
    BY <1>13 DEF SitesDone, HInv, IInv, CursorInv
  <2>2. Len(queue') = Len(queue) - 1
    BY <2>1, TailFacts
  <2>3. \A f, k : Followed(f, k) => Followed(f, k)'
    BY <1>1, <2>1 DEF Followed
  <2> QED
    BY <1>2, <1>4, <1>6, <1>7, <1>8, <2>1, <2>2, <2>3 DEF CountInv
<1>14. CASE VisitHot \/ CalledInLoop \/ WalkDone
  BY <1>14 DEF VisitHot, CalledInLoop, WalkDone, Walking, CountInv
<1> QED
  BY <1>9, <1>10, <1>11, <1>12, <1>13, <1>14 DEF WalkStep

LEMMA VerdictStep ==
  ASSUME HInv, IInv', WalkStep
  PROVE  VerdictInv'
<1> DEFINE x0 == queue[1].fn
<1>1. /\ Walking /\ UNCHANGED <<module, depth, level, func, reading>> /\ profile' = profile
      /\ (\A n : Near(n)' = Near(n)) /\ SitesNear' = SitesNear /\ LoopCallNear' = LoopCallNear
  BY WalkKept
<1>2. /\ \A m, n \in Nat : m <= n => Near(m) \subseteq Near(n)
      /\ depth >= 1 /\ depth \in Nat
  BY <1>1, NearFacts DEF HInv, QueueInv
<1>3. CASE VisitHot
  <2>1. /\ queue # <<>> /\ funcHot' = Hot /\ x0 \in profile["FREQCALL"]
    BY <1>1, <1>3, FrontFacts DEF VisitHot
  <2>2. Level \in 1..depth /\ x0 \in Near(Level)
    BY <1>1, <2>1, FrontFacts
  <2>3. x0 \in Near(depth)
    BY <1>2, <2>2
  <2> QED
    BY <1>1, <2>1, <2>3 DEF VerdictInv
<1>4. CASE CalledInLoop
  <2>1. /\ queue # <<>> /\ funcHot' = Hot /\ Site.loop /\ site <= Len(ItemSites) /\ site \in Nat \ {0}
        /\ queue[1].depth < depth
    BY <1>4 DEF CalledInLoop, HInv, IInv, CursorInv, TypeOK
  <2>2. /\ Level \in 1..depth /\ x0 \in Near(Level) /\ Level = queue[1].depth
        /\ ItemSites = module.sites[x0] /\ DOMAIN ItemSites = 1..Len(ItemSites) /\ Len(ItemSites) \in Nat
    BY <1>1, <2>1, FrontFacts
  <2>3. x0 \in Near(depth - 1)
    <3>1. Level \in Nat /\ depth - 1 \in Nat /\ Level <= depth - 1
      BY <1>2, <2>1, <2>2
    <3> QED
      BY <1>2, <2>2, <3>1
  <2>4. site \in DOMAIN module.sites[x0] /\ module.sites[x0][site].loop
    BY <2>1, <2>2 DEF Site
  <2>5. \E f \in Near(depth - 1) : \E k \in DOMAIN module.sites[f] : module.sites[f][k].loop
    BY <2>3, <2>4
  <2> QED
    BY <1>1, <2>1, <2>5 DEF VerdictInv
<1>5. CASE WalkDone
  <2>1. queue = <<>> /\ pc = "callers" /\ funcHot' = (IF callers > CallerHot THEN Hot ELSE Regular)
    BY <1>5 DEF WalkDone, VerdictByCallers
  <2>2. Level - 1 = depth
    BY <1>2, <2>1 DEF Level
  <2>3. Near(depth) \subseteq visited
    BY <1>1, <2>2 DEF HInv, CoverInv
  <2>4. Near(depth) \cap profile["FREQCALL"] = {}
    BY <1>1, <2>3 DEF HInv, FollowedInv
  <2>5. ~LoopCallNear
    <3> SUFFICES ASSUME NEW n \in 1..(depth - 1), NEW f \in Near(n) \ Near(n - 1), NEW k \in DOMAIN module.sites[f],
                        module.sites[f][k].loop, module.sites[f][k].caller \in Near(n + 1) \ Near(n)
                 PROVE  FALSE
      BY DEF LoopCallNear
    <3>1. n \in Nat /\ n <= depth - 1 /\ n <= depth /\ depth - 1 \in Nat
      BY <1>2
    <3>2. f \in visited /\ f \in Near(depth - 1)
      BY <1>2, <2>3, <3>1
    <3>3. Followed(f, k)
      BY <2>1, <3>2 DEF Followed
    <3> QED
      BY <1>1, <3>3 DEF HInv, FollowedInv
  <2>6. callers > CallerHot => 1 + Cardinality(SitesNear) > CallerHot
    <3>1. callers + Len(queue) <= Cardinality(SitesFollowed) + 1 /\ Len(queue) = 0
      <4>1. Len(queue) = 0
        BY <2>1
      <4> QED
        BY <1>1, <2>1, <4>1 DEF HInv, CountInv
    <3>2. IsFiniteSet(SitesNear) /\ SitesFollowed \subseteq SitesNear
      BY <1>2, SitesFinite DEF SitesFollowed
    <3>3. Cardinality(SitesFollowed) <= Cardinality(SitesNear) /\ Cardinality(SitesFollowed) \in Nat
          /\ Cardinality(SitesNear) \in Nat
      BY <1>2, <3>2, SitesFinite, FS_Subset, FS_CardinalityType
    <3>4. callers \in Nat /\ CallerHot \in Nat
      BY ModuleFacts DEF HInv, IInv, TypeOK
    <3> QED
      BY <3>1, <3>3, <3>4
  <2>7. funcHot' = Hot => callers > CallerHot
    BY <2>1 DEF Hot, Regular
  <2> QED
    BY <1>1, <2>4, <2>5, <2>6, <2>7 DEF VerdictInv
<1>6. CASE DropDuplicate \/ VisitLeaf \/ VisitCallee \/ SkipVisited \/ PushCaller \/ SitesDone
  <2>1. pc' \in {"callers", "sites"}
    BY <1>6 DEF DropDuplicate, VisitLeaf, VisitCallee, SkipVisited, PushCaller, SitesDone
  <2> QED
    BY <2>1 DEF VerdictInv, Rating
<1> QED
  BY <1>3, <1>4, <1>5, <1>6 DEF WalkStep

\* The steps that start a walk, and those after it.
LEMMA HStart ==
  ASSUME HInv, IInv', NEW f \in Functions, StartFunction(f)
  PROVE  HInv'
<1>1. /\ module' = module /\ depth' = depth /\ func' = f /\ visited' = {} /\ callers' = 0 /\ funcHot' = Cold
      /\ queue' = (IF depth = 0 THEN <<>> ELSE <<[fn |-> f, depth |-> 1]>>)
      /\ pc' = (IF depth = 0 THEN "assess" ELSE "callers")
  BY DEF StartFunction, readVars, inputVars
<1>2. /\ Near(0)' = {} /\ Near(1)' = {f}
  <2>1. IInv'
    OBVIOUS
  <2>2. module.sites \in CallGraph(Functions)
    BY ModuleFacts DEF HInv, IInv
  <2>3. WithinIn(module.sites, f)[0] = {} /\ WithinIn(module.sites, f)[1] = {f}
    BY <2>2, WithinStep
  <2> QED
    BY <1>1, <2>3 DEF Near
<1>3. depth \in Nat
  BY NearFacts DEF HInv
<1>4. CASE depth = 0
  <2>1. pc' = "assess" /\ funcHot' # Hot /\ depth' = 0
    BY <1>1, <1>4 DEF Cold, Hot
  <2>2. Near(depth)' = {}
    BY <1>2, <2>1 DEF Near
  <2>3. ~LoopCallNear'
    <3>1. 1..(depth' - 1) = {}
      BY <2>1
    <3> QED
      BY <3>1 DEF LoopCallNear
  <2>4. VerdictInv'
    BY <2>1, <2>2, <2>3 DEF VerdictInv
  <2> QED
    BY <2>1, <2>4 DEF HInv, QueueInv, CoverInv, FollowedInv, CountInv, Walking
<1>5. CASE depth # 0
  <2>1. /\ pc' = "callers" /\ queue' = <<[fn |-> f, depth |-> 1]>> /\ queue' # <<>> /\ Len(queue') = 1
        /\ DOMAIN queue' = {1} /\ queue'[1] = [fn |-> f, depth |-> 1] /\ depth >= 1
    BY <1>1, <1>3, <1>5
  <2> DEFINE e == queue'[1]
  <2>2. e.fn = f /\ e.depth = 1
    BY <2>1
  <2>3. Level' = 1
    BY <2>1, <2>2 DEF Level
  <2>4. ASSUME NEW n, n = 1 PROVE Near(n)' = {f} /\ Near(n - 1)' = {}
    BY <1>2, <2>4 DEF Near
  <2>5. QueueInv'
    <3>1. \A n \in DOMAIN queue' : queue'[n].fn \in Near(1)' /\ queue'[n].depth = 1
      BY <1>2, <2>1, <2>2
    <3>2. \A n \in DOMAIN queue' : (queue[n].fn \in Near(queue[n].depth))' /\ queue'[n].depth <= Level' + 1
      BY <2>1, <2>2, <2>3, <1>2, <3>1 DEF Near
    <3> QED
      BY <1>1, <2>1, <3>1, <3>2 DEF QueueInv
  <2>6. CoverInv'
    <3>1. Near(Level - 1)' = {} /\ Near(Level)' = {f}
      BY <1>2, <2>3 DEF Near
    <3>2. queue'[1] = [fn |-> f, depth |-> Level']
      BY <2>1, <2>3
    <3> QED
      BY <1>1, <2>1, <3>1, <3>2 DEF CoverInv
  <2>7. FollowedInv'
    BY <1>1 DEF FollowedInv, Followed
  <2>8. CountInv'
    <3>1. SitesFollowed' = {}
      BY <1>1 DEF SitesFollowed, Followed
    <3>2. Cardinality(SitesFollowed') = 0
      BY <3>1, FS_EmptySet
    <3> QED
      BY <1>1, <2>1, <3>2 DEF CountInv
  <2>9. VerdictInv'
    BY <2>1 DEF VerdictInv, Rating
  <2> QED
    BY <2>5, <2>6, <2>7, <2>8, <2>9 DEF HInv
<1> QED
  BY <1>4, <1>5

LEMMA HInvInductive ==
  /\ Init => HInv
  /\ HInv /\ [Next]_vars => HInv'
<1>1. ASSUME Init PROVE HInv
  BY <1>1, InitTypes DEF Init, HInv, QueueInv, CoverInv, FollowedInv, CountInv, VerdictInv, Walking, Rating
<1>2. ASSUME HInv, [Next]_vars PROVE HInv'
  <2>1. IInv'
    BY <1>2, StepTypes DEF HInv
  <2>2. CASE WalkStep
    BY <1>2, <2>1, <2>2, FollowedStep, QueueStep, CountStep, VerdictStep DEF HInv
  <2>3. CASE ReadProfileLine \/ ProfileDone
    <3>1. pc' \in {"profile", "exit", "next_function"}
      BY <2>3 DEF ReadProfileLine, ProfileDone
    <3> QED
      BY <2>1, <3>1 DEF HInv, QueueInv, CoverInv, FollowedInv, CountInv, VerdictInv, Walking, Rating
  <2>4. CASE RateStep
    <3>1. /\ Rating /\ ~Walking' /\ UNCHANGED <<module, depth, func, funcHot, reading>>
      BY <2>4 DEF RateStep, AssessInst, AssessSlice, CountRisk, FunctionDone, readVars, inputVars, Rating, Walking
    <3>2. \A n : Near(n)' = Near(n)
      BY <3>1 DEF Near
    <3>3. SitesNear' = SitesNear /\ LoopCallNear' = LoopCallNear
      BY <3>1, <3>2 DEF SitesNear, LoopCallNear, Places
    <3>4. VerdictInv'
      BY <1>2, <3>1, <3>2, <3>3 DEF HInv, VerdictInv, profile
    <3> QED
      BY <2>1, <3>1, <3>4 DEF HInv, QueueInv, CoverInv, FollowedInv, CountInv
  <2>5. CASE UNCHANGED vars
    <3>1. /\ UNCHANGED <<module, depth, func, funcHot, reading, pc, queue, visited, callers, site>>
      BY <2>5 DEF vars
    <3>2. \A n : Near(n)' = Near(n)
      BY <3>1 DEF Near
    <3>3. SitesNear' = SitesNear /\ LoopCallNear' = LoopCallNear
      BY <3>1, <3>2 DEF SitesNear, LoopCallNear, Places
    <3>4. \A f, k : Followed(f, k)' = Followed(f, k)
      BY <3>1, <3>2 DEF Followed
    <3>5. /\ SitesFollowed' = SitesFollowed /\ Queued' = Queued /\ Level' = Level /\ profile' = profile
          /\ Walking' = Walking /\ Rating' = Rating
      BY <3>1, <3>3, <3>4 DEF SitesFollowed, Queued, Level, profile, Walking, Rating
    <3>6. QueueInv' /\ CoverInv' /\ FollowedInv'
      BY <1>2, <3>1, <3>2, <3>4, <3>5 DEF HInv, QueueInv, CoverInv, FollowedInv
    <3>7. CountInv' /\ VerdictInv'
      BY <1>2, <3>1, <3>2, <3>3, <3>5 DEF HInv, CountInv, VerdictInv
    <3> QED
      BY <2>1, <3>6, <3>7 DEF HInv
  <2> QED
    BY <1>2, <2>1, <2>2, <2>3, <2>4, <2>5, HStart, StepSplit
<1> QED
  BY <1>1, <1>2

(***************************************************************************)
(* Whatever the calls are, recursive or not, and whatever duplicates the   *)
(* queue holds: a caller is visited at its distance, none up to the depth  *)
(* is overlooked, and no function is hot without a reason                  *)
(* (Evaluator.cpp:257).                                                    *)
(***************************************************************************)
THEOREM HotAlwaysExact == Spec => []HotExactly
<1>1. ASSUME HInv PROVE HotExactly
  <2>1. \A n : Within[n] = Near(n)
    BY WithinIs DEF Near
  <2>2. \A n : Ring(n) = Near(n) \ Near(n - 1)
    BY <2>1 DEF Ring
  <2>3. ASSUME Walking, queue # <<>>
        PROVE  \A n \in DOMAIN queue :
                 queue[n].fn \notin visited \cup {queue[k].fn : k \in 1..(n - 1)} => queue[n].fn \in Ring(queue[n].depth)
    <3> DEFINE d == Level
    <3>1. /\ d = queue[1].depth /\ d \in 1..depth /\ depth \in Nat
          /\ Near(d - 1) \subseteq visited
      BY <1>1, <2>3, FrontFacts
    <3>2. /\ \A n \in DOMAIN queue : queue[n].fn \in Near(queue[n].depth) /\ queue[n].depth <= d + 1
          /\ \A m, n \in DOMAIN queue : m < n => queue[m].depth <= queue[n].depth
          /\ \A x \in Near(d) : x \in visited \/ \E k \in DOMAIN queue : queue[k] = [fn |-> x, depth |-> d]
      BY <1>1, <2>3 DEF HInv, QueueInv, CoverInv
    <3>3. /\ DOMAIN queue = 1..Len(queue) /\ Len(queue) \in Nat /\ 1 \in DOMAIN queue
          /\ \A n \in DOMAIN queue : queue[n].depth \in Nat
      BY <1>1, <2>3, QueueFacts DEF HInv
    <3> HIDE DEF d
    <3> SUFFICES ASSUME NEW n \in DOMAIN queue,
                        queue[n].fn \notin visited, \A k \in 1..(n - 1) : queue[n].fn # queue[k].fn,
                        queue[n].fn \in Near(queue[n].depth - 1)
                 PROVE  FALSE
      <4>1. ASSUME NEW n \in DOMAIN queue,
                   queue[n].fn \notin visited \cup {queue[k].fn : k \in 1..(n - 1)}
            PROVE  queue[n].fn \notin visited /\ \A k \in 1..(n - 1) : queue[n].fn # queue[k].fn
        BY <4>1
      <4> QED
        BY <2>2, <3>2, <4>1
    <3>4. d <= queue[n].depth
      <4>1. n = 1 \/ 1 < n
        BY <3>3
      <4> QED
        BY <3>1, <3>2, <3>3, <4>1
    <3>5. queue[n].depth = d \/ queue[n].depth = d + 1
      BY <3>1, <3>2, <3>3, <3>4, SMTT(30)
    <3>6. CASE queue[n].depth = d
      BY <3>1, <3>6
    <3>7. CASE queue[n].depth = d + 1
      <4>1. queue[n].fn \in Near(d)
        <5>1. queue[n].depth - 1 = d
          BY <3>1, <3>7
        <5> QED
          BY <5>1
      <4>2. PICK k \in DOMAIN queue : queue[k] = [fn |-> queue[n].fn, depth |-> d]
        BY <3>2, <4>1
      <4>3. queue[k].fn = queue[n].fn /\ queue[k].depth = d
        BY <4>2
      <4>4. ~(n < k) /\ n # k
        <5>1. n < k => queue[n].depth <= queue[k].depth
          BY <3>2
        <5> QED
          BY <3>1, <3>7, <4>3, <5>1
      <4>5. k \in 1..(n - 1)
        BY <3>3, <4>4
      <4> QED
        BY <4>3, <4>5
    <3> QED
      BY <3>5, <3>6, <3>7
  <2>4. ASSUME Walking
        PROVE  /\ \A n \in DOMAIN queue :
                    queue[n].fn \notin visited \cup {queue[k].fn : k \in 1..(n - 1)} => queue[n].fn \in Ring(queue[n].depth)
               /\ visited \subseteq Within[depth]
    <3>1. CASE queue = <<>>
      <4>1. DOMAIN queue = {}
        BY <3>1
      <4> QED
        BY <1>1, <2>1, <2>4, <3>1, <4>1 DEF HInv, CoverInv
    <3>2. CASE queue # <<>>
      <4>1. Level \in 1..depth /\ depth \in Nat /\ visited \subseteq Near(Level)
        BY <1>1, <2>4, <3>2, FrontFacts
      <4>2. Near(Level) \subseteq Near(depth)
        BY <1>1, <4>1, NearFacts DEF HInv
      <4> QED
        BY <2>1, <2>3, <2>4, <3>2, <4>1, <4>2
    <3> QED
      BY <3>1, <3>2
  <2>5. pc = "callers" /\ queue # <<>> => Within[Item.depth - 1] \subseteq visited
    <3> SUFFICES ASSUME pc = "callers", queue # <<>> PROVE Within[Item.depth - 1] \subseteq visited
      OBVIOUS
    <3>1. Walking
      BY DEF Walking
    <3>2. Item.depth = Level /\ Near(Level - 1) \subseteq visited
      BY <1>1, <3>1, FrontFacts
    <3> QED
      BY <2>1, <3>2
  <2>6. VisitedAtDistance
    BY <2>4, <2>5 DEF VisitedAtDistance, Walking
  <2>7. LoopCallWithin <=> LoopCallNear
    <3>1. \A n \in 1..(depth - 1) : Ring(n + 1) = Near(n + 1) \ Near(n)
      <4>1. \A n \in 1..(depth - 1) : (n + 1) - 1 = n
        OBVIOUS
      <4> QED
        BY <2>2, <4>1
    <3> QED
      BY <2>2, <3>1 DEF LoopCallWithin, LoopCallNear
  <2>8. SitesWithin = SitesNear
    BY <2>1 DEF SitesWithin, SitesNear, Places
  <2>9. HotCallersFound /\ HotHasReason
    BY <1>1, <2>1, <2>7, <2>8 DEF HInv, VerdictInv, Rating, HotCallersFound, HotHasReason
  <2> QED
    BY <2>6, <2>9 DEF HotExactly
<1> QED
  BY <1>1, HInvInductive, PTL DEF Spec

-----------------------------------------------------------------------------
(* The profile *)

LEMMA LinesFacts ==
  ASSUME module.lines \in Seq(STRING)
  PROVE  Len(module.lines) \in Nat /\ DOMAIN module.lines = 1..Len(module.lines)
BY LenProperties

LEMMA MarksStep ==
  ASSUME NEW n \in Nat
  PROVE  /\ Marks(n) \in Nat /\ Marks(0) = 0
         /\ Marks(n + 1) = Marks(n) + (IF module.lines[n + 1] = SegmentBegin THEN 1 ELSE 0)
<1> DEFINE M(m) == {j \in 1..m : module.lines[j] = SegmentBegin}
<1>1. IsFiniteSet(M(n)) /\ Cardinality(M(n)) \in Nat
  <2>1. IsFiniteSet(1..n)
    BY FS_Interval
  <2> QED
    BY <2>1, FS_Subset, FS_CardinalityType
<1>2. n + 1 \notin M(n) /\ M(0) = {}
  OBVIOUS
<1>3. M(n + 1) = IF module.lines[n + 1] = SegmentBegin THEN M(n) \cup {n + 1} ELSE M(n)
  <2>1. 1..(n + 1) = (1..n) \cup {n + 1}
    OBVIOUS
  <2> QED
    BY <2>1
<1>4. Cardinality(M(n) \cup {n + 1}) = Cardinality(M(n)) + 1
  BY <1>1, <1>2, FS_AddElement
<1> QED
  BY <1>1, <1>2, <1>3, <1>4, FS_EmptySet DEF Marks

\* The marks of a heading: one opens, the next closes.
LEMMA HeadingParts ==
  ASSUME module.lines \in Seq(STRING), NEW h, NEW t \in SpeTypes, HeadingAt(h, t)
  PROVE  /\ h \in 1..(Len(module.lines) - 2) /\ h \in Headings
         /\ module.lines[h] = SegmentBegin /\ module.lines[h + 1] # SegmentBegin
         /\ h + 1 \notin Opens /\ h + 2 \notin Opens
<1>1. /\ h \in DOMAIN module.lines /\ h + 2 <= Len(module.lines) /\ module.lines[h] = SegmentBegin
      /\ Marks(h) % 2 = 1 /\ module.lines[h + 1] = t /\ module.lines[h + 2] = SegmentBegin
  BY DEF HeadingAt, Opens, SegmentEnd
<1>2. h \in 1..(Len(module.lines) - 2)
  BY <1>1, LinesFacts
<1>3. t # SegmentBegin
  BY DEF SpeTypes, SegmentBegin
<1>4. Marks(h + 1) = Marks(h) /\ Marks(h) \in Nat
  <2>1. h \in Nat
    BY <1>2
  <2>2. Marks(h) \in Nat /\ Marks(h + 1) = Marks(h) + (IF module.lines[h + 1] = SegmentBegin THEN 1 ELSE 0)
    BY <2>1, MarksStep
  <2>3. module.lines[h + 1] # SegmentBegin
    BY <1>1, <1>3
  <2> QED
    BY <2>2, <2>3
<1>5. Marks((h + 1) + 1) = Marks(h + 1) + 1
  <2>1. h + 1 \in Nat /\ (h + 1) + 1 = h + 2
    BY <1>2
  <2> QED
    BY <1>1, <2>1, MarksStep
<1>6. Marks(h + 2) % 2 # 1
  <2>1. Marks(h + 2) = Marks(h) + 1
    BY <1>2, <1>4, <1>5
  <2> QED
    BY <2>1, <1>1, <1>4
<1> QED
  BY <1>1, <1>2, <1>3, <1>6 DEF Opens, Headings, HeadingAt

\* The heading the first n lines end under.
Latest(n, t) == \E h \in 1..(n - 2) : HeadingAt(h, t) /\ \A j \in (h + 3)..n : module.lines[j] # SegmentBegin

LEMMA LatestOne ==
  ASSUME module.lines \in Seq(STRING), NEW n \in Nat, NEW t \in SpeTypes, NEW u \in SpeTypes, Latest(n, t), Latest(n, u)
  PROVE  t = u
<1>1. PICK h \in 1..(n - 2) : HeadingAt(h, t) /\ \A j \in (h + 3)..n : module.lines[j] # SegmentBegin
  BY DEF Latest
<1>2. PICK g \in 1..(n - 2) : HeadingAt(g, u) /\ \A j \in (g + 3)..n : module.lines[j] # SegmentBegin
  BY DEF Latest
<1>3. h \in Opens /\ g \in Opens /\ module.lines[h] = SegmentBegin /\ module.lines[g] = SegmentBegin
  BY <1>1, <1>2 DEF HeadingAt, Opens
<1>4. h + 1 \notin Opens /\ h + 2 \notin Opens /\ g + 1 \notin Opens /\ g + 2 \notin Opens
  BY <1>1, <1>2, HeadingParts
<1>5. g # h + 1 /\ g # h + 2 /\ h # g + 1 /\ h # g + 2
  BY <1>3, <1>4
<1>6. g \notin (h + 3)..n /\ h \notin (g + 3)..n
  BY <1>1, <1>2, <1>3
<1>7. g = h
  BY <1>5, <1>6
<1> QED
  BY <1>1, <1>2, <1>7 DEF HeadingAt

LEMMA UnderLatest ==
  ASSUME NEW n \in Nat, NEW t
  PROVE  Under(n + 1, t) <=> Latest(n, t) /\ module.lines[n + 1] # SegmentBegin
<1>1. 1..((n + 1) - 3) = 1..(n - 2)
  OBVIOUS
<1>2. ASSUME NEW h \in 1..(n - 2)
      PROVE  (h + 3)..(n + 1) = ((h + 3)..n) \cup {n + 1}
  OBVIOUS
<1> QED
  BY <1>1, <1>2 DEF Under, Latest

\* The names under a type in the first n lines.
NamesTo(n, t) == {module.lines[k] : k \in {j \in 1..n : module.lines[j] # Blank /\ Under(j, t)}}

LEMMA NamesStep ==
  ASSUME NEW n \in Nat, NEW t
  PROVE  NamesTo(n + 1, t) =
           IF module.lines[n + 1] # Blank /\ Under(n + 1, t) THEN NamesTo(n, t) \cup {module.lines[n + 1]} ELSE NamesTo(n, t)
<1>1. 1..(n + 1) = (1..n) \cup {n + 1}
  OBVIOUS
<1> QED
  BY <1>1 DEF NamesTo

\* The heading that is open after n lines.
Pending(n, r) == IF r.at = "type" THEN {n} ELSE IF r.at = "end" THEN {n - 1} ELSE {}

\* What the reader knows after n lines.
ReadTo(n, r) ==
  /\ \A t \in SpeTypes : r.profile[t] = NamesTo(n, t)
  /\ Pending(n, r) \subseteq Opens
  /\ Marks(n) % 2 = IF r.at = "body" THEN 0 ELSE 1
  /\ \A h \in Opens : h <= n => h \in Headings \cup Pending(n, r)
  /\ \A k \in 1..n : module.lines[k] # Blank => \E h \in Headings \cup Pending(n, r) : h <= k
  /\ r.at = "body" => IF r.type = InvalidType THEN \A k \in 1..n : module.lines[k] = Blank ELSE Latest(n, r.type)
  /\ r.at = "end" => r.type \in SpeTypes /\ module.lines[n] = r.type

Readings == [at : {"body", "type", "end"}, type : SpeTypes \cup {InvalidType}, profile : [SpeTypes -> SUBSET STRING]]

LEMMA NothingRead ==
  ASSUME module.lines \in Seq(STRING)
  PROVE  ReadTo(0, EmptyReading)
<1>1. EmptyReading.at = "body" /\ EmptyReading.type = InvalidType /\ \A t \in SpeTypes : EmptyReading.profile[t] = {}
  BY DEF EmptyReading
<1>2. Marks(0) % 2 = 0
  BY MarksStep
<1>3. \A t : NamesTo(0, t) = {}
  BY DEF NamesTo
<1>4. \A h \in Opens : ~(h <= 0)
  BY LinesFacts DEF Opens
<1>5. \A k \in 1..0 : FALSE
  OBVIOUS
<1>6. Pending(0, EmptyReading) = {}
  BY <1>1 DEF Pending
<1> QED
  BY <1>1, <1>2, <1>3, <1>4, <1>5, <1>6 DEF ReadTo

\* A line that is taken is one of the file as it is laid out.
LEMMA LineTaken ==
  ASSUME module.lines \in Seq(STRING), NEW n \in Nat, n < Len(module.lines), NEW r \in Readings, ReadTo(n, r),
         ReadLine(r, module.lines[n + 1]).at # "failed"
  PROVE  ReadTo(n + 1, ReadLine(r, module.lines[n + 1]))
<1> DEFINE l == module.lines[n + 1]
           q == ReadLine(r, l)
<1>1. n + 1 \in DOMAIN module.lines /\ DOMAIN module.lines = 1..Len(module.lines) /\ Len(module.lines) \in Nat
  BY LinesFacts
<1>2. /\ Marks(n) \in Nat /\ Marks(n + 1) = Marks(n) + (IF l = SegmentBegin THEN 1 ELSE 0)
      /\ n + 1 \in Opens <=> l = SegmentBegin /\ Marks(n + 1) % 2 = 1
  BY <1>1, MarksStep DEF Opens
<1>3. \A t : Under(n + 1, t) <=> Latest(n, t) /\ l # SegmentBegin
  BY UnderLatest
<1>4. \A t : NamesTo(n + 1, t) = IF l # Blank /\ Under(n + 1, t) THEN NamesTo(n, t) \cup {l} ELSE NamesTo(n, t)
  BY NamesStep
<1>5. SegmentBegin \notin SpeTypes /\ Blank \notin SpeTypes /\ InvalidType \notin SpeTypes /\ SegmentBegin # Blank
  BY DEF SegmentBegin, SpeTypes, Blank, InvalidType
<1>6. r.at \in {"body", "type", "end"} /\ r.type \in SpeTypes \cup {InvalidType} /\ DOMAIN r.profile = SpeTypes
  BY DEF Readings
<1>7. \A k \in 1..(n + 1) : k \in 1..n \/ k = n + 1
  OBVIOUS
<1>8. \A h \in Opens : h \in Nat /\ (h <= n + 1 => h <= n \/ h = n + 1) /\ module.lines[h] = SegmentBegin
  BY <1>1 DEF Opens
<1>9. CASE r.at = "type"
  <2>1. l \in SpeTypes /\ q = [r EXCEPT !.at = "end", !.type = TypeRead(r, l)]
    BY <1>9 DEF ReadLine, Fails
  <2>2. q.at = "end" /\ q.type = l /\ q.profile = r.profile
    BY <2>1, <1>6 DEF TypeRead, Readings
  <2>3. Pending(n, r) = {n} /\ Pending(n + 1, q) = {n} /\ n \in Opens
    BY <1>9, <2>2 DEF Pending, ReadTo
  <2>4. \A t \in SpeTypes : ~Under(n + 1, t)
    <3> SUFFICES ASSUME NEW t \in SpeTypes, Latest(n, t) PROVE FALSE
      BY <1>3
    <3>1. PICK h \in 1..(n - 2) : HeadingAt(h, t) /\ \A j \in (h + 3)..n : module.lines[j] # SegmentBegin
      BY DEF Latest
    <3>2. h + 2 \notin Opens
      BY <3>1, HeadingParts
    <3>3. n # h + 2 /\ module.lines[n] = SegmentBegin
      BY <2>3, <3>2, <1>8
    <3>4. n \in (h + 3)..n
      BY <3>3
    <3> QED
      BY <3>1, <3>3, <3>4
  <2>5. n + 1 \notin Opens /\ Marks(n + 1) % 2 = 1
    BY <1>2, <1>5, <1>9, <2>1 DEF ReadTo
  <2> HIDE DEF l, q
  <2>6. \A h \in Opens : h <= n + 1 => h \in Headings \cup {n}
    BY <1>8, <2>3, <2>5 DEF ReadTo
  <2>7. \A k \in 1..(n + 1) : module.lines[k] # Blank => \E h \in Headings \cup {n} : h <= k
    <3>1. \A k \in 1..n : module.lines[k] # Blank => \E h \in Headings \cup {n} : h <= k
      BY <2>3 DEF ReadTo
    <3>2. n <= n + 1
      OBVIOUS
    <3> QED
      BY <1>7, <3>1, <3>2
  <2>8. \A t \in SpeTypes : q.profile[t] = NamesTo(n + 1, t)
    BY <1>4, <2>2, <2>4 DEF ReadTo
  <2> QED
    BY <2>1, <2>2, <2>3, <2>5, <2>6, <2>7, <2>8 DEF ReadTo, l, q
<1>10. CASE r.at = "end"
  <2>1. l = SegmentBegin /\ q = [r EXCEPT !.at = "body"]
    BY <1>10 DEF ReadLine, Fails, SegmentEnd
  <2>2. q.at = "body" /\ q.type = r.type /\ q.profile = r.profile
    BY <2>1 DEF Readings
  <2>3. Pending(n, r) = {n - 1} /\ Pending(n + 1, q) = {} /\ n - 1 \in Opens /\ r.type \in SpeTypes /\ module.lines[n] = r.type
    BY <1>10, <2>2 DEF Pending, ReadTo
  <2>4. n - 1 \in 1..(n - 1)
    BY <1>1, <2>3 DEF Opens
  <2>5. HeadingAt(n - 1, r.type)
    <3>1. (n - 1) + 1 = n /\ (n - 1) + 2 = n + 1
      OBVIOUS
    <3> QED
      BY <1>1, <2>1, <2>3, <3>1 DEF HeadingAt, SegmentEnd
  <2>6. n - 1 \in Headings
    BY <2>3, <2>5 DEF Headings
  <2>7. n + 1 \notin Opens /\ Marks(n + 1) % 2 = 0
    BY <1>2, <1>10, <2>1 DEF ReadTo
  <2>8. Latest(n + 1, r.type)
    <3>1. n - 1 \in 1..((n + 1) - 2) /\ ((n - 1) + 3)..(n + 1) = {}
      BY <2>4
    <3> QED
      BY <2>5, <3>1 DEF Latest
  <2>9. \A t \in SpeTypes : q.profile[t] = NamesTo(n + 1, t)
    BY <1>3, <1>4, <2>1, <2>2 DEF ReadTo
  <2>10. r.type # InvalidType
    BY <1>5, <2>3
  <2> HIDE DEF l, q
  <2>11. \A h \in Opens : h <= n + 1 => h \in Headings
    BY <1>8, <2>3, <2>6, <2>7 DEF ReadTo
  <2>12. \A k \in 1..(n + 1) : module.lines[k] # Blank => \E h \in Headings : h <= k
    <3>1. \A k \in 1..n : module.lines[k] # Blank => \E h \in Headings : h <= k
      BY <2>3, <2>6 DEF ReadTo
    <3>2. n - 1 <= n + 1
      OBVIOUS
    <3> QED
      BY <1>7, <2>6, <3>1, <3>2
  <2> QED
    BY <2>2, <2>3, <2>7, <2>8, <2>9, <2>10, <2>11, <2>12 DEF ReadTo, l, q
<1>11. CASE r.at = "body" /\ l = SegmentBegin
  <2>1. q = [r EXCEPT !.at = "type"]
    BY <1>5, <1>11 DEF ReadLine
  <2>2. q.at = "type" /\ q.profile = r.profile
    BY <2>1 DEF Readings
  <2>3. Pending(n, r) = {} /\ Pending(n + 1, q) = {n + 1}
    BY <1>11, <2>2 DEF Pending
  <2>4. n + 1 \in Opens /\ Marks(n + 1) % 2 = 1
    BY <1>2, <1>11 DEF ReadTo
  <2>5. \A t \in SpeTypes : q.profile[t] = NamesTo(n + 1, t)
    BY <1>3, <1>4, <1>11, <2>2 DEF ReadTo
  <2> HIDE DEF l, q
  <2>6. \A h \in Opens : h <= n + 1 => h \in Headings \cup {n + 1}
    BY <1>8, <2>3 DEF ReadTo
  <2>7. \A k \in 1..(n + 1) : module.lines[k] # Blank => \E h \in Headings \cup {n + 1} : h <= k
    <3>1. \A k \in 1..n : module.lines[k] # Blank => \E h \in Headings : h <= k
      BY <2>3 DEF ReadTo
    <3>2. n + 1 <= n + 1
      OBVIOUS
    <3> QED
      BY <1>7, <3>1, <3>2
  <2> QED
    BY <2>2, <2>3, <2>4, <2>5, <2>6, <2>7 DEF ReadTo, l, q
<1>12. CASE r.at = "body" /\ l # SegmentBegin
  <2>1. Pending(n, r) = {} /\ n + 1 \notin Opens /\ Marks(n + 1) % 2 = 0
    BY <1>2, <1>12 DEF Pending, ReadTo
  <2>2. \A h \in Opens : h <= n + 1 => h \in Headings
    BY <1>8, <2>1 DEF ReadTo
  <2>3. ASSUME NEW t \in SpeTypes, Latest(n, t)
        PROVE  Latest(n + 1, t) /\ \E h \in Headings : h <= n + 1
    <3>1. PICK h \in 1..(n - 2) : HeadingAt(h, t) /\ \A j \in (h + 3)..n : module.lines[j] # SegmentBegin
      BY <2>3 DEF Latest
    <3>2. h \in 1..((n + 1) - 2) /\ \A j \in (h + 3)..(n + 1) : j \in (h + 3)..n \/ j = n + 1
      OBVIOUS
    <3> QED
      BY <1>12, <3>1, <3>2, HeadingParts DEF Latest
  <2>4. CASE l = Blank
    <3>1. q = r
      BY <1>12, <2>4 DEF ReadLine
    <3>2. r.type = InvalidType \/ Latest(n + 1, r.type)
      BY <1>6, <1>12, <2>3 DEF ReadTo
    <3>3. r.type = InvalidType => \A k \in 1..(n + 1) : module.lines[k] = Blank
      BY <1>7, <1>12, <2>4 DEF ReadTo
    <3>4. \A t \in SpeTypes : q.profile[t] = NamesTo(n + 1, t)
      BY <1>4, <2>4, <3>1 DEF ReadTo
    <3>5. \A k \in 1..(n + 1) : module.lines[k] # Blank => \E h \in Headings : h <= k
      BY <1>7, <2>1, <2>4 DEF ReadTo
    <3>6. Pending(n + 1, q) = {}
      BY <1>12, <3>1 DEF Pending
    <3> HIDE DEF l, q
    <3> QED
      BY <1>12, <2>1, <2>2, <3>1, <3>2, <3>3, <3>4, <3>5, <3>6 DEF ReadTo, l, q
  <2>5. CASE l # Blank
    <3>1. r.type \in SpeTypes /\ q = [r EXCEPT !.profile[r.type] = @ \cup {l}]
      BY <1>6, <1>12, <2>5 DEF ReadLine, NameRead, Fails
    <3>2. /\ q.at = "body" /\ q.type = r.type /\ Pending(n + 1, q) = {}
          /\ \A t \in SpeTypes : q.profile[t] = IF t = r.type THEN r.profile[t] \cup {l} ELSE r.profile[t]
      BY <1>6, <1>12, <3>1 DEF Readings, Pending
    <3>3. Latest(n, r.type) /\ r.type # InvalidType
      BY <1>5, <1>12, <3>1 DEF ReadTo
    <3>4. \A t \in SpeTypes : Under(n + 1, t) <=> t = r.type
      BY <1>3, <1>12, <3>1, <3>3, LatestOne
    <3>5. \A t \in SpeTypes : q.profile[t] = NamesTo(n + 1, t)
      BY <1>4, <2>5, <3>2, <3>4 DEF ReadTo
    <3>6. \A k \in 1..(n + 1) : module.lines[k] # Blank => \E h \in Headings : h <= k
      BY <1>7, <2>1, <2>3, <3>1, <3>3 DEF ReadTo
    <3>7. Latest(n + 1, r.type)
      BY <2>3, <3>1, <3>3
    <3> HIDE DEF l, q
    <3> QED
      BY <2>1, <2>2, <3>2, <3>3, <3>5, <3>6, <3>7 DEF ReadTo, l, q
  <2> QED
    BY <2>4, <2>5
<1> QED
  BY <1>6, <1>9, <1>10, <1>11, <1>12

\* A line that is refused is none of a file as it is laid out.
LEMMA LineRefused ==
  ASSUME module.lines \in Seq(STRING), NEW n \in Nat, n < Len(module.lines), NEW r \in Readings, ReadTo(n, r),
         ReadLine(r, module.lines[n + 1]).at = "failed"
  PROVE  ~WellFormed
<1> DEFINE l == module.lines[n + 1]
<1>1. n + 1 \in DOMAIN module.lines /\ DOMAIN module.lines = 1..Len(module.lines) /\ Len(module.lines) \in Nat
  BY LinesFacts
<1>2. r.at \in {"body", "type", "end"} /\ r.type \in SpeTypes \cup {InvalidType}
  BY DEF Readings
<1>3. CASE r.at = "type"
  <2>1. l \notin SpeTypes
    <3> SUFFICES ASSUME l \in SpeTypes PROVE FALSE
      OBVIOUS
    <3>1. ReadLine(r, l) = [r EXCEPT !.at = "end", !.type = TypeRead(r, l)]
      BY <1>3 DEF ReadLine
    <3>2. ReadLine(r, l).at = "end"
      BY <3>1 DEF Readings
    <3> QED
      BY <3>2
  <2>2. n \in Opens /\ n \notin Headings
    BY <1>3, <2>1 DEF ReadTo, Pending, Headings, HeadingAt
  <2> QED
    BY <2>2 DEF WellFormed
<1>4. CASE r.at = "end"
  <2>1. l # SegmentEnd
    <3> SUFFICES ASSUME l = SegmentEnd PROVE FALSE
      OBVIOUS
    <3>1. ReadLine(r, l) = [r EXCEPT !.at = "body"]
      BY <1>4 DEF ReadLine
    <3>2. ReadLine(r, l).at = "body"
      BY <3>1 DEF Readings
    <3> QED
      BY <3>2
  <2>2. n - 1 \in Opens /\ (n - 1) + 2 = n + 1
    BY <1>4 DEF ReadTo, Pending
  <2>3. n - 1 \notin Headings
    BY <2>1, <2>2 DEF Headings, HeadingAt
  <2> QED
    BY <2>2, <2>3 DEF WellFormed
<1>5. CASE r.at = "body"
  <2>1. l # Blank /\ l # SegmentBegin /\ r.type = InvalidType
    <3>1. CASE l = Blank
      BY <1>5, <3>1 DEF ReadLine
    <3>2. CASE l # Blank /\ l = SegmentBegin
      <4>1. ReadLine(r, l) = [r EXCEPT !.at = "type"]
        BY <1>5, <3>2 DEF ReadLine
      <4>2. ReadLine(r, l).at = "type"
        BY <4>1 DEF Readings
      <4> QED
        BY <4>2
    <3>3. CASE l # Blank /\ l # SegmentBegin /\ r.type # InvalidType
      <4>1. ReadLine(r, l) = [r EXCEPT !.profile[r.type] = @ \cup {l}]
        BY <1>5, <3>3 DEF ReadLine, NameRead
      <4>2. ReadLine(r, l).at = "body"
        BY <1>5, <4>1 DEF Readings
      <4> QED
        BY <4>2
    <3> QED
      BY <3>1, <3>2, <3>3
  <2>2. \A k \in 1..n : module.lines[k] = Blank
    BY <1>5, <2>1 DEF ReadTo
  <2>3. ASSUME NEW h \in Headings, h <= n + 1 PROVE FALSE
    <3>1. h \in 1..Len(module.lines) /\ module.lines[h] = SegmentBegin
      BY <1>1 DEF Headings, Opens
    <3>2. h \in 1..n
      BY <2>1, <2>3, <3>1
    <3> QED
      BY <2>2, <3>1, <3>2 DEF SegmentBegin, Blank
  <2> QED
    BY <1>1, <2>1, <2>3 DEF WellFormed
<1> QED
  BY <1>2, <1>3, <1>4, <1>5

\* At the end of the file.
LEMMA AllRead ==
  ASSUME module.lines \in Seq(STRING), NEW r \in Readings, ReadTo(Len(module.lines), r)
  PROVE  EndsWell(r) <=> WellFormed
<1> DEFINE n == Len(module.lines)
<1>1. n \in Nat /\ DOMAIN module.lines = 1..n
  BY LinesFacts
<1>2. CASE r.at = "body"
  <2>1. Pending(n, r) = {}
    BY <1>2 DEF Pending
  <2>2. Opens \subseteq Headings
    BY <1>1, <2>1 DEF ReadTo, Opens
  <2> QED
    BY <1>1, <1>2, <2>1, <2>2 DEF ReadTo, WellFormed, EndsWell
<1>3. CASE r.at \in {"type", "end"}
  <2>1. PICK h \in Opens : h \in {n, n - 1}
    BY <1>3 DEF ReadTo, Pending
  <2>2. h \notin Headings
    BY <1>1, <2>1 DEF Headings, HeadingAt
  <2> QED
    BY <1>3, <2>2 DEF WellFormed, EndsWell
<1> QED
  BY <1>2, <1>3 DEF Readings

ReadVarsKept ==
  \/ \E f \in Functions : StartFunction(f)
  \/ WalkStep \/ RateStep
  \/ UNCHANGED vars

\* Until it is read the reader is at a line of it; it then holds all names, or is refused.
ProfileInv ==
  /\ pc = "profile" => reading.at # "failed" /\ ReadTo(line - 1, reading)
  /\ pc = "exit" => ~WellFormed
  /\ pc \notin {"profile", "exit"} =>
       WellFormed /\ \A t \in SpeTypes : profile[t] = NamesTo(Len(module.lines), t)

LEMMA InitProfile ==
  ASSUME Init
  PROVE  ProfileInv
<1>1. IInv
  BY InitTypes
<1>2. module.lines \in Seq(STRING) /\ pc = "profile" /\ line - 1 = 0 /\ reading = EmptyReading
  BY <1>1, ModuleFacts DEF Init, IInv
<1>3. ReadTo(0, EmptyReading)
  BY <1>2, NothingRead
<1>4. EmptyReading.at # "failed"
  BY DEF EmptyReading
<1> QED
  BY <1>2, <1>3, <1>4 DEF ProfileInv

LEMMA ReadingNow ==
  ASSUME IInv, pc = "profile"
  PROVE  /\ module.lines \in Seq(STRING) /\ Len(module.lines) \in Nat /\ line \in 1..(Len(module.lines) + 1)
         /\ reading.at # "failed" => reading \in Readings
<1>1. module.lines \in Seq(STRING) /\ Len(module.lines) \in Nat /\ DOMAIN module.lines = 1..Len(module.lines)
  BY ModuleFacts, LenProperties DEF IInv
<1>2. ToSet(module.lines) \subseteq STRING
  <2>1. \A k \in 1..Len(module.lines) : module.lines[k] \in STRING
    BY <1>1, ElementOfSeq
  <2> QED
    BY <1>1, <2>1 DEF ToSet
<1>3. reading.at # "failed" => reading \in Readings
  BY <1>2 DEF IInv, ReadingInv, Readings
<1> QED
  BY <1>1, <1>3 DEF IInv, TypeOK

LEMMA LayoutKept ==
  ASSUME module' = module
  PROVE  /\ Opens' = Opens /\ Headings' = Headings
         /\ \A n : Marks(n)' = Marks(n)
         /\ \A n, t : NamesTo(n, t)' = NamesTo(n, t)
         /\ \A n, t : Latest(n, t)' <=> Latest(n, t)
<1>1. Opens' = Opens
  BY DEF Opens, Marks
<1>2. Headings' = Headings
  BY DEF Headings, HeadingAt, Opens, Marks
<1>3. \A n : Marks(n)' = Marks(n)
  BY DEF Marks
<1>4. \A n, t : NamesTo(n, t)' = NamesTo(n, t)
  BY DEF NamesTo, Under, HeadingAt, Opens, Marks
<1>5. \A n, t : Latest(n, t)' <=> Latest(n, t)
  BY DEF Latest, HeadingAt, Opens, Marks
<1> QED
  BY <1>1, <1>2, <1>3, <1>4, <1>5

LEMMA ProfileStep ==
  ASSUME IInv, ProfileInv, [Next]_vars
  PROVE  ProfileInv'
<1>1. CASE ReadProfileLine
  <2>1. /\ pc = "profile" /\ line <= Len(module.lines) /\ line' = line + 1 /\ module' = module
        /\ reading' = ReadLine(reading, module.lines[line])
        /\ pc' = IF reading'.at = "failed" THEN "exit" ELSE "profile"
    BY <1>1 DEF ReadProfileLine, inputVars
  <2>2. /\ module.lines \in Seq(STRING) /\ line - 1 \in Nat /\ (line - 1) + 1 = line /\ line - 1 < Len(module.lines)
        /\ reading \in Readings /\ ReadTo(line - 1, reading)
    BY <2>1, ReadingNow DEF ProfileInv
  <2>3. CASE reading'.at = "failed"
    <3>1. ~WellFormed
      BY <2>1, <2>2, <2>3, LineRefused
    <3>2. WellFormed' <=> WellFormed
      BY <2>1 DEF WellFormed, Headings, HeadingAt, Opens, Marks
    <3> QED
      BY <2>1, <2>3, <3>1, <3>2 DEF ProfileInv
  <2>4. CASE reading'.at # "failed"
    <3>1. ReadTo(line, ReadLine(reading, module.lines[line]))
      BY <2>1, <2>2, <2>4, LineTaken
    <3>2. line' - 1 = line
      BY <2>1, <2>2
    <3>3. ReadTo(line - 1, reading)'
      BY <2>1, <3>1, <3>2, LayoutKept, Zenon DEF ReadTo, Pending
    <3> QED
      BY <2>1, <2>4, <3>2, <3>3 DEF ProfileInv
  <2> QED
    BY <2>3, <2>4
<1>2. CASE ProfileDone
  <2>1. /\ pc = "profile" /\ line > Len(module.lines) /\ module' = module /\ reading' = reading
        /\ pc' = IF EndsWell(reading) THEN "next_function" ELSE "exit"
    BY <1>2 DEF ProfileDone, readVars, inputVars
  <2>2. /\ module.lines \in Seq(STRING) /\ line - 1 = Len(module.lines)
        /\ reading \in Readings /\ ReadTo(Len(module.lines), reading)
    BY <2>1, ReadingNow DEF ProfileInv
  <2>3. EndsWell(reading) <=> WellFormed
    BY <2>2, AllRead
  <2>4. \A t \in SpeTypes : profile[t] = NamesTo(Len(module.lines), t)
    BY <2>2 DEF ReadTo, profile
  <2>5. WellFormed' <=> WellFormed
    BY <2>1 DEF WellFormed, Headings, HeadingAt, Opens, Marks
  <2>6. (\A t \in SpeTypes : profile[t] = NamesTo(Len(module.lines), t))' <=>
          (\A t \in SpeTypes : profile[t] = NamesTo(Len(module.lines), t))
    BY <2>1 DEF profile, NamesTo, Under, HeadingAt, Opens, Marks
  <2> QED
    BY <2>1, <2>3, <2>4, <2>5, <2>6 DEF ProfileInv
<1>3. CASE ReadVarsKept
  <2>1. module' = module /\ reading' = reading /\ line' = line
    BY <1>3 DEF ReadVarsKept, StartFunction, WalkStep, RateStep, DropDuplicate, VisitHot, VisitLeaf, VisitCallee,
                SkipVisited, CalledInLoop, PushCaller, SitesDone, WalkDone, AssessInst, AssessSlice, CountRisk,
                FunctionDone, vars, readVars, inputVars
  <2>2. pc' = pc \/ (pc \notin {"profile", "exit"} /\ pc' \notin {"profile", "exit"})
    BY <1>3 DEF ReadVarsKept, StartFunction, WalkStep, RateStep, DropDuplicate, VisitHot, VisitLeaf, VisitCallee,
                SkipVisited, CalledInLoop, PushCaller, SitesDone, WalkDone, AssessInst, AssessSlice, CountRisk,
                FunctionDone, vars
  <2>3. WellFormed' <=> WellFormed
    BY <2>1 DEF WellFormed, Headings, HeadingAt, Opens, Marks
  <2>4. (\A t \in SpeTypes : profile[t] = NamesTo(Len(module.lines), t))' <=>
          (\A t \in SpeTypes : profile[t] = NamesTo(Len(module.lines), t))
    BY <2>1 DEF profile, NamesTo, Under, HeadingAt, Opens, Marks
  <2>5. ReadTo(line - 1, reading)' <=> ReadTo(line - 1, reading)
    BY <2>1 DEF ReadTo, Pending, NamesTo, Under, Latest, Headings, HeadingAt, Opens, Marks
  <2> QED
    BY <2>1, <2>2, <2>3, <2>4, <2>5 DEF ProfileInv
<1> QED
  BY <1>1, <1>2, <1>3, StepSplit DEF ReadVarsKept

-----------------------------------------------------------------------------
(* What static_profile writes *)

\* Entries in an order qsort leaves them in.
IsOrder(N, v, q) ==
  /\ N \in Nat /\ v \in [1..N -> Nat] /\ q \in [1..N -> 1..N]
  /\ \A i1, i2 \in 1..N : i1 # i2 => q[i1] # q[i2]
  /\ \A k \in 1..(N - 1) : v[q[k]] >= v[q[k + 1]]

LEMMA OrderFalls ==
  ASSUME NEW N, NEW v, NEW q, IsOrder(N, v, q), NEW i1 \in 1..N, NEW i2 \in 1..N, i1 <= i2
  PROVE  v[q[i1]] >= v[q[i2]]
<1> DEFINE Bad == {j \in 1..N : i1 <= j /\ v[q[i1]] < v[q[j]]}
<1>1. N \in Nat /\ \A j \in 1..N : q[j] \in 1..N /\ v[q[j]] \in Nat
  BY DEF IsOrder
<1>2. SUFFICES ASSUME Bad # {} PROVE FALSE
  BY <1>1
<1>3. PICK m \in Bad : \A n \in Bad : m <= n
  <2>1. Bad \subseteq Nat
    OBVIOUS
  <2> HIDE DEF Bad
  <2> QED
    BY <1>2, <2>1, LeastNatural
<1>4. m - 1 \in 1..(N - 1) /\ i1 <= m - 1 /\ (m - 1) + 1 = m
  BY <1>1, <1>3
<1>5. v[q[m - 1]] >= v[q[m]]
  BY <1>4 DEF IsOrder
<1>6. m - 1 \in Bad
  BY <1>1, <1>3, <1>4, <1>5
<1> HIDE DEF Bad
<1> QED
  BY <1>3, <1>4, <1>6

LEMMA OrderOnto ==
  ASSUME NEW N, NEW v, NEW q, IsOrder(N, v, q), NEW k \in 1..N
  PROVE  \E n \in 1..N : q[n] = k
<1>1. N \in Nat /\ q \in Injection(1..N, 1..N)
  BY DEF IsOrder, Injection, IsInjective
<1>2. IsFiniteSet(1..N)
  BY <1>1, FS_Interval
<1>3. q \in Surjection(1..N, 1..N)
  BY <1>1, <1>2, FS_Injection
<1> QED
  BY <1>3 DEF Surjection

\* The others that are as large as the k-th entry, and those that are larger.
AsLarge(N, v, k) == {j \in (1..N) \ {k} : v[j] >= v[k]}
Larger(N, v, k) == {j \in 1..N : v[j] > v[k]}

\* An entry is among the first m if fewer than m others are as large, and only
\* if fewer are larger.
LEMMA FirstOfOrder ==
  ASSUME NEW N, NEW v, NEW q, IsOrder(N, v, q), NEW m \in 0..N, NEW k \in 1..N
  PROVE  /\ Cardinality(AsLarge(N, v, k)) < m => \E n \in 1..m : q[n] = k
         /\ (\E n \in 1..m : q[n] = k) => Cardinality(Larger(N, v, k)) < m
<1>1. N \in Nat /\ v \in [1..N -> Nat] /\ q \in [1..N -> 1..N] /\ \A i1, i2 \in 1..N : i1 # i2 => q[i1] # q[i2]
  BY DEF IsOrder
<1>2. PICK n \in 1..N : q[n] = k
  BY OrderOnto
<1>3. IsFiniteSet(1..N)
  BY <1>1, FS_Interval
<1>4. ASSUME Cardinality({j \in (1..N) \ {k} : v[j] >= v[k]}) < m PROVE n <= m
  <2> DEFINE T == {j \in (1..N) \ {k} : v[j] >= v[k]}
  <2>1. SUFFICES ASSUME n > m PROVE FALSE
    BY <1>1
  <2>2. IsFiniteSet(T) /\ Cardinality(T) \in Nat
    BY <1>3, FS_Subset, FS_CardinalityType
  <2>3. IsFiniteSet(1..m) /\ Cardinality(1..m) = m
    BY FS_Interval
  <2>4. ASSUME NEW j \in 1..m PROVE q[j] \in T
    <3>1. j \in 1..N /\ j <= n /\ j # n
      BY <1>1, <2>1
    <3>2. v[q[j]] >= v[q[n]]
      BY <3>1, OrderFalls
    <3> QED
      BY <1>1, <1>2, <3>1, <3>2
  <2> DEFINE f == [j \in 1..m |-> q[j]]
  <2>5. f \in [1..m -> T]
    BY <2>4
  <2>6. \A i1, i2 \in 1..m : f[i1] = f[i2] => i1 = i2
    BY <1>1
  <2>7. Cardinality(T) < Cardinality(1..m)
    BY <1>4, <2>3
  <2> HIDE DEF f, T
  <2>8. \E i1, i2 \in 1..m : i1 # i2 /\ f[i1] = f[i2]
    BY <2>2, <2>3, <2>5, <2>7, FS_PigeonHole
  <2> QED
    BY <2>6, <2>8
<1>5. ASSUME n <= m PROVE Cardinality({j \in 1..N : v[j] > v[k]}) < m
  <2> DEFINE T == {j \in 1..N : v[j] > v[k]}
             S == {q[j] : j \in 1..(n - 1)}
             f == [j \in 1..(n - 1) |-> q[j]]
  <2>1. ASSUME NEW j \in T PROVE j \in S
    <3>1. PICK p \in 1..N : q[p] = j
      BY OrderOnto
    <3>2. p < n
      <4> SUFFICES ASSUME n <= p PROVE FALSE
        BY <1>1, <3>1
      <4>1. v[k] >= v[j]
        BY <1>2, <3>1, OrderFalls
      <4>2. v[k] \in Nat /\ v[j] \in Nat /\ v[j] > v[k]
        BY <1>1
      <4> QED
        BY <4>1, <4>2
    <3>3. p \in 1..(n - 1)
      BY <3>1, <3>2
    <3> QED
      BY <3>1, <3>3
  <2>2. n - 1 \in Nat /\ f \in Surjection(1..(n - 1), S)
    BY DEF Surjection
  <2>3. IsFiniteSet(S) /\ Cardinality(S) <= n - 1
    <3>1. IsFiniteSet(1..(n - 1)) /\ Cardinality(1..(n - 1)) = n - 1
      BY <2>2, FS_Interval
    <3> HIDE DEF f, S
    <3> QED
      BY <2>2, <3>1, FS_Surjection
  <2>4. IsFiniteSet(T) /\ Cardinality(T) <= Cardinality(S)
    <3>1. T \in SUBSET S
      BY <2>1
    <3> HIDE DEF T, S
    <3> QED
      BY <2>3, <3>1, FS_Subset
  <2>5. Cardinality(S) \in Nat /\ Cardinality(T) \in Nat
    BY <2>3, <2>4, FS_CardinalityType
  <2> HIDE DEF T, S
  <2>6. Cardinality(T) < m
    BY <1>5, <2>2, <2>3, <2>4, <2>5
  <2> QED
    BY <2>6 DEF T
<1>6. ASSUME NEW p \in 1..m, q[p] = k PROVE p = n
  <2>1. p \in 1..N
    BY <1>1
  <2> QED
    BY <1>1, <1>2, <1>6, <2>1
<1>7. n <= m => n \in 1..m
  OBVIOUS
<1> QED
  BY <1>2, <1>4, <1>5, <1>6, <1>7 DEF AsLarge, Larger

LEMMA MarksOver ==
  ASSUME NEW k \in Nat, NEW n \in Nat, n <= k, \A j \in (n + 1)..k : module.lines[j] # SegmentBegin
  PROVE  Marks(k) = Marks(n)
<1>1. {j \in 1..k : module.lines[j] = SegmentBegin} = {j \in 1..n : module.lines[j] = SegmentBegin}
  OBVIOUS
<1> QED
  BY <1>1 DEF Marks

\* A file of two segments, by its lines.
Names == STRING \ {SegmentBegin}
TwoSegments(A, B) ==
  LET a == Len(A)
      b == Len(B)
      ls == module.lines
  IN /\ Len(ls) = (6 + a) + b
     /\ ls[1] = SegmentBegin /\ ls[2] = "EXPCALL" /\ ls[3] = SegmentBegin
     /\ \A n \in 1..a : ls[3 + n] = A[n]
     /\ ls[4 + a] = SegmentBegin /\ ls[5 + a] = "FREQCALL" /\ ls[6 + a] = SegmentBegin
     /\ \A n \in 1..b : ls[(6 + a) + n] = B[n]

\* The texts of such a file.
Texts == Names \cup {SegmentBegin, "EXPCALL", "FREQCALL"}

LEMMA ThreeTexts ==
  ASSUME NEW S, NEW x \in S, NEW y \in S
  PROVE  LET s == <<x, y, x>> IN s \in Seq(S) /\ Len(s) = 3 /\ s[1] = x /\ s[2] = y /\ s[3] = x
<1>1. LET s == <<x, y, x>> IN s \in Seq(S)
  OBVIOUS
<1>2. LET s == <<x, y, x>> IN Len(s) = 3 /\ s[1] = x /\ s[2] = y /\ s[3] = x
  OBVIOUS
<1> QED
  BY <1>1, <1>2

LEMMA SegmentLines ==
  ASSUME NEW A \in Seq(Names), NEW t \in Texts
  PROVE  /\ Segment(t, A) \in Seq(Texts) /\ Len(Segment(t, A)) = 3 + Len(A)
         /\ Segment(t, A)[1] = SegmentBegin /\ Segment(t, A)[2] = t /\ Segment(t, A)[3] = SegmentBegin
         /\ \A n \in 1..Len(A) : Segment(t, A)[3 + n] = A[n]
<1> DEFINE h == <<SegmentBegin, t, SegmentBegin>>
<1>1. h \in Seq(Texts) /\ Len(h) = 3 /\ h[1] = SegmentBegin /\ h[2] = t /\ h[3] = SegmentBegin
  <2>1. SegmentBegin \in Texts
    BY DEF Texts
  <2> QED
    BY <2>1, ThreeTexts
<1>2. A \in Seq(Texts) /\ Len(A) \in Nat
  BY LenProperties DEF Texts
<1>3. Segment(t, A) = h \o A
  BY DEF Segment, SegmentEnd
<1> HIDE DEF h
<1>4. /\ h \o A \in Seq(Texts) /\ Len(h \o A) = Len(h) + Len(A)
      /\ \A n \in 1..(Len(h) + Len(A)) : (h \o A)[n] = IF n <= Len(h) THEN h[n] ELSE A[n - Len(h)]
  BY <1>1, <1>2, ConcatProperties
<1>5. \A n \in 1..Len(A) : 3 + n \in 1..(Len(h) + Len(A)) /\ ~(3 + n <= Len(h)) /\ (3 + n) - Len(h) = n
  BY <1>1, <1>2
<1>6. \A n \in {1, 2, 3} : n \in 1..(Len(h) + Len(A)) /\ n <= Len(h)
  BY <1>1, <1>2
<1> QED
  BY <1>1, <1>3, <1>4, <1>5, <1>6

LEMMA SegmentsLines ==
  ASSUME NEW A \in Seq(Names), NEW B \in Seq(Names), module.lines = Segment("EXPCALL", A) \o Segment("FREQCALL", B)
  PROVE  TwoSegments(A, B)
<1> DEFINE S == Segment("EXPCALL", A)
           T == Segment("FREQCALL", B)
<1>1. Len(A) \in Nat /\ Len(B) \in Nat
  BY LenProperties
<1>2. /\ S \in Seq(Texts) /\ Len(S) = 3 + Len(A)
      /\ S[1] = SegmentBegin /\ S[2] = "EXPCALL" /\ S[3] = SegmentBegin
      /\ \A n \in 1..Len(A) : S[3 + n] = A[n]
  <2>1. "EXPCALL" \in Texts
    BY DEF Texts
  <2> QED
    BY <2>1, SegmentLines
<1>3. /\ T \in Seq(Texts) /\ Len(T) = 3 + Len(B)
      /\ T[1] = SegmentBegin /\ T[2] = "FREQCALL" /\ T[3] = SegmentBegin
      /\ \A n \in 1..Len(B) : T[3 + n] = B[n]
  <2>1. "FREQCALL" \in Texts
    BY DEF Texts
  <2> QED
    BY <2>1, SegmentLines
<1> HIDE DEF S, T
<1>4. /\ Len(S \o T) = Len(S) + Len(T)
      /\ \A n \in 1..(Len(S) + Len(T)) : (S \o T)[n] = IF n <= Len(S) THEN S[n] ELSE T[n - Len(S)]
  <2>1. S \in Seq(Texts) /\ T \in Seq(Texts)
    BY <1>2, <1>3
  <2> QED
    BY <2>1, ConcatProperties
<1>5. \A n \in 1..(3 + Len(A)) : (S \o T)[n] = S[n]
  BY <1>1, <1>2, <1>3, <1>4
<1>6. \A n \in 1..(3 + Len(B)) : (S \o T)[(3 + Len(A)) + n] = T[n]
  <2> TAKE n \in 1..(3 + Len(B))
  <2> DEFINE k == (3 + Len(A)) + n
  <2>1. k \in 1..(Len(S) + Len(T)) /\ ~(k <= Len(S)) /\ k - Len(S) = n
    BY <1>1, <1>2, <1>3
  <2> HIDE DEF k
  <2>2. (S \o T)[k] = T[n]
    BY <1>4, <2>1
  <2> QED
    BY <2>2 DEF k
<1>7. module.lines = S \o T
  BY DEF S, T
<1>8. /\ \A n \in {1, 2, 3} : module.lines[n] = S[n]
      /\ \A n \in 1..Len(A) : module.lines[3 + n] = S[3 + n]
  <2>1. \A n \in {1, 2, 3} : n \in 1..(3 + Len(A))
    BY <1>1
  <2>2. \A n \in 1..Len(A) : 3 + n \in 1..(3 + Len(A))
    BY <1>1
  <2> QED
    BY <1>5, <1>7, <2>1, <2>2
<1>9. /\ module.lines[4 + Len(A)] = T[1] /\ module.lines[5 + Len(A)] = T[2] /\ module.lines[6 + Len(A)] = T[3]
      /\ \A n \in 1..Len(B) : module.lines[(6 + Len(A)) + n] = T[3 + n]
  <2>1. \A n \in {1, 2, 3} : n \in 1..(3 + Len(B))
    BY <1>1
  <2>2. \A n \in 1..Len(B) : 3 + n \in 1..(3 + Len(B)) /\ (3 + Len(A)) + (3 + n) = (6 + Len(A)) + n
    BY <1>1
  <2>3. (3 + Len(A)) + 1 = 4 + Len(A) /\ (3 + Len(A)) + 2 = 5 + Len(A) /\ (3 + Len(A)) + 3 = 6 + Len(A)
    BY <1>1
  <2> QED
    BY <1>6, <1>7, <2>1, <2>2, <2>3
<1>10. Len(module.lines) = (6 + Len(A)) + Len(B)
  <2>1. Len(S \o T) = (3 + Len(A)) + (3 + Len(B))
    BY <1>2, <1>3, <1>4
  <2>2. (3 + Len(A)) + (3 + Len(B)) = (6 + Len(A)) + Len(B)
    BY <1>1
  <2> QED
    BY <1>7, <2>1, <2>2
<1> QED
  BY <1>2, <1>3, <1>8, <1>9, <1>10 DEF TwoSegments

\* Its headings are the two, and the names stand under them.
LEMMA SegmentsRead ==
  ASSUME NEW A \in Seq(Names), NEW B \in Seq(Names), TwoSegments(A, B), module.lines \in Seq(STRING)
  PROVE  /\ NamesTo(Len(module.lines), "EXPCALL") = {A[n] : n \in 1..Len(A)} \ {Blank}
         /\ NamesTo(Len(module.lines), "FREQCALL") = {B[n] : n \in 1..Len(B)} \ {Blank}
<1> DEFINE ls == module.lines
<1>1. PICK a \in Nat, b \in Nat : a = Len(A) /\ b = Len(B)
  BY LenProperties
<1>2. (\A n \in 1..a : A[n] # SegmentBegin) /\ (\A n \in 1..b : B[n] # SegmentBegin)
  BY <1>1, ElementOfSeq DEF Names
<1>3. /\ Len(ls) = (6 + a) + b
      /\ ls[1] = SegmentBegin /\ ls[2] = "EXPCALL" /\ ls[3] = SegmentBegin
      /\ \A n \in 1..a : ls[3 + n] = A[n]
      /\ ls[4 + a] = SegmentBegin /\ ls[5 + a] = "FREQCALL" /\ ls[6 + a] = SegmentBegin
      /\ \A n \in 1..b : ls[(6 + a) + n] = B[n]
  BY <1>1 DEF TwoSegments
<1>4. DOMAIN ls = 1..((6 + a) + b)
  BY <1>3, LinesFacts
<1>5. \A k \in 4..(3 + a) : k - 3 \in 1..a /\ ls[k] = A[k - 3] /\ ls[k] # SegmentBegin
  <2> TAKE k \in 4..(3 + a)
  <2>1. k - 3 \in 1..a /\ 3 + (k - 3) = k
    OBVIOUS
  <2>2. ls[3 + (k - 3)] = A[k - 3]
    BY <1>3, <2>1
  <2> QED
    BY <1>2, <2>1, <2>2
<1>6. \A k \in (7 + a)..((6 + a) + b) : k - (6 + a) \in 1..b /\ ls[k] = B[k - (6 + a)] /\ ls[k] # SegmentBegin
  <2> TAKE k \in (7 + a)..((6 + a) + b)
  <2>1. k - (6 + a) \in 1..b /\ (6 + a) + (k - (6 + a)) = k
    OBVIOUS
  <2>2. ls[(6 + a) + (k - (6 + a))] = B[k - (6 + a)]
    BY <1>3, <2>1
  <2> QED
    BY <1>2, <2>1, <2>2
<1>7. "EXPCALL" # SegmentBegin /\ "FREQCALL" # SegmentBegin
  BY DEF SegmentBegin
<1>8. Marks(1) = 1 /\ Marks(3) = 2
  <2>1. Marks(0) = 0
    BY MarksStep
  <2>2. Marks(0 + 1) = Marks(0) + 1
    <3>1. 0 \in Nat /\ 0 + 1 = 1
      OBVIOUS
    <3> QED
      BY <1>3, <3>1, MarksStep
  <2>3. Marks(2) = Marks(1)
    <3>1. \A j \in (1 + 1)..2 : j = 2
      OBVIOUS
    <3>2. \A j \in (1 + 1)..2 : ls[j] # SegmentBegin
      BY <1>3, <1>7, <3>1
    <3> HIDE DEF ls
    <3> QED
      BY <3>2, MarksOver DEF ls
  <2>4. Marks(2 + 1) = Marks(2) + 1
    <3>1. 2 \in Nat /\ 2 + 1 = 3
      OBVIOUS
    <3> QED
      BY <1>3, <3>1, MarksStep
  <2> QED
    BY <2>1, <2>2, <2>3, <2>4
<1>9. Marks(4 + a) = 3
  <2>1. Marks(3 + a) = Marks(3)
    <3>1. \A j \in (3 + 1)..(3 + a) : module.lines[j] # SegmentBegin
      BY <1>5
    <3>2. 3 \in Nat /\ 3 + a \in Nat /\ 3 <= 3 + a
      OBVIOUS
    <3> QED
      BY <3>1, <3>2, MarksOver
  <2>2. Marks((3 + a) + 1) = Marks(3 + a) + 1
    <3>1. 3 + a \in Nat /\ (3 + a) + 1 = 4 + a
      OBVIOUS
    <3> QED
      BY <1>3, <3>1, MarksStep
  <2>3. (3 + a) + 1 = 4 + a
    OBVIOUS
  <2> QED
    BY <1>8, <2>1, <2>2, <2>3
<1>10. Marks(6 + a) = 4
  <2>1. Marks(5 + a) = Marks(4 + a)
    <3>1. \A j \in ((4 + a) + 1)..(5 + a) : j = 5 + a
      OBVIOUS
    <3>2. \A j \in ((4 + a) + 1)..(5 + a) : module.lines[j] # SegmentBegin
      BY <1>3, <1>7, <3>1
    <3>3. 4 + a \in Nat /\ 5 + a \in Nat /\ 4 + a <= 5 + a
      OBVIOUS
    <3> QED
      BY <3>2, <3>3, MarksOver
  <2>2. Marks((5 + a) + 1) = Marks(5 + a) + 1
    <3>1. 5 + a \in Nat /\ (5 + a) + 1 = 6 + a
      OBVIOUS
    <3> QED
      BY <1>3, <3>1, MarksStep
  <2>3. (5 + a) + 1 = 6 + a
    OBVIOUS
  <2> QED
    BY <1>9, <2>1, <2>2, <2>3
<1>11. ASSUME NEW k \in DOMAIN ls, ls[k] = SegmentBegin
       PROVE  k \in {1, 3, 4 + a, 6 + a}
  <2>1. \/ k \in {1, 2, 3} \/ k \in 4..(3 + a) \/ k \in {4 + a, 5 + a, 6 + a}
        \/ k \in (7 + a)..((6 + a) + b)
    BY <1>4
  <2>2. k # 2 /\ k # 5 + a
    BY <1>3, <1>7, <1>11
  <2>3. k \notin 4..(3 + a) /\ k \notin (7 + a)..((6 + a) + b)
    BY <1>5, <1>6, <1>11
  <2> QED
    BY <2>1, <2>2, <2>3
<1>12. Opens = {1, 4 + a}
  <2>1. 1 \in Opens /\ 4 + a \in Opens
    BY <1>3, <1>4, <1>8, <1>9 DEF Opens
  <2>2. 3 \notin Opens /\ 6 + a \notin Opens
    BY <1>8, <1>10 DEF Opens
  <2>3. \A k \in Opens : k \in {1, 3, 4 + a, 6 + a}
    BY <1>11 DEF Opens
  <2> QED
    BY <2>1, <2>2, <2>3
<1>13. \A h : HeadingAt(h, "EXPCALL") <=> h = 1
  <2>1. 1 + 1 = 2 /\ 1 + 2 = 3 /\ (4 + a) + 1 = 5 + a
    OBVIOUS
  <2>2. "FREQCALL" # "EXPCALL"
    OBVIOUS
  <2>3. HeadingAt(1, "EXPCALL")
    BY <1>3, <1>12, <2>1 DEF HeadingAt, SegmentEnd
  <2>4. ~HeadingAt(4 + a, "EXPCALL")
    BY <1>3, <2>1, <2>2 DEF HeadingAt
  <2> QED
    BY <1>12, <2>3, <2>4 DEF HeadingAt
<1>14. \A h : HeadingAt(h, "FREQCALL") <=> h = 4 + a
  <2>1. 1 + 1 = 2 /\ (4 + a) + 1 = 5 + a /\ (4 + a) + 2 = 6 + a /\ 6 + a <= (6 + a) + b
    OBVIOUS
  <2>2. "FREQCALL" # "EXPCALL"
    OBVIOUS
  <2>3. HeadingAt(4 + a, "FREQCALL")
    BY <1>3, <1>12, <2>1 DEF HeadingAt, SegmentEnd
  <2>4. ~HeadingAt(1, "FREQCALL")
    BY <1>3, <2>1, <2>2 DEF HeadingAt
  <2> QED
    BY <1>12, <2>3, <2>4 DEF HeadingAt
<1>15. ASSUME NEW k \in 1..((6 + a) + b)
       PROVE  /\ Under(k, "EXPCALL") <=> k \in 4..(3 + a)
              /\ Under(k, "FREQCALL") <=> k \in (7 + a)..((6 + a) + b)
  <2>1. ASSUME k \in 4..(3 + a) PROVE Under(k, "EXPCALL")
    <3>1. 1 \in 1..(k - 3) /\ \A j \in (1 + 3)..k : j \in 4..(3 + a)
      BY <2>1
    <3> QED
      BY <1>5, <1>13, <3>1 DEF Under
  <2>2. ASSUME Under(k, "EXPCALL") PROVE k \in 4..(3 + a)
    <3>1. 1 \in 1..(k - 3) /\ \A j \in (1 + 3)..k : ls[j] # SegmentBegin
      BY <1>13, <2>2 DEF Under
    <3>2. 4 + a \notin (1 + 3)..k
      BY <1>3, <3>1
    <3> QED
      BY <3>1, <3>2
  <2>3. ASSUME k \in (7 + a)..((6 + a) + b) PROVE Under(k, "FREQCALL")
    <3>1. 4 + a \in 1..(k - 3) /\ \A j \in ((4 + a) + 3)..k : j \in (7 + a)..((6 + a) + b)
      BY <2>3
    <3> QED
      BY <1>6, <1>14, <3>1 DEF Under
  <2>4. ASSUME Under(k, "FREQCALL") PROVE k \in (7 + a)..((6 + a) + b)
    <3>1. 4 + a \in 1..(k - 3)
      BY <1>14, <2>4 DEF Under
    <3> QED
      BY <3>1
  <2> QED
    BY <2>1, <2>2, <2>3, <2>4
<1>16. NamesTo(Len(ls), "EXPCALL") = {A[n] : n \in 1..a} \ {Blank}
  <2>1. NamesTo(Len(ls), "EXPCALL") = {ls[k] : k \in {j \in 4..(3 + a) : ls[j] # Blank}}
    <3>1. {j \in 1..Len(ls) : ls[j] # Blank /\ Under(j, "EXPCALL")} = {j \in 4..(3 + a) : ls[j] # Blank}
      <4>1. \A j \in 4..(3 + a) : j \in 1..((6 + a) + b)
        OBVIOUS
      <4> QED
        BY <1>3, <1>15, <4>1
    <3> QED
      BY <3>1 DEF NamesTo
  <2>2. \A n \in 1..a : 3 + n \in 4..(3 + a) /\ ls[3 + n] = A[n]
    <3>1. \A n \in 1..a : 3 + n \in 4..(3 + a)
      OBVIOUS
    <3> QED
      BY <1>3, <3>1
  <2>3. \A k \in 4..(3 + a) : \E n \in 1..a : n = k - 3 /\ ls[k] = A[n]
    BY <1>5
  <2>4. NamesTo(Len(ls), "EXPCALL") \subseteq {A[n] : n \in 1..a} \ {Blank}
    BY <2>1, <2>3
  <2>5. {A[n] : n \in 1..a} \ {Blank} \subseteq NamesTo(Len(ls), "EXPCALL")
    BY <2>1, <2>2
  <2> QED
    BY <2>4, <2>5
<1>17. NamesTo(Len(ls), "FREQCALL") = {B[n] : n \in 1..b} \ {Blank}
  <2>1. NamesTo(Len(ls), "FREQCALL") = {ls[k] : k \in {j \in (7 + a)..((6 + a) + b) : ls[j] # Blank}}
    <3>1. {j \in 1..Len(ls) : ls[j] # Blank /\ Under(j, "FREQCALL")} = {j \in (7 + a)..((6 + a) + b) : ls[j] # Blank}
      <4>1. \A j \in (7 + a)..((6 + a) + b) : j \in 1..((6 + a) + b)
        OBVIOUS
      <4> QED
        BY <1>3, <1>15, <4>1
    <3> QED
      BY <3>1 DEF NamesTo
  <2>2. \A n \in 1..b : (6 + a) + n \in (7 + a)..((6 + a) + b) /\ ls[(6 + a) + n] = B[n]
    <3>1. \A n \in 1..b : (6 + a) + n \in (7 + a)..((6 + a) + b)
      OBVIOUS
    <3> QED
      BY <1>3, <3>1
  <2>3. \A k \in (7 + a)..((6 + a) + b) : \E n \in 1..b : n = k - (6 + a) /\ ls[k] = B[n]
    BY <1>6
  <2>4. NamesTo(Len(ls), "FREQCALL") \subseteq {B[n] : n \in 1..b} \ {Blank}
    BY <2>1, <2>3
  <2>5. {B[n] : n \in 1..b} \ {Blank} \subseteq NamesTo(Len(ls), "FREQCALL")
    BY <2>1, <2>2
  <2> QED
    BY <2>4, <2>5
<1> QED
  BY <1>1, <1>16, <1>17
LEMMA SeqOfMap ==
  ASSUME NEW S, NEW N \in Nat, NEW s \in [1..N -> S]
  PROVE  s \in Seq(S) /\ Len(s) = N /\ DOMAIN s = 1..N
OBVIOUS

LEMMA IntervalSize ==
  ASSUME NEW N \in Nat
  PROVE  Cardinality(1..N) = N
BY FS_Interval

\* What qsort is given, and what it leaves of it.
ToRank(N, nm, v) == [k \in 1..N |-> [name |-> nm[k], value |-> v[k]]]

\* The entries c are those of the values v, in the order q.
IsRanked(N, nm, v, c, q) == IsOrder(N, v, q) /\ Len(c) = N /\ \A k \in 1..N : c[k].name = nm[q[k]]

LEMMA RankedIs ==
  ASSUME NEW N \in Nat, NEW v \in [1..N -> Nat], NEW nm \in [1..N -> Names],
         NEW c \in Ranked(ToRank(N, nm, v))
  PROVE  \E q : IsRanked(N, nm, v, c, q)
<1> DEFINE E == [name : Names, value : Nat]
           e == ToRank(N, nm, v)
<1>1. e \in [1..N -> E] /\ \A k \in 1..N : e[k].name = nm[k] /\ e[k].value = v[k]
  BY DEF ToRank
<1> HIDE DEF e, E
<1>2. Len(e) = N /\ DOMAIN e = 1..N
  BY <1>1, SeqOfMap
<1>3. PICK q \in {p \in SetToSeqs(1..N) : \A k \in 1..(N - 1) : LargerFirst(e[p[k]], e[p[k + 1]])} :
        c = [k \in 1..N |-> e[q[k]]]
  BY <1>2 DEF Ranked, e
<1>4. Cardinality(1..N) = N
  BY IntervalSize
<1>5. q \in [1..N -> 1..N] /\ \A i1, i2 \in 1..N : i1 # i2 => q[i1] # q[i2]
  BY <1>3, <1>4 DEF SetToSeqs
<1>6. \A k \in 1..(N - 1) : v[q[k]] >= v[q[k + 1]]
  <2> TAKE k \in 1..(N - 1)
  <2>1. k \in 1..N /\ k + 1 \in 1..N
    OBVIOUS
  <2>2. q[k] \in 1..N /\ q[k + 1] \in 1..N
    BY <1>5, <2>1
  <2>3. e[q[k]].value >= e[q[k + 1]].value
    BY <1>3 DEF LargerFirst
  <2> QED
    BY <1>1, <2>2, <2>3
<1>7. c \in [1..N -> E] /\ \A k \in 1..N : c[k].name = nm[q[k]]
  BY <1>1, <1>3, <1>5
<1>8. Len(c) = N
  BY <1>7, SeqOfMap
<1> QED
  BY <1>5, <1>6, <1>7, <1>8 DEF IsOrder, IsRanked

\* How many entries are taken.
Taken(N, topk) == IF topk > 0 THEN topk ELSE N

\* The names of s are those of the first entries in the order q.
AreFirst(s, N, nm, q, topk) == {s[n] : n \in 1..Len(s)} = {nm[q[n]] : n \in 1..Taken(N, topk)}

LEMMA TopNamesIs ==
  ASSUME NEW N \in Nat, NEW v, NEW nm \in [1..N -> Names], NEW q, NEW c, IsRanked(N, nm, v, c, q),
         NEW topk \in Int, topk <= N
  PROVE  \E A \in Seq(Names) : A = TopNames(c, topk) /\ AreFirst(A, N, nm, q, topk)
<1>1. Taken(N, topk) \in Nat /\ \A n \in 1..Taken(N, topk) : n \in 1..N
  BY DEF Taken
<1>2. PICK m \in Nat : m = Taken(N, topk)
  BY <1>1
<1>3. q \in [1..N -> 1..N] /\ Len(c) = N /\ \A k \in 1..N : c[k].name = nm[q[k]]
  BY DEF IsOrder, IsRanked
<1>4. TopNames(c, topk) = [n \in 1..m |-> nm[q[n]]]
  BY <1>1, <1>2, <1>3 DEF TopNames, Taken
<1>5. TopNames(c, topk) \in [1..m -> Names]
  BY <1>1, <1>2, <1>3, <1>4
<1>6. TopNames(c, topk) \in Seq(Names) /\ Len(TopNames(c, topk)) = m
  BY <1>5, SeqOfMap
<1> QED
  BY <1>2, <1>4, <1>6 DEF AreFirst

\* The names of the entries that are taken.
TopOf(N, funcs, q, topk) == {funcs[q[n]].name : n \in 1..Taken(N, topk)} \ {Blank}

\* They are the names of the largest.
LEMMA TopListed ==
  ASSUME NEW N \in Nat, NEW funcs, DOMAIN funcs = 1..N, NEW v, NEW q, IsOrder(N, v, q),
         \A j, k \in 1..N : funcs[j].name = funcs[k].name => j = k \/ funcs[j].name = Blank,
         NEW topk \in Int, topk <= N
  PROVE  ListsTop(TopOf(N, funcs, q, topk), funcs, v, topk)
<1> DEFINE names == TopOf(N, funcs, q, topk)
<1>1. q \in [1..N -> 1..N]
  BY DEF IsOrder
<1>2. ASSUME NEW k \in 1..N, funcs[k].name # Blank
      PROVE  funcs[k].name \in names <=> \E n \in 1..Taken(N, topk) : q[n] = k
  <2>1. \A n \in 1..Taken(N, topk) : n \in 1..N
    BY DEF Taken
  <2>2. \A n \in 1..Taken(N, topk) : q[n] \in 1..N
    BY <1>1, <2>1
  <2>3. \A n \in 1..Taken(N, topk) : funcs[q[n]].name = funcs[k].name <=> q[n] = k
    BY <1>2, <2>2
  <2> QED
    BY <1>2, <2>3 DEF TopOf
<1> HIDE DEF names
<1>3. CASE topk <= 0
  <2>1. Taken(N, topk) = N
    BY <1>3 DEF Taken
  <2>2. \A k \in 1..N : funcs[k].name # Blank => funcs[k].name \in names
    <3> TAKE k \in 1..N
    <3>1. \E n \in 1..N : q[n] = k
      BY OrderOnto
    <3> QED
      BY <1>2, <2>1, <3>1
  <2> QED
    BY <1>3, <2>2 DEF ListsTop, names
<1>4. CASE topk > 0
  <2>1. Taken(N, topk) = topk /\ topk \in 0..N
    BY <1>4 DEF Taken
  <2>2. ASSUME NEW k \in 1..N, funcs[k].name # Blank
        PROVE  /\ Cardinality({j \in (1..N) \ {k} : v[j] >= v[k]}) < topk => funcs[k].name \in names
               /\ funcs[k].name \in names => Cardinality({j \in 1..N : v[j] > v[k]}) < topk
    <3>1. funcs[k].name \in names <=> \E n \in 1..topk : q[n] = k
      BY <1>2, <2>1, <2>2
    <3>2. /\ Cardinality(AsLarge(N, v, k)) < topk => \E n \in 1..topk : q[n] = k
          /\ (\E n \in 1..topk : q[n] = k) => Cardinality(Larger(N, v, k)) < topk
      <4>1. topk \in 0..N
        BY <2>1
      <4> QED
        BY <4>1, FirstOfOrder, Zenon
    <3> QED
      BY <3>1, <3>2 DEF AsLarge, Larger
  <2>3. ~(topk <= 0)
    BY <1>4
  <2> QED
    BY <2>2, <2>3 DEF ListsTop, names
<1> QED
  BY <1>3, <1>4

LEMMA WrittenFrom ==
  ASSUME NEW funcs, NEW m, NEW n, NEW file \in StaticProfiles(funcs, m, n)
  PROVE  \E c \in Ranked(Costs(funcs)), h \in Ranked(Hots(funcs)) : file = Written(c, h, m, n)
BY SMT DEF StaticProfiles

\* A profile of the program's own lists the functions it ranked first.
LEMMA WrittenListed ==
  ASSUME module.lines \in Seq(STRING), NEW s, NEW r, IsRanking(r, s),
         module.lines \in StaticProfiles(r.funcs, r.topkCost, r.topkHot)
  PROVE  /\ ListsTop(NamesTo(Len(module.lines), "EXPCALL"), r.funcs, [k \in DOMAIN r.funcs |-> r.funcs[k].cost], r.topkCost)
         /\ ListsTop(NamesTo(Len(module.lines), "FREQCALL"), r.funcs, [k \in DOMAIN r.funcs |-> r.funcs[k].calls], r.topkHot)
<1>0. PICK funcs : funcs = r.funcs
  OBVIOUS
<1>1. PICK N \in Nat :
        /\ funcs = r.funcs /\ N = Len(funcs) /\ DOMAIN funcs = 1..N
        /\ \A k \in 1..N : funcs[k].name \in Names /\ funcs[k].cost \in Nat /\ funcs[k].calls \in Nat
  <2>1. r.funcs \in Seq([name : Names, cost : Counts, calls : Counts])
    BY DEF IsRanking, Names
  <2>2. Len(r.funcs) \in Nat /\ DOMAIN r.funcs = 1..Len(r.funcs)
    BY <2>1, LenProperties
  <2>3. \A k \in 1..Len(r.funcs) : r.funcs[k] \in [name : Names, cost : Counts, calls : Counts]
    BY <2>1, ElementOfSeq
  <2>4. \A k \in 1..Len(r.funcs) : r.funcs[k].name \in Names /\ r.funcs[k].cost \in Nat /\ r.funcs[k].calls \in Nat
    <3> TAKE k \in 1..Len(r.funcs)
    <3>1. r.funcs[k].name \in Names /\ r.funcs[k].cost \in Counts /\ r.funcs[k].calls \in Counts
      BY <2>3
    <3> QED
      BY <3>1 DEF Counts
  <2> QED
    BY <1>0, <2>2, <2>4
<1>2. /\ \A j, k \in 1..N : funcs[j].name = funcs[k].name => j = k \/ funcs[j].name = Blank
      /\ r.topkCost \in Int /\ r.topkCost <= N /\ r.topkHot \in Int /\ r.topkHot <= N
  BY <1>1 DEF IsRanking
<1>3. PICK nm \in [1..N -> Names], cost \in [1..N -> Nat], calls \in [1..N -> Nat] :
        /\ nm = [k \in 1..N |-> funcs[k].name]
        /\ cost = [k \in 1..N |-> funcs[k].cost] /\ calls = [k \in 1..N |-> funcs[k].calls]
  BY <1>1
<1>4. PICK c \in Ranked(Costs(r.funcs)), h \in Ranked(Hots(r.funcs)) :
        module.lines = Written(c, h, r.topkCost, r.topkHot)
  BY WrittenFrom
<1>5. PICK q : IsRanked(N, nm, cost, c, q)
  <2>1. Costs(r.funcs) = ToRank(N, nm, cost)
    BY <1>1, <1>3 DEF ToRank, Costs
  <2>2. c \in Ranked(ToRank(N, nm, cost)) /\ N \in Nat /\ nm \in [1..N -> Names] /\ cost \in [1..N -> Nat]
    BY <1>1, <1>3, <1>4, <2>1, Zenon
  <2> QED
    BY <2>2, RankedIs
<1>6. PICK p : IsRanked(N, nm, calls, h, p)
  <2>1. Hots(r.funcs) = ToRank(N, nm, calls)
    BY <1>1, <1>3 DEF ToRank, Hots
  <2>2. h \in Ranked(ToRank(N, nm, calls)) /\ N \in Nat /\ nm \in [1..N -> Names] /\ calls \in [1..N -> Nat]
    BY <1>1, <1>3, <1>4, <2>1, Zenon
  <2> QED
    BY <2>2, RankedIs
<1>7. PICK A \in Seq(Names), B \in Seq(Names) :
        /\ A = TopNames(c, r.topkCost) /\ AreFirst(A, N, nm, q, r.topkCost)
        /\ B = TopNames(h, r.topkHot) /\ AreFirst(B, N, nm, p, r.topkHot)
  <2>1. N \in Nat /\ nm \in [1..N -> Names]
    BY <1>1, <1>3, Zenon
  <2>2. PICK A \in Seq(Names) :
          A = TopNames(c, r.topkCost) /\ AreFirst(A, N, nm, q, r.topkCost)
    BY <1>2, <1>5, <2>1, TopNamesIs, Zenon
  <2>3. PICK B \in Seq(Names) :
          B = TopNames(h, r.topkHot) /\ AreFirst(B, N, nm, p, r.topkHot)
    BY <1>2, <1>6, <2>1, TopNamesIs, Zenon
  <2> QED
    BY <2>2, <2>3
<1>8. /\ NamesTo(Len(module.lines), "EXPCALL") = {A[n] : n \in 1..Len(A)} \ {Blank}
      /\ NamesTo(Len(module.lines), "FREQCALL") = {B[n] : n \in 1..Len(B)} \ {Blank}
  <2>1. TwoSegments(A, B)
    BY <1>4, <1>7, SegmentsLines, Zenon DEF Written
  <2> QED
    BY <2>1, SegmentsRead, Zenon
<1>9. ASSUME NEW topk \in Int, topk <= N, NEW o, o \in [1..N -> 1..N]
      PROVE  {nm[o[n]] : n \in 1..Taken(N, topk)} \ {Blank} = TopOf(N, funcs, o, topk)
  <2>1. \A n \in 1..Taken(N, topk) : n \in 1..N
    BY <1>9 DEF Taken
  <2>2. \A n \in 1..Taken(N, topk) : nm[o[n]] = funcs[o[n]].name
    BY <1>3, <1>9, <2>1
  <2> QED
    BY <2>2 DEF TopOf
<1>10. /\ NamesTo(Len(module.lines), "EXPCALL") = TopOf(N, funcs, q, r.topkCost)
       /\ NamesTo(Len(module.lines), "FREQCALL") = TopOf(N, funcs, p, r.topkHot)
  <2>1. q \in [1..N -> 1..N] /\ p \in [1..N -> 1..N]
    BY <1>5, <1>6 DEF IsRanked, IsOrder
  <2>2. /\ {nm[q[n]] : n \in 1..Taken(N, r.topkCost)} \ {Blank} = TopOf(N, funcs, q, r.topkCost)
        /\ {nm[p[n]] : n \in 1..Taken(N, r.topkHot)} \ {Blank} = TopOf(N, funcs, p, r.topkHot)
    BY <1>2, <1>9, <2>1
  <2> QED
    BY <1>7, <1>8, <2>2, Zenon DEF AreFirst
<1>11. ListsTop(TopOf(N, funcs, q, r.topkCost), funcs, cost, r.topkCost)
  BY <1>1, <1>2, <1>5, TopListed, Zenon DEF IsRanked
<1>12. ListsTop(TopOf(N, funcs, p, r.topkHot), funcs, calls, r.topkHot)
  BY <1>1, <1>2, <1>6, TopListed, Zenon DEF IsRanked
<1>13. /\ cost = [k \in DOMAIN r.funcs |-> r.funcs[k].cost]
       /\ calls = [k \in DOMAIN r.funcs |-> r.funcs[k].calls]
  BY <1>1, <1>3
<1> QED
  BY <1>1, <1>10, <1>11, <1>12, <1>13, Zenon

\* The names gathered line by line are those that a line below a heading gives.
LEMMA NamesListed ==
  ASSUME module.lines \in Seq(STRING), NEW t
  PROVE  \A f : f \in NamesTo(Len(module.lines), t) <=> Listed(f, t)
<1>1. DOMAIN module.lines = 1..Len(module.lines)
  BY LinesFacts
<1> QED
  BY <1>1 DEF NamesTo, Listed

LEMMA ProfileHolds ==
  ASSUME IInv, ProfileInv
  PROVE  ProfileExact
<1>1. SUFFICES ASSUME pc = "next_function" PROVE ProfileExact
  BY DEF ProfileInv, ProfileExact
<1>2. /\ module.lines \in Seq(STRING) /\ module \in Modules /\ DOMAIN module.lines = 1..Len(module.lines)
  BY ModuleFacts, LinesFacts DEF IInv, InputsInv
<1>3. WellFormed /\ \A t \in SpeTypes : profile[t] = NamesTo(Len(module.lines), t)
  BY <1>1 DEF ProfileInv
<1>4. ASSUME NEW t \in SpeTypes
      PROVE  profile[t] = {f \in ToSet(module.lines) : Listed(f, t)}
  <2>1. \A f : f \in NamesTo(Len(module.lines), t) <=> Listed(f, t)
    BY <1>2, NamesListed
  <2>2. \A f : Listed(f, t) => f \in ToSet(module.lines)
    BY DEF Listed, ToSet
  <2> QED
    BY <1>3, <2>1, <2>2
<1>5. ASSUME NEW r \in module.ranked
      PROVE  /\ ListsTop(profile["EXPCALL"], r.funcs, [k \in DOMAIN r.funcs |-> r.funcs[k].cost], r.topkCost)
             /\ ListsTop(profile["FREQCALL"], r.funcs, [k \in DOMAIN r.funcs |-> r.funcs[k].calls], r.topkHot)
  <2>1. IsRanking(r, module.sites) /\ module.lines \in StaticProfiles(r.funcs, r.topkCost, r.topkHot)
    BY <1>2, <1>5, ModulesAssumption
  <2>2. "EXPCALL" \in SpeTypes /\ "FREQCALL" \in SpeTypes
    BY DEF SpeTypes
  <2>3. /\ profile["EXPCALL"] = NamesTo(Len(module.lines), "EXPCALL")
        /\ profile["FREQCALL"] = NamesTo(Len(module.lines), "FREQCALL")
    BY <1>3, <2>2
  <2>4. /\ ListsTop(NamesTo(Len(module.lines), "EXPCALL"), r.funcs, [k \in DOMAIN r.funcs |-> r.funcs[k].cost], r.topkCost)
        /\ ListsTop(NamesTo(Len(module.lines), "FREQCALL"), r.funcs, [k \in DOMAIN r.funcs |-> r.funcs[k].calls], r.topkHot)
    BY <1>2, <2>1, WrittenListed, Zenon
  <2> QED
    BY <2>3, <2>4, Zenon
<1> QED
  BY <1>1, <1>3, <1>4, <1>5 DEF ProfileExact

(***************************************************************************)
(* A profile is read as it is laid out, or refused as a whole: whatever    *)
(* lines the file has, the evaluator starts only on one whose headings are *)
(* all complete and known, and then knows a function under a type exactly  *)
(* when a line below a heading of that type names it (parseProfile,        *)
(* LLVMHelper.cpp:232).  Of a file static_profile wrote it knows the topk  *)
(* functions that cost most, and the topk that are called most often, with *)
(* any order among equals (StaticProfiler.cpp:139).                        *)
(***************************************************************************)
THEOREM ProfileAlwaysExact == Spec => []ProfileExact
<1>1. Init => IInv /\ ProfileInv
  BY InitTypes, InitProfile
<1>2. IInv /\ ProfileInv /\ [Next]_vars => (IInv /\ ProfileInv)'
  BY StepTypes, ProfileStep
<1>3. IInv /\ ProfileInv => ProfileExact
  BY ProfileHolds
<1> QED
  BY <1>1, <1>2, <1>3, PTL DEF Spec

-----------------------------------------------------------------------------
(* The statistics, and what the profile says of a call *)

\* Once the profile is read, a call it lists is rated expensive.
LEMMA ListedRated ==
  ASSUME IInv, ProfileInv, pc = "assess", NEW x, CallsListed(x)
  PROVE  x.kind = "call" /\ x.callee \in ListedExpensive
<1>1. PICK t \in ExpensiveTypes : x.kind = "call" /\ Listed(x.callee, t)
  BY DEF CallsListed
<1>2. t \in SpeTypes
  BY DEF ExpensiveTypes, SpeTypes
<1>3. x.callee \in NamesTo(Len(module.lines), t)
  BY <1>1, ModuleFacts, NamesListed DEF IInv
<1>4. profile[t] = NamesTo(Len(module.lines), t)
  BY <1>2 DEF ProfileInv
<1> QED
  BY <1>1, <1>3, <1>4 DEF ListedExpensive

(***************************************************************************)
(* However many functions and instructions there are, both statistics      *)
(* count what was assessed: each instruction once, the first of a function *)
(* with the whole slice, and every instruction of the map in the end       *)
(* (Evaluator.cpp:399, PerfScope.cpp:99).  And whatever calls the profile  *)
(* lists as expensive, of a function with a body or without, raise what    *)
(* they are assessed with, by the lines of the file and not by the sets    *)
(* the reader made of them.                                                *)
(***************************************************************************)
THEOREM StatsAlwaysExact == Spec => []StatsExact
<1>1. ASSUME SInv, ProfileInv PROVE StatsExact
  <2>1. ASSUME pc = "assess", funcHot = Hot, NEW n \in 1..(i - 1), Insts[n].kind # "intrinsic"
        PROVE  RiskOf(n) >= ModerateRisk
    <3> DEFINE S == {Assess(x) : x \in Assessed(n)}
    <3>1. funcHot \in {Cold, Regular, Hot}
      BY <1>1 DEF SInv, IInv, TypeOK
    <3>2. S \subseteq RISKLEVELS /\ S # {} /\ Assess(Insts[n]) \in S
      BY <3>1, RiskFacts
    <3> HIDE DEF S
    <3>3. Highest(S) \in RISKLEVELS /\ Assess(Insts[n]) <= Highest(S) /\ Assess(Insts[n]) \in RISKLEVELS
      BY <3>2, HighestIs
    <3>4. Assess(Insts[n]) >= ModerateRisk
      BY <2>1, <3>1, AssessFacts
    <3>5. Highest(S) >= ModerateRisk
      BY <3>3, <3>4 DEF RISKLEVELS, ModerateRisk
    <3> QED
      BY <3>5 DEF S, RiskOf
  <2>2. StatsOfThisFunction
    BY <1>1, <2>1 DEF SInv, StatInv, Rating, StatsOfThisFunction
  <2>3. AllCounted
    BY <1>1 DEF SInv, TotalInv, AllCounted, AllRisks, CountedInsts, Running, Walking, Rating, InstsOf
  <2>4. ASSUME pc = "assess", NEW n \in 1..(i - 1), NEW x \in Assessed(n), CallsListed(x)
        PROVE  RiskOf(n) >= IF funcHot = Hot THEN ExtremeRisk ELSE ModerateRisk
    <3> DEFINE S == {Assess(y) : y \in Assessed(n)}
    <3>1. funcHot \in {Cold, Regular, Hot}
      BY <1>1 DEF SInv, IInv, TypeOK
    <3>2. S \subseteq RISKLEVELS /\ S # {} /\ Assess(x) \in S
      BY <2>4, <3>1, RiskFacts
    <3> HIDE DEF S
    <3>3. Highest(S) \in RISKLEVELS /\ Assess(x) <= Highest(S) /\ Assess(x) \in RISKLEVELS
      BY <3>2, HighestIs
    <3>4. x.kind = "call" /\ x.callee \in ListedExpensive
      BY <1>1, <2>4, ListedRated DEF SInv
    <3>5. Assess(x) >= IF funcHot = Hot THEN ExtremeRisk ELSE ModerateRisk
      BY <3>1, <3>4, AssessFacts
    <3>6. Highest(S) >= IF funcHot = Hot THEN ExtremeRisk ELSE ModerateRisk
      BY <3>3, <3>5 DEF RISKLEVELS, ModerateRisk, ExtremeRisk
    <3> QED
      BY <3>6 DEF S, RiskOf
  <2>5. ListedCallsRisky
    BY <2>4 DEF ListedCallsRisky
  <2> QED
    BY <2>2, <2>3, <2>5 DEF StatsExact
<1>2. Init => ProfileInv
  BY InitProfile
<1>3. IInv /\ ProfileInv /\ [Next]_vars => ProfileInv'
  BY ProfileStep
<1>4. SInv => IInv
  BY DEF SInv
<1> QED
  BY <1>1, <1>2, <1>3, <1>4, SInvInductive, PTL DEF Spec
=============================================================================
