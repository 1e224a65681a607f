--------------------------- MODULE DiffEngineProofs ---------------------------
(***************************************************************************)
(* Proofs about DiffEngine, for modules of any size: the state keeps its   *)
(* types, the two passes over a pair of blocks agree, and what is found    *)
(* different, or not, is what the functions do.                            *)
(*                                                                         *)
(* The first pass decides on values that are only supposed to be equal,    *)
(* the second asserts on those that are known to be, so IInv says where    *)
(* every value is found: a block is paired after all that dominate it got  *)
(* their values (DominatorsInv), so an operand is in the map, or above it  *)
(* in its own block and supposed (CompareInv), and what the second pass    *)
(* has behind it is what the first agreed on (UnifyInv).                   *)
(*                                                                         *)
(* SimilarInv: while nothing differs, a paired block waits in the heap, is *)
(* the one compared, or does what its partner does.  IsomorphicInv: when   *)
(* the functions differ in their numbering, blocks are paired by it.  Both *)
(* need that the heap neither loses a pair nor makes one, whatever becomes *)
(* of its order while the keys change.                                     *)
(***************************************************************************)
EXTENDS DiffEngine, FiniteSetTheorems, SequenceTheorems, WellFoundedInduction, TLAPS

-----------------------------------------------------------------------------
(* Recursion *)

Less == {p \in Nat \X Nat : p[1] < p[2]}

LEMMA LessWellFounded == IsWellFoundedOn(Less, Nat)
<1>1. OpToRel(<, Nat) = Less
  BY Zenon DEF OpToRel, Less
<1> QED
  BY <1>1, NatLessThanWellFounded, Zenon

LEMMA LeastNatural ==
  ASSUME NEW T, T \subseteq Nat, T # {}
  PROVE  \E m \in T : \A n \in T : m <= n
<1>1. PICK m \in T : \A n \in T : ~(<<n, m>> \in Less)
  BY LessWellFounded, WFMin
<1>2. ASSUME NEW n \in T PROVE m <= n
  <2>1. m \in Nat /\ n \in Nat /\ ~(<<n, m>> \in Less)
    BY <1>1
  <2> QED
    BY <2>1 DEF Less
<1> QED
  BY <1>2

\* What u says of d, when it stops at T and goes on from d to N[d] elsewhere.
Turn(u, d, T, O, N, F) == IF d \in T THEN O[d] ELSE F[d][u[N[d]]]

\* N leads down the measure m to T.
Descends(D, T, N, m) ==
  /\ T \in SUBSET D /\ N \in [D \ T -> D] /\ m \in [D -> Nat]
  /\ \A d \in D \ T : m[N[d]] < m[d]

Ends(Y, T, O) == Y # {} /\ O \in [T -> Y]

Answers(D, Y, T, O, F) == Ends(Y, T, O) /\ F \in [D \ T -> [Y -> Y]]

\* A recursion along a measure has a solution.
LEMMA RecursionSolved ==
  ASSUME NEW D, NEW Y, NEW T, NEW O, NEW N, NEW F, NEW m,
         Descends(D, T, N, m), Answers(D, Y, T, O, F)
  PROVE  \E u \in [D -> Y] : \A d \in D : u[d] = Turn(u, d, T, O, N, F)
<1>0. PICK y0 \in Y : TRUE
  BY DEF Answers, Ends
<1> USE DEF Descends, Answers, Ends
<1> DEFINE Sol(n) == {u \in [D -> Y] : \A d \in D : m[d] < n => u[d] = Turn(u, d, T, O, N, F)}
<1>1. ASSUME NEW u \in [D -> Y], NEW d \in D PROVE Turn(u, d, T, O, N, F) \in Y
  BY <1>1 DEF Turn
<1>2. ASSUME NEW n \in Nat, Sol(n) # {} PROVE Sol(n + 1) # {}
  <2>1. PICK u : u \in Sol(n)
    BY <1>2
  <2> DEFINE v == [d \in D |-> Turn(u, d, T, O, N, F)]
  <2>2. v \in [D -> Y]
    BY <2>1, <1>1
  <2>3. ASSUME NEW d \in D, m[d] < n + 1 PROVE v[d] = Turn(v, d, T, O, N, F)
    <3>1. CASE d \in T
      BY <3>1 DEF Turn
    <3>2. CASE d \notin T
      <4>1. N[d] \in D /\ m[N[d]] < n
        BY <3>2, <2>3
      <4>2. v[N[d]] = u[N[d]]
        BY <4>1, <2>1
      <4> QED
        BY <4>2, <3>2 DEF Turn
    <3> QED
      BY <3>1, <3>2
  <2>4. v \in Sol(n + 1)
    BY <2>2, <2>3
  <2> QED
    BY <2>4
<1>3. \A n \in Nat : Sol(n) # {}
  <2> DEFINE Bad == {n \in Nat : Sol(n) = {}}
  <2>1. SUFFICES ASSUME Bad # {} PROVE FALSE
    OBVIOUS
  <2>2. PICK n \in Bad : \A i \in Bad : n <= i
    BY <2>1, LeastNatural
  <2>3. [d \in D |-> y0] \in Sol(0)
    OBVIOUS
  <2>4. n # 0
    BY <2>3
  <2>5. n - 1 \in Nat /\ n - 1 \notin Bad
    BY <2>2, <2>4
  <2>6. Sol(n - 1) # {}
    BY <2>5
  <2> HIDE DEF Sol
  <2>7. Sol((n - 1) + 1) # {}
    BY <2>5, <2>6, <1>2
  <2> QED
    BY <2>7, <2>2
<1>4. ASSUME NEW n \in Nat, NEW u \in Sol(n), NEW v \in Sol(n), NEW d \in D, m[d] < n
      PROVE  u[d] = v[d]
  <2> DEFINE Bad == {m[e] : e \in {x \in D : m[x] < n /\ u[x] # v[x]}}
  <2>1. SUFFICES ASSUME Bad # {} PROVE FALSE
    <3>1. m[d] \in Bad \/ u[d] = v[d]
      BY <1>4
    <3> QED
      BY <3>1
  <2>2. PICK i \in Bad : \A j \in Bad : i <= j
    <3>1. Bad \subseteq Nat
      OBVIOUS
    <3> QED
      BY <3>1, <2>1, LeastNatural
  <2>3. PICK e \in D : m[e] = i /\ m[e] < n /\ u[e] # v[e]
    OBVIOUS
  <2>4. e \notin T
    BY <2>3 DEF Turn
  <2>5. N[e] \in D /\ m[N[e]] < m[e] /\ m[N[e]] \in Nat /\ m[e] \in Nat
    BY <2>4
  <2>6. m[N[e]] \notin Bad
    <3>1. ~(m[e] <= m[N[e]])
      BY <2>5
    <3> HIDE DEF Bad
    <3> QED
      BY <2>2, <2>3, <3>1
  <2>7. u[N[e]] = v[N[e]]
    BY <2>3, <2>5, <2>6
  <2> QED
    BY <2>3, <2>4, <2>7 DEF Turn
<1> DEFINE Of(n) == CHOOSE u : u \in Sol(n)
           w == [d \in D |-> Of(m[d] + 1)[d]]
<1>5. \A n \in Nat : Of(n) \in Sol(n)
  <2> HIDE DEF Sol
  <2> QED
    BY <1>3
<1>6. ASSUME NEW d \in D PROVE Of(m[d] + 1) \in Sol(m[d] + 1) /\ m[d] \in Nat /\ m[d] < m[d] + 1
  <2> HIDE DEF Sol, Of
  <2> QED
    BY <1>5
<1>7. ASSUME NEW n \in Nat, NEW u \in Sol(n), NEW i \in 0..n PROVE u \in Sol(i)
  BY <1>7
<1>8. w \in [D -> Y]
  <2>1. ASSUME NEW d \in D PROVE w[d] \in Y
    <3>1. Of(m[d] + 1) \in [D -> Y]
      BY <1>6
    <3> QED
      BY <3>1
  <2> QED
    BY <2>1
<1>9. ASSUME NEW d \in D PROVE w[d] = Turn(w, d, T, O, N, F)
  <2> DEFINE u == Of(m[d] + 1)
  <2>1. u[d] = Turn(u, d, T, O, N, F)
    BY <1>6
  <2>2. CASE d \in T
    BY <2>1, <2>2 DEF Turn
  <2>3. CASE d \notin T
    <3> DEFINE e == N[d]
    <3>1. e \in D /\ m[e] < m[d] /\ m[e] \in Nat /\ m[d] \in Nat
      BY <2>3
    <3>2. u \in Sol(m[e] + 1)
      <4>1. m[d] + 1 \in Nat /\ m[e] + 1 \in 0..(m[d] + 1)
        BY <3>1
      <4>2. Of(m[d] + 1) \in Sol(m[d] + 1)
        BY <1>6
      <4> HIDE DEF Sol, Of
      <4> QED
        BY <4>1, <4>2, <1>7
    <3>3. u[e] = Of(m[e] + 1)[e]
      <4>1. Of(m[e] + 1) \in Sol(m[e] + 1)
        BY <1>6, <3>1
      <4>2. m[e] + 1 \in Nat /\ m[e] < m[e] + 1
        BY <3>1
      <4> HIDE DEF Sol, Of, u
      <4> QED
        BY <4>1, <4>2, <3>1, <3>2, <1>4
    <3>4. w[e] = u[e]
      BY <3>1, <3>3
    <3>5. w[d] = u[d]
      OBVIOUS
    <3> HIDE DEF w, u
    <3> QED
      BY <2>1, <2>3, <3>4, <3>5 DEF Turn
  <2> QED
    BY <2>2, <2>3
<1> HIDE DEF w
<1> QED
  BY <1>8, <1>9

\* What passes from N[d] to d, and holds where the recursion stops, holds of all.
LEMMA MeasureInduction ==
  ASSUME NEW D, NEW T, NEW N, NEW m, Descends(D, T, N, m),
         NEW Good, T \subseteq Good, \A d \in D \ T : N[d] \in Good => d \in Good
  PROVE  D \subseteq Good
<1> USE DEF Descends
<1> DEFINE Bad == {m[d] : d \in D \ Good}
<1>1. SUFFICES ASSUME Bad # {} PROVE FALSE
  OBVIOUS
<1>2. Bad \subseteq Nat
  OBVIOUS
<1>3. PICK i \in Bad : \A j \in Bad : i <= j
  BY <1>1, <1>2, LeastNatural
<1>4. PICK d \in D \ Good : m[d] = i
  OBVIOUS
<1>5. d \in D \ T /\ N[d] \in D \ Good
  BY <1>4
<1>6. m[N[d]] < m[d] /\ m[N[d]] \in Nat /\ m[d] \in Nat
  BY <1>5
<1>7. m[N[d]] \in Bad
  BY <1>5
<1>8. ~(m[d] <= m[N[d]])
  BY <1>6
<1> HIDE DEF Bad
<1> QED
  BY <1>3, <1>4, <1>7, <1>8

\* A recursion that returns what it stops with.
LEMMA TailRecursionSolved ==
  ASSUME NEW D, NEW Y, NEW T, NEW O, NEW N, NEW m, Descends(D, T, N, m), Ends(Y, T, O)
  PROVE  \E u \in [D -> Y] : \A d \in D : u[d] = IF d \in T THEN O[d] ELSE u[N[d]]
<1> DEFINE F == [d \in D \ T |-> [y \in Y |-> y]]
<1>1. Answers(D, Y, T, O, F)
  BY DEF Answers
<1>2. PICK u \in [D -> Y] : \A d \in D : u[d] = Turn(u, d, T, O, N, F)
  <2> HIDE DEF F
  <2> QED
    BY <1>1, RecursionSolved
<1>3. ASSUME NEW d \in D PROVE u[d] = IF d \in T THEN O[d] ELSE u[N[d]]
  <2>1. CASE d \in T
    BY <2>1, <1>2 DEF Turn
  <2>2. CASE d \notin T
    <3>1. N[d] \in D
      BY <2>2 DEF Descends
    <3>2. F[d][u[N[d]]] = u[N[d]]
      BY <2>2, <3>1
    <3> HIDE DEF F
    <3> QED
      BY <2>2, <3>2, <1>2 DEF Turn
  <2> QED
    BY <2>1, <2>2
<1> QED
  BY <1>3

-----------------------------------------------------------------------------
(* The heap keeps its pairs *)

LEMMA SwappedKeeps ==
  ASSUME NEW q \in Seq(BlockPairs), NEW i \in DOMAIN q, NEW j \in DOMAIN q
  PROVE  /\ Swapped(q, i, j) \in Seq(BlockPairs)
         /\ Len(Swapped(q, i, j)) = Len(q)
         /\ ToSet(Swapped(q, i, j)) = ToSet(q)
<1> DEFINE s == Swapped(q, i, j)
<1>1. DOMAIN s = DOMAIN q /\ \A n \in DOMAIN q : s[n] = IF n = j THEN q[i] ELSE IF n = i THEN q[j] ELSE q[n]
  BY DEF Swapped
<1>2. s \in Seq(BlockPairs) /\ Len(s) = Len(q)
  BY DEF Swapped
<1>3. ASSUME NEW n \in DOMAIN s PROVE s[n] \in ToSet(q)
  BY <1>1 DEF ToSet
<1>4. ASSUME NEW n \in DOMAIN q PROVE q[n] \in ToSet(s)
  BY <1>1 DEF ToSet
<1> HIDE DEF s
<1>5. ToSet(s) = ToSet(q)
  BY <1>3, <1>4 DEF ToSet
<1> QED
  BY <1>2, <1>5 DEF s

LEMMA SiftUpKeeps ==
  ASSUME NEW q \in Seq(BlockPairs), q # <<>>, NEW blocks
  PROVE  SiftUp(q, blocks) \in Seq(BlockPairs) /\ ToSet(SiftUp(q, blocks)) = ToSet(q)
<1> DEFINE Half(at) == at[1] \div 2
           T == {at \in Heaps : at[1] = 1 \/ ~Precedes(at[2][at[1]], at[2][Half(at)], blocks)}
           O == [at \in T |-> at[2]]
           N == [at \in Heaps \ T |-> <<Half(at), Swapped(at[2], at[1], Half(at))>>]
           m == [at \in Heaps |-> at[1]]
           Is(u) == u = [at \in Heaps |-> LET i == at[1]
                                             data == at[2]
                                             target == i \div 2
                                         IN IF i = 1 \/ ~Precedes(data[i], data[target], blocks) THEN data
                                            ELSE u[<<target, Swapped(data, i, target)>>]]
<1>1. ASSUME NEW at \in Heaps \ T
      PROVE  /\ N[at] \in Heaps /\ m[N[at]] < m[at]
             /\ ToSet(N[at][2]) = ToSet(at[2])
  <2>1. at[1] \in DOMAIN at[2] /\ at[1] > 1 /\ at[2] \in Seq(BlockPairs)
    BY DEF Heaps
  <2>2. Half(at) \in DOMAIN at[2] /\ Half(at) < at[1] /\ Half(at) \in Nat \ {0}
    BY <2>1
  <2> DEFINE s == Swapped(at[2], at[1], Half(at))
  <2>3. s \in Seq(BlockPairs) /\ Len(s) = Len(at[2]) /\ ToSet(s) = ToSet(at[2])
    BY <2>1, <2>2, SwappedKeeps
  <2>4. N[at] = <<Half(at), s>>
    OBVIOUS
  <2> HIDE DEF s, N
  <2>5. N[at] \in Heaps /\ N[at][1] = Half(at) /\ N[at][2] = s
    BY <2>1, <2>2, <2>3, <2>4 DEF Heaps
  <2> QED
    BY <2>2, <2>3, <2>5
<1>2. Descends(Heaps, T, N, m)
  <2>1. T \in SUBSET Heaps /\ m \in [Heaps -> Nat]
    BY DEF Heaps
  <2>2. N \in [Heaps \ T -> Heaps]
    BY <1>1
  <2>3. \A at \in Heaps \ T : m[N[at]] < m[at]
    BY <1>1
  <2> HIDE DEF T, N, m
  <2> QED
    BY <2>1, <2>2, <2>3 DEF Descends
<1>3. Ends(Seq(BlockPairs), T, O)
  BY EmptySeq DEF Heaps, Ends
<1>4. PICK u \in [Heaps -> Seq(BlockPairs)] : \A at \in Heaps : u[at] = IF at \in T THEN O[at] ELSE u[N[at]]
  <2> HIDE DEF T, O, N, m
  <2> QED
    BY <1>2, <1>3, TailRecursionSolved
<1>5. Is(u)
  <2>1. \A at \in Heaps : u[at] = IF at[1] = 1 \/ ~Precedes(at[2][at[1]], at[2][at[1] \div 2], blocks) THEN at[2]
                                   ELSE u[<<at[1] \div 2, Swapped(at[2], at[1], at[1] \div 2)>>]
    BY <1>4
  <2> QED
    BY <2>1
<1>6. PICK g : Is(g) /\ SiftUp(q, blocks) = g[<<Len(q), q>>]
  BY <1>5 DEF SiftUp
<1>7. ASSUME NEW at \in Heaps
      PROVE  g[at] = IF at \in T THEN at[2] ELSE g[N[at]]
  BY <1>6
<1> DEFINE Good == {at \in Heaps : g[at] \in Seq(BlockPairs) /\ ToSet(g[at]) = ToSet(at[2])}
<1>8. Heaps \subseteq Good
  <2>1. T \subseteq Good
    BY <1>7 DEF Heaps
  <2>2. ASSUME NEW at \in Heaps \ T, N[at] \in Good PROVE at \in Good
    <3>1. g[at] = g[N[at]]
      BY <1>7
    <3> HIDE DEF N, T
    <3> QED
      BY <3>1, <1>1, <2>2
  <2> HIDE DEF T, N, m, Good
  <2> QED
    BY <1>2, <2>1, <2>2, MeasureInduction
<1>9. <<Len(q), q>> \in Heaps /\ <<Len(q), q>>[2] = q
  BY DEF Heaps
<1> HIDE DEF Is
<1> QED
  BY <1>6, <1>8, <1>9

LEMMA SiftDownKeeps ==
  ASSUME NEW q \in Seq(BlockPairs), q # <<>>, NEW blocks
  PROVE  SiftDown(q, blocks) \in Seq(BlockPairs) /\ ToSet(SiftDown(q, blocks)) = ToSet(q)
<1> DEFINE n(at) == Len(at[2])
           Child(at) == IF Precedes(at[2][2 * at[1]], at[2][2 * at[1] + 1], blocks) THEN 2 * at[1] ELSE 2 * at[1] + 1
           T == {at \in Heaps : 2 * at[1] + 1 > n(at) \/ ~Precedes(at[2][Child(at)], at[2][at[1]], blocks)}
           Swaps(at) == 2 * at[1] = n(at) /\ Precedes(at[2][2 * at[1]], at[2][at[1]], blocks)
           O == [at \in T |-> IF Swaps(at) THEN Swapped(at[2], 2 * at[1], at[1]) ELSE at[2]]
           N == [at \in Heaps \ T |-> <<Child(at), Swapped(at[2], at[1], Child(at))>>]
           m == [at \in Heaps |-> n(at) - at[1]]
<1>1. ASSUME NEW at \in Heaps \ T
      PROVE  /\ N[at] \in Heaps /\ m[N[at]] < m[at]
             /\ ToSet(N[at][2]) = ToSet(at[2])
  <2>1. at[1] \in DOMAIN at[2] /\ at[1] \in Nat \ {0} /\ at[2] \in Seq(BlockPairs) /\ Len(at[2]) = n(at) /\ n(at) \in Nat
        /\ 2 * at[1] + 1 <= n(at)
    BY DEF Heaps
  <2>2. Child(at) \in DOMAIN at[2] /\ Child(at) > at[1] /\ Child(at) \in Nat \ {0}
    BY <2>1
  <2> DEFINE s == Swapped(at[2], at[1], Child(at))
  <2>3. s \in Seq(BlockPairs) /\ Len(s) = n(at) /\ ToSet(s) = ToSet(at[2])
    BY <2>1, <2>2, SwappedKeeps
  <2>4. N[at] = <<Child(at), s>>
    OBVIOUS
  <2> HIDE DEF s, N, T, Child
  <2>5. N[at] \in Heaps /\ N[at][1] = Child(at) /\ N[at][2] = s
    BY <2>1, <2>2, <2>3, <2>4 DEF Heaps
  <2>6. n(N[at]) = n(at) /\ m[N[at]] = n(N[at]) - Child(at) /\ m[at] = n(at) - at[1]
    BY <2>3, <2>5
  <2> HIDE DEF m, n
  <2> QED
    BY <2>1, <2>2, <2>3, <2>5, <2>6
<1>2. Descends(Heaps, T, N, m)
  <2>1. T \in SUBSET Heaps /\ m \in [Heaps -> Nat]
    BY DEF Heaps
  <2>2. N \in [Heaps \ T -> Heaps]
    BY <1>1
  <2>3. \A at \in Heaps \ T : m[N[at]] < m[at]
    BY <1>1
  <2> HIDE DEF T, N, m
  <2> QED
    BY <2>1, <2>2, <2>3 DEF Descends
<1>3. ASSUME NEW at \in T PROVE O[at] \in Seq(BlockPairs) /\ ToSet(O[at]) = ToSet(at[2])
  <2>1. at[1] \in DOMAIN at[2] /\ at[1] \in Nat \ {0} /\ at[2] \in Seq(BlockPairs) /\ Len(at[2]) = n(at) /\ n(at) \in Nat
    BY DEF Heaps
  <2>2. CASE Swaps(at)
    <3>1. 2 * at[1] \in DOMAIN at[2]
      BY <2>1, <2>2
    <3>2. O[at] = Swapped(at[2], 2 * at[1], at[1])
      BY <2>2
    <3> HIDE DEF O
    <3> QED
      BY <2>1, <3>1, <3>2, SwappedKeeps
  <2>3. CASE ~Swaps(at)
    BY <2>1, <2>3
  <2> QED
    BY <2>2, <2>3
<1>4. Ends(Seq(BlockPairs), T, O)
  BY <1>3, EmptySeq DEF Ends
<1>5. PICK u \in [Heaps -> Seq(BlockPairs)] : \A at \in Heaps : u[at] = IF at \in T THEN O[at] ELSE u[N[at]]
  <2> HIDE DEF T, O, N, m
  <2> QED
    BY <1>2, <1>4, TailRecursionSolved
<1> DEFINE Is(w) == w = [at \in Heaps |->
             LET i == at[1]
                 data == at[2]
                 len == Len(data)
                 l == 2 * i
                 r == 2 * i + 1
                 child == IF Precedes(data[l], data[r], blocks) THEN l ELSE r
             IN IF l > len THEN data
                ELSE IF r > len THEN IF Precedes(data[l], data[i], blocks) THEN Swapped(data, l, i) ELSE data
                ELSE IF ~Precedes(data[child], data[i], blocks) THEN data
                ELSE w[<<child, Swapped(data, i, child)>>]]
           Step(w, at) == IF at \in T THEN O[at] ELSE w[N[at]]
           Cases(w, at) ==
             IF 2 * at[1] > n(at) THEN at[2]
             ELSE IF 2 * at[1] + 1 > n(at)
                  THEN IF Precedes(at[2][2 * at[1]], at[2][at[1]], blocks) THEN Swapped(at[2], 2 * at[1], at[1]) ELSE at[2]
             ELSE IF ~Precedes(at[2][Child(at)], at[2][at[1]], blocks) THEN at[2]
             ELSE w[<<Child(at), Swapped(at[2], at[1], Child(at))>>]
<1>6. ASSUME NEW w, NEW at \in Heaps PROVE Step(w, at) = Cases(w, at)
  <2>1. at[1] \in Nat /\ n(at) \in Nat
    BY DEF Heaps
  <2>2. CASE 2 * at[1] > n(at)
    BY <2>1, <2>2
  <2>3. CASE 2 * at[1] = n(at)
    <3>1. at \in T /\ 2 * at[1] + 1 > n(at) /\ ~(2 * at[1] > n(at))
      BY <2>1, <2>3
    <3>2. O[at] = IF Precedes(at[2][2 * at[1]], at[2][at[1]], blocks) THEN Swapped(at[2], 2 * at[1], at[1]) ELSE at[2]
      BY <2>3, <3>1
    <3> HIDE DEF O, T
    <3> QED
      BY <3>1, <3>2
  <2>4. CASE 2 * at[1] + 1 <= n(at)
    <3>1. ~(2 * at[1] > n(at)) /\ ~(2 * at[1] + 1 > n(at))
      BY <2>1, <2>4
    <3>2. at \in T <=> ~Precedes(at[2][Child(at)], at[2][at[1]], blocks)
      BY <2>1, <2>4
    <3>3. at \in T => O[at] = at[2]
      BY <2>1, <2>4
    <3>4. at \notin T => N[at] = <<Child(at), Swapped(at[2], at[1], Child(at))>>
      OBVIOUS
    <3> HIDE DEF O, T, N, n, Child
    <3> QED
      BY <3>1, <3>2, <3>3, <3>4
  <2>5. 2 * at[1] > n(at) \/ 2 * at[1] = n(at) \/ 2 * at[1] + 1 <= n(at)
    <3>1. \A i, len \in Nat : 2 * i > len \/ 2 * i = len \/ 2 * i + 1 <= len
      OBVIOUS
    <3> HIDE DEF n
    <3> QED
      BY <2>1, <3>1
  <2> QED
    BY <2>2, <2>3, <2>4, <2>5
<1>7. Is(u)
  <2>1. ASSUME NEW at \in Heaps PROVE u[at] = Cases(u, at)
    <3>1. Step(u, at) = Cases(u, at)
      BY <1>6
    <3> HIDE DEF Cases, T, O, N
    <3> QED
      BY <3>1, <1>5
  <2> QED
    BY <2>1
<1>8. PICK g : Is(g) /\ SiftDown(q, blocks) = g[<<1, q>>]
  BY <1>7 DEF SiftDown
<1>9. ASSUME NEW at \in Heaps
      PROVE  g[at] = IF at \in T THEN O[at] ELSE g[N[at]]
  <2>1. g[at] = Cases(g, at)
    BY <1>8
  <2> QED
    BY <2>1, <1>6
<1> DEFINE Good == {at \in Heaps : g[at] \in Seq(BlockPairs) /\ ToSet(g[at]) = ToSet(at[2])}
<1>10. Heaps \subseteq Good
  <2>1. T \subseteq Good
    BY <1>3, <1>9
  <2>2. ASSUME NEW at \in Heaps \ T, N[at] \in Good PROVE at \in Good
    <3>1. g[at] = g[N[at]]
      BY <1>9
    <3> HIDE DEF N, T
    <3> QED
      BY <3>1, <1>1, <2>2
  <2> HIDE DEF T, N, m, Good
  <2> QED
    BY <1>2, <2>1, <2>2, MeasureInduction
<1>11. <<1, q>> \in Heaps /\ <<1, q>>[2] = q
  BY DEF Heaps
<1> HIDE DEF Is
<1> QED
  BY <1>8, <1>10, <1>11

LEMMA InsertKeeps ==
  ASSUME NEW q \in Seq(BlockPairs), NEW p \in BlockPairs, NEW blocks
  PROVE  Insert(q, p, blocks) \in Seq(BlockPairs) /\ ToSet(Insert(q, p, blocks)) = ToSet(q) \cup {p}
<1>1. Append(q, p) \in Seq(BlockPairs) /\ Append(q, p) # <<>>
  BY AppendProperties
<1>2. ToSet(Append(q, p)) = ToSet(q) \cup {p}
  <2>1. DOMAIN Append(q, p) = DOMAIN q \cup {Len(q) + 1}
    <3>1. Len(Append(q, p)) = Len(q) + 1 /\ Len(q) \in Nat /\ DOMAIN q = 1..Len(q)
      BY AppendProperties, LenProperties
    <3>2. DOMAIN Append(q, p) = 1..Len(Append(q, p))
      BY <1>1
    <3> QED
      BY <3>1, <3>2
  <2>2. Append(q, p)[Len(q) + 1] = p /\ \A n \in DOMAIN q : Append(q, p)[n] = q[n]
    BY AppendProperties, LenProperties
  <2> QED
    BY <2>1, <2>2 DEF ToSet
<1> QED
  BY <1>1, <1>2, SiftUpKeeps DEF Insert

\* The first pair is removed; it might stand in the heap once more.
LEMMA RemoveMinKeeps ==
  ASSUME NEW q \in Seq(BlockPairs), q # <<>>, NEW blocks
  PROVE  /\ RemoveMin(q, blocks) \in Seq(BlockPairs)
         /\ ToSet(RemoveMin(q, blocks)) \subseteq ToSet(q)
         /\ ToSet(q) \subseteq ToSet(RemoveMin(q, blocks)) \cup {q[1]}
<1>1. CASE Len(q) = 1
  BY <1>1 DEF RemoveMin, ToSet
<1>2. CASE Len(q) # 1
  <2> DEFINE s == RootReplaced(q)
  <2>1. s = <<q[Len(q)]>> \o SubSeq(q, 2, Len(q) - 1) /\ Len(q) \in Nat /\ Len(q) >= 2
    BY <1>2 DEF RootReplaced
  <2>2. s \in Seq(BlockPairs) /\ Len(s) = Len(q) - 1 /\ s[1] = q[Len(q)] /\ \A n \in 2..Len(s) : s[n] = q[n]
    <3> DEFINE t == SubSeq(q, 2, Len(q) - 1)
               h == <<q[Len(q)]>>
    <3>1. t \in Seq(BlockPairs) /\ Len(t) = Len(q) - 2 /\ \A n \in 1..Len(t) : t[n] = q[n + 1]
      <4>1. 2 \in 1..(Len(q) + 1) /\ Len(q) - 1 \in 1..Len(q)
        BY <2>1
      <4>2. t \in Seq(BlockPairs) /\ Len(t) = IF 2 <= Len(q) - 1 THEN (Len(q) - 1) - 2 + 1 ELSE 0
        BY <4>1, SubSeqProperties
      <4>3. ASSUME NEW n \in 1..Len(t) PROVE t[n] = q[n + 1]
        <5>1. n \in 1..((Len(q) - 1) - 2 + 1)
          BY <2>1, <4>2
        <5> QED
          BY <2>1, <5>1
      <4>4. Len(t) = Len(q) - 2
        <5>1. \A n \in Nat : n >= 2 => (IF 2 <= n - 1 THEN (n - 1) - 2 + 1 ELSE 0) = n - 2
          OBVIOUS
        <5> HIDE DEF t
        <5> QED
          BY <2>1, <4>2, <5>1
      <4> QED
        BY <4>2, <4>3, <4>4
    <3>2. h \in Seq(BlockPairs) /\ Len(h) = 1 /\ h[1] = q[Len(q)]
      BY <2>1
    <3> HIDE DEF t, h
    <3>3. h \o t \in Seq(BlockPairs) /\ Len(h \o t) = 1 + Len(t)
          /\ \A n \in 1..(1 + Len(t)) : (h \o t)[n] = IF n = 1 THEN h[1] ELSE t[n - 1]
      BY <3>1, <3>2, ConcatProperties
    <3>4. s = h \o t
      BY <2>1 DEF h, t
    <3> HIDE DEF s
    <3>5. ASSUME NEW n \in 2..Len(s) PROVE s[n] = q[n]
      <4>1. n \in 1..(1 + Len(t)) /\ n # 1 /\ n - 1 \in 1..Len(t) /\ (n - 1) + 1 = n
        BY <3>1, <3>3, <3>4
      <4> QED
        BY <4>1, <3>1, <3>3, <3>4
    <3>6. 1 \in 1..(1 + Len(t)) /\ 1 + Len(t) = Len(q) - 1
      BY <2>1, <3>1
    <3> QED
      BY <3>2, <3>3, <3>4, <3>5, <3>6
  <2>3. ToSet(s) \subseteq ToSet(q) /\ ToSet(q) \subseteq ToSet(s) \cup {q[1]}
    <3>1. ASSUME NEW n \in DOMAIN s PROVE s[n] \in ToSet(q)
      BY <2>1, <2>2 DEF ToSet
    <3>2. ASSUME NEW n \in DOMAIN q PROVE q[n] \in ToSet(s) \cup {q[1]}
      <4>1. CASE n = 1
        BY <4>1
      <4>2. CASE n = Len(q)
        BY <4>2, <2>1, <2>2 DEF ToSet
      <4>3. CASE n # 1 /\ n # Len(q)
        <5>1. n \in 2..Len(s) /\ n \in DOMAIN s
          BY <4>3, <2>1, <2>2
        <5>2. s[n] = q[n]
          BY <5>1, <2>2
        <5> HIDE DEF s
        <5> QED
          BY <5>1, <5>2 DEF ToSet
      <4> QED
        BY <4>1, <4>2, <4>3
    <3> QED
      BY <3>1, <3>2 DEF ToSet
  <2>4. RemoveMin(q, blocks) = SiftDown(s, blocks) /\ s # <<>>
    BY <1>2, <2>1, <2>2 DEF RemoveMin
  <2> HIDE DEF s
  <2> QED
    BY <2>2, <2>3, <2>4, SiftDownKeeps
<1> QED
  BY <1>1, <1>2

-----------------------------------------------------------------------------
(* Blocks are paired *)

BlockMaps == UNION {[A -> Nat] : A \in SUBSET Nat}

UnifyStates ==
  [blocks : BlockMaps, queue : Seq(BlockPairs), lost : SUBSET BlockPairs]

\* What becomes of st when the pairs P are unified.
Extends(st, r, P) ==
  /\ \A b \in DOMAIN st.blocks : b \in DOMAIN r.blocks /\ (st.blocks[b] # NULL => r.blocks[b] = st.blocks[b])
  /\ \A b \in DOMAIN r.blocks : (b \in DOMAIN st.blocks /\ r.blocks[b] = st.blocks[b]) \/ <<b, r.blocks[b]>> \in P
  /\ ToSet(st.queue) \subseteq ToSet(r.queue)
  /\ \A q \in ToSet(r.queue) : q \in ToSet(st.queue) \/ (Unified(q[1], r.blocks) /\ r.blocks[q[1]] = q[2])
  /\ \A b \in DOMAIN r.blocks :
       Unified(b, r.blocks) => Unified(b, st.blocks) \/ <<b, r.blocks[b]>> \in ToSet(r.queue)
  /\ st.lost \subseteq r.lost
  /\ \A p \in P : Unified(p[1], r.blocks) /\ (r.blocks[p[1]] = p[2] \/ p \in r.lost)

LEMMA PutProperties ==
  ASSUME NEW f, NEW x, NEW v
  PROVE  /\ DOMAIN Put(f, x, v) = DOMAIN f \cup {x} /\ Put(f, x, v)[x] = v
         /\ \A y \in DOMAIN f \ {x} : Put(f, x, v)[y] = f[y]
         /\ (f \in BlockMaps /\ x \in Nat /\ v \in Nat) => Put(f, x, v) \in BlockMaps
<1>1. DOMAIN Put(f, x, v) = DOMAIN f \cup {x} /\ Put(f, x, v)[x] = v
      /\ \A y \in DOMAIN f \ {x} : Put(f, x, v)[y] = f[y]
  BY DEF Put
<1>2. ASSUME f \in BlockMaps, x \in Nat, v \in Nat
      PROVE  Put(f, x, v) \in BlockMaps
  <2>1. DOMAIN f \in SUBSET Nat /\ f \in [DOMAIN f -> Nat]
    BY <1>2 DEF BlockMaps
  <2>2. Put(f, x, v) \in [DOMAIN f \cup {x} -> Nat] /\ DOMAIN f \cup {x} \in SUBSET Nat
    BY <1>2, <2>1 DEF Put
  <2> QED
    BY <2>2 DEF BlockMaps
<1> QED
  BY <1>1, <1>2

LEMMA TryUnifyExtends ==
  ASSUME NEW st \in UnifyStates, NEW p \in BlockPairs, p[2] # NULL
  PROVE  TryUnify(st, p) \in UnifyStates /\ Extends(st, TryUnify(st, p), {p})
<1> DEFINE r == TryUnify(st, p)
           blocks == Put(st.blocks, p[1], p[2])
<1>0. p[1] \in Nat /\ p[2] \in Nat /\ p = <<p[1], p[2]>>
      /\ st.blocks \in BlockMaps /\ st.queue \in Seq(BlockPairs)
      /\ st.lost \in SUBSET BlockPairs
  BY DEF UnifyStates, BlockPairs
<1>1. CASE Unified(p[1], st.blocks) /\ st.blocks[p[1]] = p[2]
  <2>1. r = st
    BY <1>1 DEF TryUnify
  <2> QED
    BY <1>0, <1>1, <2>1 DEF Extends, Unified
<1>2. CASE Unified(p[1], st.blocks) /\ st.blocks[p[1]] # p[2]
  <2>1. r = [blocks |-> st.blocks, queue |-> st.queue, lost |-> st.lost \cup {p}]
    BY <1>2 DEF TryUnify
  <2>2. r \in UnifyStates
    BY <1>0, <2>1 DEF UnifyStates
  <2>3. r.blocks = st.blocks /\ r.queue = st.queue /\ r.lost = st.lost \cup {p}
    BY <2>1
  <2> HIDE DEF r
  <2>4. Extends(st, r, {p})
    BY <1>0, <1>2, <2>3 DEF Extends, Unified
  <2> QED
    BY <2>2, <2>4 DEF r
<1>3. CASE ~Unified(p[1], st.blocks)
  <2> DEFINE queue == Insert(st.queue, p, blocks)
  <2>1. r = [blocks |-> blocks, queue |-> queue, lost |-> st.lost]
    BY <1>3 DEF TryUnify
  <2>2. queue \in Seq(BlockPairs) /\ ToSet(queue) = ToSet(st.queue) \cup {p}
    BY <1>0, InsertKeeps
  <2>3. /\ DOMAIN blocks = DOMAIN st.blocks \cup {p[1]} /\ blocks[p[1]] = p[2]
        /\ \A b \in DOMAIN st.blocks \ {p[1]} : blocks[b] = st.blocks[b]
        /\ blocks \in BlockMaps
    <3> DEFINE f == st.blocks
               b == p[1]
               v == p[2]
    <3>1. f \in BlockMaps /\ b \in Nat /\ v \in Nat /\ blocks = Put(f, b, v)
      BY <1>0
    <3> HIDE DEF blocks, f, b, v
    <3>2. /\ DOMAIN blocks = DOMAIN f \cup {b} /\ blocks[b] = v
          /\ \A y \in DOMAIN f \ {b} : blocks[y] = f[y]
          /\ blocks \in BlockMaps
      <4>1. /\ DOMAIN Put(f, b, v) = DOMAIN f \cup {b} /\ Put(f, b, v)[b] = v
            /\ \A y \in DOMAIN f \ {b} : Put(f, b, v)[y] = f[y]
        BY DEF Put
      <4>2. Put(f, b, v) \in BlockMaps
        BY <3>1, PutProperties
      <4> QED
        BY <3>1, <4>1, <4>2
    <3> QED
      BY <3>2 DEF f, b, v
  <2> HIDE DEF blocks, queue
  <2>4. r \in UnifyStates
    BY <1>0, <2>1, <2>2, <2>3 DEF UnifyStates
  <2>5. r.blocks = blocks /\ r.queue = queue /\ r.lost = st.lost
    BY <2>1
  <2> HIDE DEF r
  <2>6. Extends(st, r, {p})
    <3>1. \A b \in DOMAIN st.blocks : b \in DOMAIN blocks /\ (st.blocks[b] # NULL => blocks[b] = st.blocks[b])
      BY <1>3, <2>3 DEF Unified
    <3>2. \A b \in DOMAIN blocks : (b \in DOMAIN st.blocks /\ blocks[b] = st.blocks[b]) \/ <<b, blocks[b]>> \in {p}
      BY <1>0, <2>3
    <3>3. ToSet(st.queue) \subseteq ToSet(queue)
      BY <2>2
    <3>4. \A q \in ToSet(queue) : q \in ToSet(st.queue) \/ (Unified(q[1], blocks) /\ blocks[q[1]] = q[2])
      BY <2>2, <2>3 DEF Unified
    <3>5. \A b \in DOMAIN blocks :
            Unified(b, blocks) => Unified(b, st.blocks) \/ <<b, blocks[b]>> \in ToSet(queue)
      BY <1>0, <2>2, <2>3 DEF Unified
    <3>6. Unified(p[1], blocks) /\ blocks[p[1]] = p[2]
      BY <2>3 DEF Unified
    <3> QED
      BY <2>5, <3>1, <3>2, <3>3, <3>4, <3>5, <3>6 DEF Extends
  <2> QED
    BY <2>4, <2>6 DEF r
<1> QED
  BY <1>1, <1>2, <1>3

LEMMA ExtendsTransitive ==
  ASSUME NEW st, NEW r, NEW t, NEW P, NEW Q, Extends(st, r, P), Extends(r, t, Q)
  PROVE  Extends(st, t, P \cup Q)
<1>1. \A b \in DOMAIN st.blocks : b \in DOMAIN t.blocks /\ (st.blocks[b] # NULL => t.blocks[b] = st.blocks[b])
  BY DEF Extends
<1>2. \A b \in DOMAIN t.blocks : (b \in DOMAIN st.blocks /\ t.blocks[b] = st.blocks[b]) \/ <<b, t.blocks[b]>> \in P \cup Q
  BY DEF Extends
<1>3. ToSet(st.queue) \subseteq ToSet(t.queue) /\ st.lost \subseteq t.lost
  BY DEF Extends
<1>4. ASSUME NEW b, Unified(b, r.blocks) PROVE Unified(b, t.blocks) /\ t.blocks[b] = r.blocks[b]
  BY <1>4 DEF Extends, Unified
<1>5. ASSUME NEW q \in ToSet(t.queue)
      PROVE  q \in ToSet(st.queue) \/ (Unified(q[1], t.blocks) /\ t.blocks[q[1]] = q[2])
  BY <1>4 DEF Extends
<1>6. ASSUME NEW b \in DOMAIN t.blocks, Unified(b, t.blocks)
      PROVE  Unified(b, st.blocks) \/ <<b, t.blocks[b]>> \in ToSet(t.queue)
  <2>1. CASE Unified(b, r.blocks)
    <3>1. b \in DOMAIN r.blocks /\ t.blocks[b] = r.blocks[b]
      BY <2>1, <1>4 DEF Unified
    <3> QED
      BY <2>1, <3>1 DEF Extends
  <2>2. CASE ~Unified(b, r.blocks)
    BY <1>6, <2>2 DEF Extends
  <2> QED
    BY <2>1, <2>2
<1>7. ASSUME NEW p \in P \cup Q
      PROVE  Unified(p[1], t.blocks) /\ (t.blocks[p[1]] = p[2] \/ p \in t.lost)
  <2>1. CASE p \in P
    BY <2>1, <1>4 DEF Extends
  <2>2. CASE p \in Q
    BY <2>2 DEF Extends
  <2> QED
    BY <2>1, <2>2
<1> QED
  BY <1>1, <1>2, <1>3, <1>5, <1>6, <1>7 DEF Extends

LEMMA GreatestNatural ==
  ASSUME NEW n \in Nat, NEW s \in SUBSET (1..n), s # {}
  PROVE  Max(s) \in s /\ \A x \in s : x <= Max(s)
<1> DEFINE U == {n - x : x \in s}
<1>1. U \subseteq Nat /\ U # {}
  <2>1. \A x \in s : x \in 1..n /\ n - x \in Nat
    OBVIOUS
  <2>2. PICK x \in s : TRUE
    OBVIOUS
  <2>3. n - x \in U
    OBVIOUS
  <2> QED
    BY <2>1, <2>3
<1>2. PICK d \in U : \A e \in U : d <= e
  BY <1>1, LeastNatural
<1>3. PICK x \in s : d = n - x
  OBVIOUS
<1>4. ASSUME NEW y \in s PROVE x >= y
  <2>1. x \in 1..n /\ y \in 1..n
    OBVIOUS
  <2>0. n - y \in U
    BY <1>4
  <2>2. d <= n - y
    BY <1>2, <2>0
  <2> QED
    BY <1>3, <2>1, <2>2
<1>5. \E z \in s : \A y \in s : z >= y
  BY <1>4
<1>6. Max(s) \in s /\ \A y \in s : Max(s) >= y
  BY <1>5 DEF Max
<1>7. ASSUME NEW y \in s PROVE y <= Max(s)
  <2>1. y \in 1..n /\ Max(s) \in 1..n /\ Max(s) >= y
    BY <1>6
  <2> QED
    BY <2>1
<1> QED
  BY <1>6, <1>7

LEMMA FoldExtends ==
  ASSUME NEW st \in UnifyStates, NEW ps \in Seq(BlockPairs), \A n \in DOMAIN ps : ps[n][2] # NULL
  PROVE  /\ FoldLeft(TryUnify, st, ps) \in UnifyStates
         /\ Extends(st, FoldLeft(TryUnify, st, ps), ToSet(ps))
<1> DEFINE D == SUBSET DOMAIN ps
           T == {{}}
           O == [s \in T |-> st]
           N == [s \in D \ T |-> s \ {Max(s)}]
           F == [s \in D \ T |-> [y \in UnifyStates |-> TryUnify(y, ps[Max(s)])]]
           m == [s \in D |-> IF s = {} THEN 0 ELSE Max(s)]
           Is(g) == g = [s \in D |-> IF s = {} THEN st ELSE TryUnify(g[s \ {Max(s)}], ps[Max(s)])]
<1>1. ASSUME NEW s \in D \ T
      PROVE  /\ Max(s) \in s /\ Max(s) \in DOMAIN ps /\ Max(s) \in Nat \ {0}
             /\ N[s] = s \ {Max(s)} /\ N[s] \in D /\ m[N[s]] < m[s]
  <2>1. s \in SUBSET (1..Len(ps)) /\ s # {} /\ Len(ps) \in Nat
    BY LenProperties
  <2>2. Max(s) \in s /\ \A x \in s : x <= Max(s)
    BY <2>1, GreatestNatural
  <2>3. N[s] = s \ {Max(s)} /\ N[s] \in D /\ m[s] = Max(s)
    OBVIOUS
  <2> HIDE DEF N
  <2>4. CASE N[s] = {}
    BY <2>1, <2>2, <2>3, <2>4
  <2>5. CASE N[s] # {}
    <3>1. Max(N[s]) \in N[s] /\ m[N[s]] = Max(N[s])
      BY <2>1, <2>3, <2>5, GreatestNatural
    <3>2. Max(N[s]) <= Max(s) /\ Max(N[s]) # Max(s) /\ Max(s) \in Nat /\ Max(N[s]) \in Nat
      BY <2>1, <2>2, <2>3, <3>1
    <3> HIDE DEF m
    <3> QED
      BY <2>1, <2>2, <2>3, <3>1, <3>2
  <2> QED
    BY <2>4, <2>5
<1>2. Descends(D, T, N, m)
  <2>1. T \in SUBSET D
    OBVIOUS
  <2>2. N \in [D \ T -> D]
    BY <1>1
  <2>3. ASSUME NEW s \in D PROVE m[s] \in Nat
    BY <1>1
  <2>4. \A s \in D \ T : m[N[s]] < m[s]
    BY <1>1
  <2>5. m \in [D -> Nat]
    BY <2>3
  <2> HIDE DEF D, T, N, m
  <2> QED
    BY <2>1, <2>2, <2>4, <2>5 DEF Descends
<1>3. ASSUME NEW s \in D \ T
      PROVE  ps[Max(s)] \in BlockPairs /\ ps[Max(s)][2] # NULL /\ ps[Max(s)] \in ToSet(ps)
  <2>1. Max(s) \in DOMAIN ps
    BY <1>1
  <2> QED
    BY <2>1, LenProperties DEF ToSet
<1>4. Answers(D, UnifyStates, T, O, F)
  <2>1. ASSUME NEW s \in D \ T, NEW y \in UnifyStates PROVE TryUnify(y, ps[Max(s)]) \in UnifyStates
    BY <1>3, TryUnifyExtends
  <2>2. O \in [T -> UnifyStates] /\ F \in [D \ T -> [UnifyStates -> UnifyStates]]
    BY <2>1
  <2> HIDE DEF D, T, O, F
  <2> QED
    BY <2>2 DEF Answers, Ends
<1>5. PICK u \in [D -> UnifyStates] : \A s \in D : u[s] = Turn(u, s, T, O, N, F)
  <2> HIDE DEF D, T, O, N, F, m
  <2> QED
    BY <1>2, <1>4, RecursionSolved
<1>6. ASSUME NEW s \in D
      PROVE  u[s] = IF s = {} THEN st ELSE TryUnify(u[s \ {Max(s)}], ps[Max(s)])
  <2>1. CASE s = {}
    BY <2>1, <1>5 DEF Turn
  <2>2. CASE s # {}
    <3>1. s \ {Max(s)} \in D /\ N[s] = s \ {Max(s)}
      BY <2>2, <1>1
    <3>2. u[s \ {Max(s)}] \in UnifyStates
      BY <3>1
    <3>3. F[s][u[N[s]]] = TryUnify(u[s \ {Max(s)}], ps[Max(s)])
      BY <2>2, <3>1, <3>2
    <3>4. s \notin T
      BY <2>2
    <3> HIDE DEF F, N, T
    <3> QED
      BY <2>2, <3>3, <3>4, <1>5 DEF Turn
  <2> QED
    BY <2>1, <2>2
<1>7. Is(u)
  BY <1>6
<1>8. PICK g : Is(g) /\ FoldLeft(TryUnify, st, ps) = g[DOMAIN ps]
  BY <1>7 DEF FoldLeft, MapThenFoldSet
<1> DEFINE Good == {s \in D : g[s] \in UnifyStates /\ Extends(st, g[s], {ps[n] : n \in s})}
<1>9. D \subseteq Good
  <2>1. T \subseteq Good
    <3>1. g[{}] = st
      BY <1>8
    <3>2. Extends(st, st, {})
      BY DEF Extends
    <3>3. {ps[n] : n \in {}} = {}
      OBVIOUS
    <3> QED
      BY <3>1, <3>2, <3>3
  <2>2. ASSUME NEW s \in D \ T, N[s] \in Good PROVE s \in Good
    <3> DEFINE e == Max(s)
               r == g[N[s]]
    <3>1. g[s] = TryUnify(r, ps[e]) /\ e \in s /\ N[s] = s \ {e}
      BY <1>8, <1>1
    <3>2. r \in UnifyStates /\ Extends(st, r, {ps[n] : n \in s \ {e}})
      BY <2>2, <3>1
    <3>3. ps[e] \in BlockPairs /\ ps[e][2] # NULL
      BY <1>3
    <3> HIDE DEF r, e, N, T
    <3>4. g[s] \in UnifyStates /\ Extends(r, g[s], {ps[e]})
      BY <3>1, <3>2, <3>3, TryUnifyExtends
    <3>5. Extends(st, g[s], {ps[n] : n \in s \ {e}} \cup {ps[e]})
      BY <3>2, <3>4, ExtendsTransitive
    <3>6. {ps[n] : n \in s \ {e}} \cup {ps[e]} = {ps[n] : n \in s}
      BY <3>1
    <3> QED
      BY <3>4, <3>5, <3>6
  <2> HIDE DEF D, T, N, m, Good
  <2> QED
    BY <1>2, <2>1, <2>2, MeasureInduction
<1>10. {ps[n] : n \in DOMAIN ps} = ToSet(ps)
  BY DEF ToSet
<1> HIDE DEF Is
<1> QED
  BY <1>8, <1>9, <1>10

-----------------------------------------------------------------------------
(* What a state of the comparison satisfies *)

Active == pc \in {"dequeue", "compare", "unify"}
OnPair == pc \in {"compare", "unify"}

NamesInv ==
  /\ \E p \in ModulePairs : left = p[1] /\ right = p[2]
  /\ pc \in {"modules", "next_function", "dequeue", "compare", "unify", "done"}
  /\ Differences \in BOOLEAN
  /\ todo \subseteq DOMAIN left
  /\ pc \in {"next_function", "dequeue", "compare", "unify"} => DOMAIN left = DOMAIN right
  /\ Active => name \in DOMAIN left /\ L.blocks # <<>> /\ R.blocks # <<>> /\ L.args = R.args

\* Blocks are paired with blocks, those of the queue among them.
BlocksInv ==
  Active =>
    /\ \E A \in SUBSET DOMAIN L.blocks : Blocks \in [A -> DOMAIN R.blocks \cup {NULL}]
    /\ Unified(Entry, Blocks)
    /\ Queue \in Seq(BlockPairs) /\ lost \in SUBSET BlockPairs
    /\ \A p \in ToSet(Queue) : Unified(p[1], Blocks) /\ Blocks[p[1]] = p[2]
    /\ OnPair => pair \in BlockPairs /\ Unified(pair[1], Blocks) /\ Blocks[pair[1]] = pair[2]

\* The value a paired block's partner has for the same instruction.
Counterpart(v) == <<"inst", Blocks[v[2]], v[3]>>
IsValue(v) == v = <<"inst", v[2], v[3]>> /\ Unified(v[2], Blocks)

ValuesInv ==
  Active =>
    /\ \A m \in 1..L.args : <<"arg", m>> \in DOMAIN Values
    /\ \A v \in DOMAIN Values :
         \/ v = <<"arg", v[2]>> /\ Values[v] = v
         \/ IsValue(v) /\ Values[v] = Counterpart(v)
    /\ \A t \in Tentative : IsValue(t[1]) /\ t = <<t[1], Counterpart(t[1])>>

\* The used instructions of a block have their values.
Valued(b) == \A n \in DOMAIN L.blocks[b] : L.blocks[b][n].used => <<"inst", b, n>> \in DOMAIN Values

\* A block is paired after all that dominate it got their values.
DominatorsInv ==
  Active =>
    \A a \in DOMAIN L.blocks, S \in SUBSET DOMAIN L.blocks :
      ~Valued(a) /\ Entry \in S /\ (\A c \in S \ {a} : Succs(L, c) \subseteq S)
        => \A b \in DOMAIN Blocks : Unified(b, Blocks) => b \in S

\* What Same has found of two instructions.
Agrees(lo, ro) ==
  /\ lo[1] = ro[1]
  /\ lo[1] \in {"const", "arg"} => lo = ro
  /\ lo[1] = "inst" => Unified(lo[2], Blocks) /\ ro = Counterpart(lo)
  /\ lo[1] = "block" => ~(lo[2] \in DOMAIN Blocks /\ Blocks[lo[2]] = ro[2])
  /\ lo[1] = "address" => lo[2] \in DOMAIN Blocks /\ Blocks[lo[2]] = ro[2]
Agree(l, r) ==
  /\ l.op = r.op
  /\ l.op \in {"cmp", "phi"} => l.att = r.att
  /\ l.op \in {"br", "switch"} => Len(l.ops) = Len(r.ops)
  /\ l.op = "switch" => ToSet(l.cases) = ToSet(r.cases)
  /\ l.op \notin {"phi", "unreachable"} =>
       Len(l.ops) = Len(r.ops) /\ \A n \in DOMAIN l.ops : Agrees(l.ops[n], r.ops[n])

CompareInv ==
  pc = "compare" =>
    /\ k \in 1..Len(LBlock) /\ k <= Len(RBlock)
    /\ \A j \in 1..(k - 1) :
         /\ Agree(LBlock[j], RBlock[j])
         /\ LBlock[j].used => <<<<"inst", pair[1], j>>, <<"inst", pair[2], j>>>> \in Tentative

UnifyInv ==
  pc = "unify" =>
    /\ Tentative = {}
    /\ k \in 1..Len(LBlock) /\ Len(LBlock) = Len(RBlock)
    /\ \A j \in 1..Len(LBlock) : Agree(LBlock[j], RBlock[j])
    /\ \A j \in 1..(k - 1) : LBlock[j].used => <<"inst", pair[1], j>> \in DOMAIN Values

IInv == NamesInv /\ k \in Nat \ {0} /\ BlocksInv /\ ValuesInv /\ DominatorsInv /\ CompareInv /\ UnifyInv

-----------------------------------------------------------------------------
(* Functions *)

LEMMA SequenceFacts ==
  ASSUME NEW s, IsSequence(s)
  PROVE  Len(s) \in Nat /\ DOMAIN s = 1..Len(s) /\ s \in [1..Len(s) -> ToSet(s)]
BY LenProperties DEF IsSequence

LEMMA BlockFacts ==
  ASSUME NEW f, IsFunction(f), NEW b \in DOMAIN f.blocks
  PROVE  /\ DOMAIN f.blocks = 1..Len(f.blocks) /\ Len(f.blocks) \in Nat
         /\ b \in Nat \ {0}
         /\ Len(f.blocks[b]) \in Nat \ {0} /\ DOMAIN f.blocks[b] = 1..Len(f.blocks[b])
         /\ Last(f.blocks[b]) = f.blocks[b][Len(f.blocks[b])]
<1>1. IsSequence(f.blocks) /\ IsSequence(f.blocks[b]) /\ f.blocks[b] # <<>>
  BY DEF IsFunction
<1>2. Len(f.blocks) \in Nat /\ DOMAIN f.blocks = 1..Len(f.blocks)
  BY <1>1, SequenceFacts
<1>3. Len(f.blocks[b]) \in Nat /\ DOMAIN f.blocks[b] = 1..Len(f.blocks[b])
  BY <1>1, SequenceFacts
<1>4. Len(f.blocks[b]) # 0
  BY <1>1, EmptySeq DEF IsSequence
<1> QED
  BY <1>2, <1>3, <1>4 DEF Last

LEMMA InstructionFacts ==
  ASSUME NEW f, IsFunction(f), NEW b \in DOMAIN f.blocks, NEW n \in DOMAIN f.blocks[b]
  PROVE  /\ IsInstruction(f.blocks[b][n])
         /\ f.blocks[b][n].op \in Terminators <=> n = Len(f.blocks[b])
         /\ ToSet(f.blocks[b][n].succs) \subseteq DOMAIN f.blocks \ {Entry}
         /\ \A m \in DOMAIN f.blocks[b][n].ops : IsOperand(f, b, n, f.blocks[b][n].ops[m])
BY DEF IsFunction

LEMMA FunctionsCompared ==
  ASSUME NamesInv, NEW n
  PROVE  (n \in DOMAIN left => IsFunction(left[n])) /\ (n \in DOMAIN right => IsFunction(right[n]))
<1>1. PICK p \in ModulePairs : left = p[1] /\ right = p[2]
  BY DEF NamesInv
<1> QED
  BY <1>1, ModulePairsAssumption

LEMMA ActiveFunctions ==
  ASSUME NamesInv, Active
  PROVE  IsFunction(L) /\ IsFunction(R)
BY FunctionsCompared DEF NamesInv, Active, L, R

LEMMA MapIsSequence ==
  ASSUME NEW S, NEW n \in Nat, NEW s \in [1..n -> S]
  PROVE  s \in Seq(S) /\ Len(s) = n
OBVIOUS

LEMMA HeadedSet ==
  ASSUME NEW S, NEW x \in S, NEW t \in Seq(S)
  PROVE  <<x>> \o t \in Seq(S) /\ ToSet(<<x>> \o t) = {x} \cup {t[n] : n \in DOMAIN t}
<1> DEFINE h == <<x>>
           s == h \o t
<1>1. h \in Seq(S) /\ Len(h) = 1 /\ h[1] = x /\ Len(t) \in Nat /\ DOMAIN t = 1..Len(t)
  BY LenProperties
<1> HIDE DEF h
<1>2. s \in Seq(S) /\ Len(s) = Len(h) + Len(t)
      /\ \A i \in 1..(Len(h) + Len(t)) : s[i] = IF i <= Len(h) THEN h[i] ELSE t[i - Len(h)]
  BY <1>1, ConcatProperties
<1>3. DOMAIN s = 1..(1 + Len(t))
  BY <1>1, <1>2, LenProperties
<1> HIDE DEF s
<1>4. 1 \in DOMAIN s /\ s[1] = x
  BY <1>1, <1>2, <1>3
<1>5. ASSUME NEW n \in DOMAIN t PROVE n + 1 \in DOMAIN s /\ s[n + 1] = t[n]
  <2>1. n + 1 \in 1..(1 + Len(t)) /\ ~(n + 1 <= 1) /\ (n + 1) - 1 = n
    BY <1>1
  <2> QED
    BY <1>1, <1>2, <1>3, <2>1
<1>6. ASSUME NEW n \in DOMAIN s, n # 1 PROVE n - 1 \in DOMAIN t /\ s[n] = t[n - 1]
  <2>1. n \in 1..(1 + Len(t)) /\ ~(n <= 1) /\ n - 1 \in 1..Len(t)
    BY <1>1, <1>3, <1>6
  <2> QED
    BY <1>1, <1>2, <2>1
<1>7. ToSet(s) = {x} \cup {t[n] : n \in DOMAIN t}
  BY <1>4, <1>5, <1>6 DEF ToSet
<1> QED
  BY <1>2, <1>7 DEF s, h

\* Of an instruction that goes nowhere, no successor is paired.
LEMMA NothingPaired ==
  ASSUME NEW l, NEW r, l.op \notin {"br", "switch", "invoke"}
  PROVE  Paired(l, r) = <<>>
BY DEF Paired, SuccPairs

CaseOf(l, c) == CHOOSE m \in DOMAIN l.cases : l.cases[m] = c

LEMMA CaseOfFacts ==
  ASSUME NEW l, NEW c \in ToSet(l.cases)
  PROVE  CaseOf(l, c) \in DOMAIN l.cases /\ l.cases[CaseOf(l, c)] = c
BY DEF CaseOf, ToSet

\* The pairs of two terminators that agree: every successor of the left one has a
\* partner, and of a switch each case has the successor of that case.
LEMMA PairedFacts ==
  ASSUME NEW l, NEW r, IsInstruction(l), IsInstruction(r),
         ToSet(l.succs) \subseteq Nat, ToSet(r.succs) \subseteq Nat,
         l.op = r.op, l.op \in {"br", "switch"} => Len(l.ops) = Len(r.ops),
         l.op = "switch" => ToSet(l.cases) = ToSet(r.cases)
  PROVE  /\ Paired(l, r) \in Seq(BlockPairs)
         /\ ToSet(Paired(l, r)) \subseteq ToSet(l.succs) \X ToSet(r.succs)
         /\ l.op \in {"br", "invoke"} =>
              /\ DOMAIN l.succs = DOMAIN r.succs
              /\ ToSet(Paired(l, r)) = {<<l.succs[n], r.succs[n]>> : n \in DOMAIN l.succs}
         /\ l.op = "switch" =>
              ToSet(Paired(l, r)) =
                {<<l.succs[1], r.succs[1]>>} \cup
                {<<l.succs[1 + CaseOf(l, r.cases[n])], r.succs[n + 1]>> : n \in DOMAIN r.cases}
<1>1. /\ Len(l.succs) \in Nat /\ DOMAIN l.succs = 1..Len(l.succs)
      /\ Len(r.succs) \in Nat /\ DOMAIN r.succs = 1..Len(r.succs)
      /\ Len(l.cases) \in Nat /\ DOMAIN l.cases = 1..Len(l.cases)
      /\ Len(r.cases) \in Nat /\ DOMAIN r.cases = 1..Len(r.cases)
  BY SequenceFacts DEF IsInstruction
<1>2. ASSUME NEW n, NEW m, n \in DOMAIN l.succs, m \in DOMAIN r.succs
      PROVE  /\ <<l.succs[n], r.succs[m]>> \in BlockPairs
             /\ <<l.succs[n], r.succs[m]>> \in ToSet(l.succs) \X ToSet(r.succs)
  BY <1>2 DEF ToSet, BlockPairs
<1> DEFINE straight == [n \in DOMAIN l.succs |-> <<l.succs[n], r.succs[n]>>]
<1>3. ASSUME l.op \in {"br", "invoke"} PROVE Len(l.succs) = Len(r.succs)
  <2>1. CASE l.op = "br"
    BY <2>1 DEF IsInstruction
  <2>2. CASE l.op = "invoke"
    BY <2>2 DEF IsInstruction
  <2> QED
    BY <1>3, <2>1, <2>2
<1>4. ASSUME l.op \in {"br", "invoke"}
      PROVE  /\ straight \in Seq(BlockPairs) /\ DOMAIN straight = DOMAIN l.succs /\ Len(straight) = Len(l.succs)
             /\ ToSet(straight) = {<<l.succs[n], r.succs[n]>> : n \in DOMAIN l.succs}
             /\ ToSet(straight) \subseteq ToSet(l.succs) \X ToSet(r.succs)
  <2>1. \A n \in DOMAIN l.succs : n \in DOMAIN r.succs
    BY <1>1, <1>3, <1>4
  <2>2. straight \in [1..Len(l.succs) -> BlockPairs]
    BY <1>1, <1>2, <2>1
  <2>3. straight \in Seq(BlockPairs) /\ Len(straight) = Len(l.succs)
    <3> HIDE DEF straight
    <3> QED
      BY <1>1, <2>2, MapIsSequence
  <2>4. ToSet(straight) = {<<l.succs[n], r.succs[n]>> : n \in DOMAIN l.succs}
    BY DEF ToSet
  <2>5. {<<l.succs[n], r.succs[n]>> : n \in DOMAIN l.succs} \subseteq ToSet(l.succs) \X ToSet(r.succs)
    BY <1>2, <2>1
  <2> QED
    BY <2>3, <2>4, <2>5
<1>5. CASE l.op = "br"
  <2>1. Paired(l, r) = Reverse(straight)
    BY <1>5 DEF Paired, SuccPairs
  <2> HIDE DEF straight
  <2>2. /\ Reverse(straight) \in Seq(BlockPairs) /\ DOMAIN Reverse(straight) = 1..Len(straight)
        /\ \A n \in 1..Len(straight) : Reverse(straight)[n] = straight[(Len(straight) - n) + 1]
    BY <1>1, <1>4, <1>5 DEF Reverse
  <2>3. ToSet(Reverse(straight)) = ToSet(straight)
    <3>1. ASSUME NEW n \in 1..Len(straight) PROVE Reverse(straight)[n] \in ToSet(straight)
      <4>1. (Len(straight) - n) + 1 \in DOMAIN straight
        BY <1>1, <1>4, <1>5
      <4> QED
        BY <2>2, <4>1 DEF ToSet
    <3>2. ASSUME NEW n \in DOMAIN straight PROVE straight[n] \in ToSet(Reverse(straight))
      <4> DEFINE j == (Len(straight) - n) + 1
      <4>1. j \in 1..Len(straight) /\ (Len(straight) - j) + 1 = n
        <5>1. n \in 1..Len(straight) /\ Len(straight) \in Nat
          BY <1>1, <1>4, <1>5
        <5> QED
          BY <5>1
      <4>2. Reverse(straight)[j] = straight[n]
        BY <2>2, <4>1
      <4> HIDE DEF j
      <4> QED
        BY <2>2, <4>1, <4>2 DEF ToSet
    <3> QED
      BY <2>2, <3>1, <3>2 DEF ToSet
  <2> QED
    BY <1>1, <1>3, <1>4, <1>5, <2>1, <2>2, <2>3
<1>6. CASE l.op = "invoke"
  <2>1. Paired(l, r) = straight
    BY <1>6 DEF Paired, SuccPairs
  <2> HIDE DEF straight
  <2> QED
    BY <1>1, <1>3, <1>4, <1>6, <2>1
<1>7. CASE l.op = "switch"
  <2> DEFINE h == <<<<l.succs[1], r.succs[1]>>>>
             t == [n \in DOMAIN r.cases |-> <<l.succs[1 + CaseOf(l, r.cases[n])], r.succs[n + 1]>>]
  <2>1. Paired(l, r) = h \o t
    BY <1>7 DEF Paired, SuccPairs, CaseOf
  <2>2. Len(l.succs) = Len(l.cases) + 1 /\ Len(r.succs) = Len(r.cases) + 1
    BY <1>7 DEF IsInstruction
  <2>3. ASSUME NEW n \in DOMAIN r.cases
        PROVE  1 + CaseOf(l, r.cases[n]) \in DOMAIN l.succs /\ n + 1 \in DOMAIN r.succs
    <3>1. r.cases[n] \in ToSet(l.cases)
      BY <1>7 DEF ToSet
    <3>2. CaseOf(l, r.cases[n]) \in DOMAIN l.cases
      BY <3>1, CaseOfFacts
    <3> QED
      BY <1>1, <2>2, <3>2
  <2>4. 1 \in DOMAIN l.succs /\ 1 \in DOMAIN r.succs
    BY <1>1, <2>2
  <2>5. t \in Seq(BlockPairs) /\ DOMAIN t = DOMAIN r.cases
    <3>1. \A n \in DOMAIN r.cases : t[n] \in BlockPairs
      BY <1>2, <2>3
    <3>2. t \in [1..Len(r.cases) -> BlockPairs] /\ DOMAIN t = DOMAIN r.cases
      BY <1>1, <3>1
    <3> HIDE DEF t
    <3> QED
      BY <1>1, <3>2, MapIsSequence
  <2>6. <<l.succs[1], r.succs[1]>> \in BlockPairs
    BY <1>2, <2>4
  <2>7. \A n \in DOMAIN r.cases : t[n] = <<l.succs[1 + CaseOf(l, r.cases[n])], r.succs[n + 1]>>
    OBVIOUS
  <2> HIDE DEF t
  <2>8. h \o t \in Seq(BlockPairs) /\ ToSet(h \o t) = {<<l.succs[1], r.succs[1]>>} \cup {t[n] : n \in DOMAIN t}
    BY <2>5, <2>6, HeadedSet
  <2>9. {t[n] : n \in DOMAIN t} = {<<l.succs[1 + CaseOf(l, r.cases[n])], r.succs[n + 1]>> : n \in DOMAIN r.cases}
    BY <2>5, <2>7
  <2> HIDE DEF h
  <2>10. ToSet(h \o t) = {<<l.succs[1], r.succs[1]>>} \cup
                {<<l.succs[1 + CaseOf(l, r.cases[n])], r.succs[n + 1]>> : n \in DOMAIN r.cases}
    BY <2>8, <2>9
  <2>11. ToSet(h \o t) \subseteq ToSet(l.succs) \X ToSet(r.succs)
    <3>1. l.succs[1] \in ToSet(l.succs) /\ r.succs[1] \in ToSet(r.succs)
      BY <2>4 DEF ToSet
    <3>2. ASSUME NEW n \in DOMAIN r.cases
          PROVE  l.succs[1 + CaseOf(l, r.cases[n])] \in ToSet(l.succs) /\ r.succs[n + 1] \in ToSet(r.succs)
      BY <2>3 DEF ToSet
    <3> QED
      BY <2>10, <3>1, <3>2
  <2> QED
    BY <1>7, <2>1, <2>8, <2>10, <2>11
<1>8. CASE l.op \notin {"br", "switch", "invoke"}
  <2>1. Paired(l, r) = <<>>
    BY <1>8, NothingPaired
  <2>2. ToSet(<<>>) = {} /\ <<>> \in Seq(BlockPairs)
    BY DEF ToSet
  <2> QED
    BY <1>8, <2>1, <2>2
<1> QED
  BY <1>5, <1>6, <1>7, <1>8

-----------------------------------------------------------------------------
(* Instructions that agree *)

LEMMA SameAgrees ==
  ASSUME ValuesInv, Active, NEW l, NEW r, Same(l, r)
  PROVE  Agree(l, r)
<1>1. ASSUME NEW lo, NEW ro, Equivalent(lo, ro) PROVE Agrees(lo, ro)
  <2>0. lo[1] = ro[1]
    BY <1>1 DEF Equivalent
  <2>1. CASE lo[1] = "const"
    BY <1>1, <2>0, <2>1 DEF Equivalent, Agrees
  <2>2. CASE lo[1] = "arg"
    <3>1. lo \in DOMAIN Values /\ Values[lo] = ro
      BY <1>1, <2>2 DEF Equivalent
    <3>2. ~IsValue(lo)
      BY <2>2 DEF IsValue
    <3>3. ro = lo
      BY <3>1, <3>2 DEF ValuesInv
    <3> QED
      BY <2>0, <2>2, <3>3 DEF Agrees
  <2>3. CASE lo[1] = "inst"
    <3>1. CASE lo \in DOMAIN Values /\ Values[lo] = ro
      <4>1. lo # <<"arg", lo[2]>>
        BY <2>3
      <4>2. IsValue(lo) /\ ro = Counterpart(lo)
        BY <3>1, <4>1 DEF ValuesInv
      <4> QED
        BY <2>0, <2>3, <4>2 DEF Agrees, IsValue
    <3>2. CASE <<lo, ro>> \in Tentative
      <4>1. IsValue(lo) /\ ro = Counterpart(lo)
        BY <3>2 DEF ValuesInv
      <4> QED
        BY <2>0, <2>3, <4>1 DEF Agrees, IsValue
    <3> QED
      BY <1>1, <2>3, <3>1, <3>2 DEF Equivalent
  <2>4. CASE lo[1] \in {"block", "address", "other"}
    BY <1>1, <2>0, <2>4 DEF Equivalent, Agrees
  <2> QED
    BY <1>1, <2>1, <2>2, <2>3, <2>4 DEF Equivalent
<1>2. l.op \notin {"phi", "unreachable"} =>
        Len(l.ops) = Len(r.ops) /\ \A n \in DOMAIN l.ops : Agrees(l.ops[n], r.ops[n])
  BY <1>1 DEF Same, OperandsEquivalent
<1> QED
  BY <1>2 DEF Same, Agree

\* Paired blocks stay paired, and no more are paired.
KeepsBlocks ==
  /\ \A b : Unified(b, Blocks) => Unified(b, Blocks)' /\ Blocks'[b] = Blocks[b]
  /\ \A b \in DOMAIN Blocks' : (b \in DOMAIN Blocks /\ Blocks'[b] = Blocks[b]) \/ Blocks'[b] = NULL

LEMMA AgreeStable ==
  ASSUME KeepsBlocks, NEW l, NEW r, Agree(l, r),
         \A n \in DOMAIN l.ops : r.ops[n][1] \in {"block", "address"} => r.ops[n][2] # NULL
  PROVE  Agree(l, r)'
<1>1. ASSUME NEW n \in DOMAIN l.ops, Agrees(l.ops[n], r.ops[n])
      PROVE  Agrees(l.ops[n], r.ops[n])'
  <2> DEFINE lo == l.ops[n]
             ro == r.ops[n]
  <2>1. lo[1] = ro[1] /\ (lo[1] \in {"const", "arg"} => lo = ro)
    BY <1>1 DEF Agrees
  <2>2. ASSUME lo[1] = "inst" PROVE Unified(lo[2], Blocks)' /\ ro = <<"inst", Blocks'[lo[2]], lo[3]>>
    BY <1>1, <2>2 DEF Agrees, Counterpart, KeepsBlocks
  <2>3. ASSUME lo[1] = "block" PROVE ~(lo[2] \in DOMAIN Blocks' /\ Blocks'[lo[2]] = ro[2])
    <3>1. ro[2] # NULL /\ ~(lo[2] \in DOMAIN Blocks /\ Blocks[lo[2]] = ro[2])
      BY <1>1, <2>1, <2>3 DEF Agrees
    <3> QED
      BY <3>1 DEF KeepsBlocks
  <2>4. ASSUME lo[1] = "address" PROVE lo[2] \in DOMAIN Blocks' /\ Blocks'[lo[2]] = ro[2]
    <3>1. Unified(lo[2], Blocks) /\ Blocks[lo[2]] = ro[2]
      BY <1>1, <2>1, <2>4 DEF Agrees, Unified
    <3> QED
      BY <3>1 DEF KeepsBlocks, Unified
  <2> QED
    BY <2>1, <2>2, <2>3, <2>4 DEF Agrees, Counterpart
<1>2. l.op \notin {"phi", "unreachable"} =>
       Len(l.ops) = Len(r.ops) /\ \A n \in DOMAIN l.ops : Agrees(l.ops[n], r.ops[n])'
  BY <1>1 DEF Agree
<1> QED
  BY <1>2 DEF Agree

-----------------------------------------------------------------------------
(* The pair that is compared *)

LEMMA PairFacts ==
  ASSUME NamesInv, BlocksInv, OnPair
  PROVE  /\ IsFunction(L) /\ IsFunction(R)
         /\ Blocks \in BlockMaps /\ DOMAIN Blocks \subseteq DOMAIN L.blocks
         /\ \A b \in DOMAIN Blocks : Blocks[b] \in DOMAIN R.blocks \cup {NULL}
         /\ NULL \notin DOMAIN R.blocks
         /\ Unified(pair[1], Blocks) /\ Blocks[pair[1]] = pair[2] /\ pair = <<pair[1], pair[2]>>
         /\ pair[1] \in DOMAIN L.blocks /\ pair[2] \in DOMAIN R.blocks
         /\ Len(LBlock) \in Nat \ {0} /\ DOMAIN LBlock = 1..Len(LBlock) /\ Last(LBlock) = LBlock[Len(LBlock)]
         /\ Len(RBlock) \in Nat \ {0} /\ DOMAIN RBlock = 1..Len(RBlock)
<1>1. Active
  BY DEF OnPair, Active
<1>2. IsFunction(L) /\ IsFunction(R)
  BY <1>1, ActiveFunctions
<1>3. PICK A \in SUBSET DOMAIN L.blocks : Blocks \in [A -> DOMAIN R.blocks \cup {NULL}]
  BY <1>1 DEF BlocksInv
<1>4. DOMAIN Blocks = A /\ \A b \in A : Blocks[b] \in DOMAIN R.blocks \cup {NULL}
  BY <1>3
<1>5. DOMAIN L.blocks \subseteq Nat /\ DOMAIN R.blocks \subseteq Nat \ {0}
  BY <1>2, BlockFacts
<1>6. Blocks \in [A -> Nat] /\ A \in SUBSET Nat
  BY <1>3, <1>4, <1>5 DEF NULL
<1>7. Unified(pair[1], Blocks) /\ Blocks[pair[1]] = pair[2] /\ pair = <<pair[1], pair[2]>>
  BY <1>1 DEF BlocksInv, BlockPairs
<1>8. pair[1] \in DOMAIN L.blocks /\ pair[2] \in DOMAIN R.blocks
  BY <1>4, <1>7 DEF Unified
<1>9. Len(LBlock) \in Nat \ {0} /\ DOMAIN LBlock = 1..Len(LBlock) /\ Last(LBlock) = LBlock[Len(LBlock)]
  BY <1>2, <1>8, BlockFacts DEF LBlock
<1>10. Len(RBlock) \in Nat \ {0} /\ DOMAIN RBlock = 1..Len(RBlock)
  BY <1>2, <1>8, BlockFacts DEF RBlock
<1>11. Blocks \in BlockMaps
  BY <1>6 DEF BlockMaps
<1>12. NULL \notin DOMAIN R.blocks
  BY <1>5 DEF NULL
<1> QED
  BY <1>2, <1>3, <1>4, <1>7, <1>8, <1>9, <1>10, <1>11, <1>12

\* The operands that are blocks or their addresses are of blocks of the function.
LEMMA BlockOperand ==
  ASSUME NEW f, NEW b, NEW n, NEW o, IsOperand(f, b, n, o), o[1] \in {"block", "address"}
  PROVE  o[2] \in DOMAIN f.blocks
BY DEF IsOperand

LEMMA PairInstructions ==
  ASSUME NamesInv, BlocksInv, OnPair
  PROVE  /\ \A n \in DOMAIN LBlock :
              /\ IsInstruction(LBlock[n])
              /\ LBlock[n].op \in Terminators <=> n = Len(LBlock)
              /\ ToSet(LBlock[n].succs) \subseteq DOMAIN L.blocks
              /\ DOMAIN LBlock[n].ops = 1..Len(LBlock[n].ops)
              /\ \A m \in DOMAIN LBlock[n].ops : IsOperand(L, pair[1], n, LBlock[n].ops[m])
         /\ \A n \in DOMAIN RBlock :
              /\ IsInstruction(RBlock[n])
              /\ RBlock[n].op \in Terminators <=> n = Len(RBlock)
              /\ ToSet(RBlock[n].succs) \subseteq DOMAIN R.blocks
              /\ DOMAIN RBlock[n].ops = 1..Len(RBlock[n].ops)
              /\ \A m \in DOMAIN RBlock[n].ops : IsOperand(R, pair[2], n, RBlock[n].ops[m])
<1>1. IsFunction(L) /\ IsFunction(R) /\ pair[1] \in DOMAIN L.blocks /\ pair[2] \in DOMAIN R.blocks
  BY PairFacts
<1>2. ASSUME NEW n \in DOMAIN LBlock
      PROVE  /\ IsInstruction(LBlock[n])
             /\ LBlock[n].op \in Terminators <=> n = Len(LBlock)
             /\ ToSet(LBlock[n].succs) \subseteq DOMAIN L.blocks
             /\ \A m \in DOMAIN LBlock[n].ops : IsOperand(L, pair[1], n, LBlock[n].ops[m])
  BY <1>1, InstructionFacts DEF LBlock
<1>3. ASSUME NEW n \in DOMAIN RBlock
      PROVE  /\ IsInstruction(RBlock[n])
             /\ RBlock[n].op \in Terminators <=> n = Len(RBlock)
             /\ ToSet(RBlock[n].succs) \subseteq DOMAIN R.blocks
             /\ \A m \in DOMAIN RBlock[n].ops : IsOperand(R, pair[2], n, RBlock[n].ops[m])
  BY <1>1, InstructionFacts DEF RBlock
<1>4. ASSUME NEW i, IsInstruction(i) PROVE DOMAIN i.ops = 1..Len(i.ops)
  BY <1>4, SequenceFacts DEF IsInstruction
<1> QED
  BY <1>2, <1>3, <1>4

LEMMA LookupsKeep ==
  ASSUME NamesInv, BlocksInv, OnPair, k \in DOMAIN LBlock, k \in DOMAIN RBlock,
         Blocks' = WithLookups(LBlock[k], RBlock[k])
  PROVE  /\ KeepsBlocks
         /\ \A b : Unified(b, Blocks)' => Unified(b, Blocks)
         /\ \E A \in SUBSET DOMAIN L.blocks : Blocks' \in [A -> DOMAIN R.blocks \cup {NULL}]
<1> DEFINE l == LBlock[k]
           r == RBlock[k]
<1>1. DOMAIN Blocks' = DOMAIN Blocks \cup LookedUp(l, r)
      /\ \A b \in DOMAIN Blocks' : Blocks'[b] = IF b \in DOMAIN Blocks THEN Blocks[b] ELSE NULL
  BY DEF WithLookups
<1>2. LookedUp(l, r) \subseteq DOMAIN L.blocks
  <2>1. \A m \in DOMAIN l.ops : IsOperand(L, pair[1], k, l.ops[m])
    BY PairInstructions
  <2>2. \A m \in DOMAIN l.ops : l.ops[m][1] \in {"block", "address"} => l.ops[m][2] \in DOMAIN L.blocks
    BY <2>1, BlockOperand
  <2> HIDE DEF l, r
  <2> QED
    BY <2>2 DEF LookedUp
<1>3. DOMAIN Blocks \subseteq DOMAIN L.blocks /\ \A b \in DOMAIN Blocks : Blocks[b] \in DOMAIN R.blocks \cup {NULL}
  BY PairFacts
<1> HIDE DEF l, r
<1>4. KeepsBlocks /\ \A b : Unified(b, Blocks)' => Unified(b, Blocks)
  BY <1>1 DEF KeepsBlocks, Unified
<1>5. Blocks' = [b \in DOMAIN Blocks' |-> Blocks'[b]]
  BY DEF WithLookups
<1>6. Blocks' \in [DOMAIN Blocks' -> DOMAIN R.blocks \cup {NULL}] /\ DOMAIN Blocks' \in SUBSET DOMAIN L.blocks
  BY <1>1, <1>2, <1>3, <1>5
<1> QED
  BY <1>4, <1>6

\* An operand of an instruction is an argument, defined before it in its block,
\* or has its value; of the blocks only phis and others know more.
LEMMA OperandKnown ==
  ASSUME NamesInv, BlocksInv, ValuesInv, DominatorsInv, OnPair,
         NEW n \in DOMAIN LBlock, LBlock[n].op # "phi", NEW o, IsOperand(L, pair[1], n, o)
  PROVE  \/ o = <<"const", o[2]>>
         \/ o[1] = "arg" /\ o \in DOMAIN Values /\ Values[o] = o
         \/ o[1] \in {"block", "address", "other"}
         \/ /\ o = <<"inst", pair[1], o[3]>> /\ o[3] \in DOMAIN LBlock /\ o[3] < n /\ LBlock[o[3]].used
         \/ o[1] = "inst" /\ o \in DOMAIN Values /\ IsValue(o) /\ Values[o] = Counterpart(o)
<1>0. Active /\ Unified(pair[1], Blocks) /\ pair[1] \in DOMAIN L.blocks
  BY PairFacts DEF OnPair, Active
<1>1. CASE o = <<"arg", o[2]>> /\ o[2] \in 1..L.args
  <2>1. o \in DOMAIN Values /\ o[1] = "arg"
    BY <1>0, <1>1 DEF ValuesInv
  <2>2. ~IsValue(o)
    BY <1>1 DEF IsValue
  <2> QED
    BY <1>0, <2>1, <2>2 DEF ValuesInv
<1>2. CASE /\ o = <<"inst", o[2], o[3]>>
           /\ o[2] \in DOMAIN L.blocks /\ o[3] \in DOMAIN L.blocks[o[2]]
           /\ L.blocks[o[2]][o[3]].used
           /\ (o[2] = pair[1] /\ o[3] < n) \/ Dominates(L, o[2], pair[1])
  <2>1. CASE o[2] = pair[1] /\ o[3] < n
    BY <1>2, <2>1 DEF LBlock
  <2>2. CASE Dominates(L, o[2], pair[1])
    <3>1. PICK S \in SUBSET DOMAIN L.blocks :
            Entry \in S /\ pair[1] \notin S /\ \A c \in S \ {o[2]} : Succs(L, c) \subseteq S
      BY <2>2 DEF Dominates
    <3>2. Valued(o[2])
      <4>1. pair[1] \in DOMAIN Blocks
        BY <1>0 DEF Unified
      <4> QED
        BY <1>0, <1>2, <3>1, <4>1 DEF DominatorsInv
    <3>3. o \in DOMAIN Values /\ o[1] = "inst" /\ o # <<"arg", o[2]>>
      BY <1>2, <3>2 DEF Valued
    <3> QED
      BY <1>0, <3>3 DEF ValuesInv
  <2> QED
    BY <1>2, <2>1, <2>2
<1> QED
  BY <1>1, <1>2 DEF IsOperand, LBlock

-----------------------------------------------------------------------------
(* The invariant *)

LEMMA IInvInit == Init => IInv
<1> SUFFICES ASSUME Init PROVE IInv
  OBVIOUS
<1>1. ~Active /\ pc = "modules"
  BY DEF Init, Active
<1>2. NamesInv
  BY <1>1 DEF Init, NamesInv
<1>3. k \in Nat \ {0}
  BY DEF Init
<1> QED
  BY <1>1, <1>2, <1>3 DEF IInv, BlocksInv, ValuesInv, DominatorsInv, CompareInv, UnifyInv

\* Between functions only the names matter.
LEMMA IInvBetween ==
  ASSUME IInv, NamesInv', k' \in Nat \ {0}, ~Active'
  PROVE  IInv'
BY DEF IInv, BlocksInv, ValuesInv, DominatorsInv, CompareInv, UnifyInv, Active

LEMMA IInvNames ==
  ASSUME IInv, NamesDiffer \/ NamesAgree \/ AllCompared \/ QueueEmpty \/ \E n \in todo : SkipFunction(n)
  PROVE  IInv'
<1>1. ~Active' /\ k' = k
  BY DEF NamesDiffer, NamesAgree, AllCompared, QueueEmpty, SkipFunction, Active, IInv, NamesInv
<1>2. k' \in Nat \ {0}
  BY <1>1 DEF IInv
<1>3. NamesInv'
  BY <1>1 DEF IInv, NamesInv, NamesDiffer, NamesAgree, AllCompared, QueueEmpty, SkipFunction, inputVars, Active
<1> QED
  BY <1>1, <1>2, <1>3, IInvBetween

LEMMA IInvStart ==
  ASSUME IInv, NEW n \in todo, StartFunction(n)
  PROVE  IInv'
<1>1. NamesInv'
  BY DEF IInv, NamesInv, StartFunction, inputVars, Active, IsDeclaration, L, R
<1>2. Active' /\ pc' = "dequeue" /\ k' \in Nat \ {0} /\ L' = left[n] /\ R' = right[n]
  BY DEF StartFunction, Active, IInv, inputVars, L, R
<1>3. IsFunction(L') /\ IsFunction(R') /\ L'.blocks # <<>> /\ R'.blocks # <<>>
  <2>1. n \in DOMAIN left /\ n \in DOMAIN right
    BY DEF StartFunction, IInv, NamesInv
  <2>2. IsFunction(left[n]) /\ IsFunction(right[n])
    BY <2>1, FunctionsCompared DEF IInv
  <2>3. left[n].blocks # <<>> /\ right[n].blocks # <<>>
    BY DEF StartFunction, IsDeclaration
  <2> QED
    BY <1>2, <2>2, <2>3
<1>4. Entry \in DOMAIN L'.blocks /\ Entry \in DOMAIN R'.blocks
  <2>1. ASSUME NEW f, IsFunction(f), f.blocks # <<>> PROVE Entry \in DOMAIN f.blocks
    <3>1. IsSequence(f.blocks)
      BY <2>1 DEF IsFunction
    <3>2. Len(f.blocks) \in Nat \ {0} /\ DOMAIN f.blocks = 1..Len(f.blocks)
      BY <2>1, <3>1, EmptySeq, LenProperties DEF IsSequence
    <3> QED
      BY <3>2 DEF Entry
  <2> QED
    BY <1>3, <2>1
<1>5. /\ Blocks' = [b \in {Entry} |-> Entry] /\ Queue' = <<<<Entry, Entry>>>> /\ lost' = {}
      /\ Values' = [a \in {<<"arg", m>> : m \in 1..left[n].args} |-> a] /\ Tentative' = {}
  BY DEF StartFunction
<1>6. DOMAIN Blocks' = {Entry} /\ Blocks'[Entry] = Entry /\ Unified(Entry, Blocks')
  BY <1>5 DEF Unified, Entry, NULL
<1>7. BlocksInv'
  <2>1. Blocks' \in [{Entry} -> DOMAIN R'.blocks \cup {NULL}] /\ {Entry} \in SUBSET DOMAIN L'.blocks
    BY <1>4, <1>5
  <2>2. Queue' \in Seq(BlockPairs) /\ ToSet(Queue') = {<<Entry, Entry>>}
    BY <1>5 DEF BlockPairs, Entry, ToSet
  <2>3. \A p \in ToSet(Queue') : Unified(p[1], Blocks') /\ Blocks'[p[1]] = p[2]
    BY <1>6, <2>2
  <2>4. ~OnPair'
    BY <1>2 DEF OnPair
  <2> QED
    BY <1>5, <1>6, <2>1, <2>2, <2>3, <2>4 DEF BlocksInv
<1>8. ValuesInv'
  BY <1>2, <1>5 DEF ValuesInv
<1>9. DominatorsInv'
  BY <1>6 DEF DominatorsInv, Unified
<1> QED
  BY <1>1, <1>2, <1>7, <1>8, <1>9 DEF IInv, CompareInv, UnifyInv

LEMMA IInvDequeue ==
  ASSUME IInv, Dequeue
  PROVE  IInv'
<1>1. /\ Active /\ Active' /\ OnPair' /\ pc = "dequeue" /\ pc' = "compare" /\ k' = 1
      /\ UNCHANGED <<left, right, todo, name, Values, Blocks, Tentative, lost, Differences>>
      /\ L' = L /\ R' = R
  BY DEF Dequeue, Active, OnPair, inputVars, L, R
<1>2. NamesInv'
  BY <1>1 DEF IInv, NamesInv
<1>3. BlocksInv'
  <2>1. Queue \in Seq(BlockPairs) /\ Queue # <<>> /\ pair' = Queue[1] /\ Queue' = RemoveMin(Queue, Blocks)
    BY <1>1 DEF IInv, BlocksInv, Dequeue
  <2>2. Queue' \in Seq(BlockPairs) /\ ToSet(Queue') \subseteq ToSet(Queue)
    BY <2>1, RemoveMinKeeps
  <2>3. pair' \in BlockPairs /\ pair' \in ToSet(Queue)
    <3>1. 1 \in 1..Len(Queue) /\ DOMAIN Queue = 1..Len(Queue)
      BY <2>1, EmptySeq, LenProperties
    <3> QED
      BY <2>1, <3>1, ElementOfSeq DEF ToSet
  <2>4. /\ \E A \in SUBSET DOMAIN L.blocks : Blocks \in [A -> DOMAIN R.blocks \cup {NULL}]
        /\ Unified(Entry, Blocks) /\ lost \in SUBSET BlockPairs
        /\ \A p \in ToSet(Queue) : Unified(p[1], Blocks) /\ Blocks[p[1]] = p[2]
    BY <1>1 DEF IInv, BlocksInv
  <2>5. Unified(pair'[1], Blocks) /\ Blocks[pair'[1]] = pair'[2]
    BY <2>3, <2>4
  <2>6. \A p \in ToSet(Queue') : Unified(p[1], Blocks') /\ Blocks'[p[1]] = p[2]
    BY <1>1, <2>2, <2>4
  <2> QED
    BY <1>1, <2>2, <2>3, <2>4, <2>5, <2>6 DEF BlocksInv
<1>4. ValuesInv'
  BY <1>1 DEF IInv, ValuesInv, IsValue, Counterpart
<1>5. DominatorsInv'
  BY <1>1 DEF IInv, DominatorsInv, Valued
<1>6. Len(LBlock') \in Nat \ {0} /\ Len(RBlock') \in Nat \ {0}
  <2>1. IsFunction(L') /\ IsFunction(R')
    BY <1>1, ActiveFunctions DEF IInv
  <2>2. PICK A \in SUBSET DOMAIN L'.blocks : Blocks' \in [A -> DOMAIN R'.blocks \cup {NULL}]
    BY <1>1, <1>3 DEF BlocksInv
  <2>3. Unified(pair'[1], Blocks') /\ Blocks'[pair'[1]] = pair'[2]
    BY <1>1, <1>3 DEF BlocksInv
  <2>4. pair'[1] \in DOMAIN L'.blocks /\ pair'[2] \in DOMAIN R'.blocks
    BY <2>2, <2>3 DEF Unified
  <2>5. Len(L'.blocks[pair'[1]]) \in Nat \ {0} /\ Len(R'.blocks[pair'[2]]) \in Nat \ {0}
    BY <2>1, <2>4, BlockFacts
  <2> QED
    BY <2>5 DEF LBlock, RBlock
<1>7. CompareInv'
  BY <1>1, <1>6 DEF CompareInv
<1> QED
  BY <1>1, <1>2, <1>3, <1>4, <1>5, <1>7 DEF IInv, UnifyInv

\* Looking blocks up as operands changes nothing else.
LEMMA LookupsKeepInv ==
  ASSUME IInv, OnPair, k \in DOMAIN LBlock, k \in DOMAIN RBlock,
         Blocks' = WithLookups(LBlock[k], RBlock[k]), Active',
         UNCHANGED <<left, right, todo, name, Values, Queue, lost, pair>>
  PROVE  /\ L' = L /\ R' = R /\ LBlock' = LBlock /\ RBlock' = RBlock
         /\ KeepsBlocks /\ BlocksInv' /\ DominatorsInv'
         /\ \A v : IsValue(v) => IsValue(v)' /\ Counterpart(v)' = Counterpart(v)
<1>1. L' = L /\ R' = R /\ LBlock' = LBlock /\ RBlock' = RBlock
  BY DEF L, R, LBlock, RBlock
<1>2. /\ KeepsBlocks
      /\ \A b : Unified(b, Blocks)' => Unified(b, Blocks)
      /\ \E A \in SUBSET DOMAIN L.blocks : Blocks' \in [A -> DOMAIN R.blocks \cup {NULL}]
  BY LookupsKeep DEF IInv
<1>3. \A b : Unified(b, Blocks) => Unified(b, Blocks') /\ Blocks'[b] = Blocks[b]
  BY <1>2 DEF KeepsBlocks
<1>4. \A b : Unified(b, Blocks') => Unified(b, Blocks)
  BY <1>2
<1>5. Active
  BY DEF OnPair, Active
<1>6. BlocksInv'
  <2>1. /\ Unified(Entry, Blocks') /\ Queue \in Seq(BlockPairs) /\ lost \in SUBSET BlockPairs
        /\ \A p \in ToSet(Queue) : Unified(p[1], Blocks') /\ Blocks'[p[1]] = p[2]
        /\ pair \in BlockPairs /\ Unified(pair[1], Blocks') /\ Blocks'[pair[1]] = pair[2]
    BY <1>3, <1>5 DEF IInv, BlocksInv
  <2>2. \E A \in SUBSET DOMAIN L'.blocks : Blocks' \in [A -> DOMAIN R'.blocks \cup {NULL}]
    BY <1>1, <1>2
  <2> QED
    BY <2>1, <2>2 DEF BlocksInv
<1>7. DominatorsInv'
  <2>1. \A a \in DOMAIN L.blocks, S \in SUBSET DOMAIN L.blocks :
          ~Valued(a) /\ Entry \in S /\ (\A c \in S \ {a} : Succs(L, c) \subseteq S)
            => \A b \in DOMAIN Blocks : Unified(b, Blocks) => b \in S
    BY <1>5 DEF IInv, DominatorsInv
  <2>2. \A b \in DOMAIN Blocks' : Unified(b, Blocks') => b \in DOMAIN Blocks /\ Unified(b, Blocks)
    BY <1>4 DEF Unified
  <2>3. \A a : Valued(a)' <=> Valued(a)
    BY <1>1 DEF Valued
  <2> QED
    BY <1>1, <2>1, <2>2, <2>3 DEF DominatorsInv
<1>8. ASSUME NEW v, IsValue(v) PROVE IsValue(v)' /\ Counterpart(v)' = Counterpart(v)
  BY <1>3, <1>8 DEF IsValue, Counterpart
<1> QED
  BY <1>1, <1>2, <1>6, <1>7, <1>8

LEMMA ValuesKept ==
  ASSUME ValuesInv, Active, L' = L, Values' = Values,
         \A v : IsValue(v) => IsValue(v)' /\ Counterpart(v)' = Counterpart(v),
         \A t \in Tentative' : t \in Tentative \/ (IsValue(t[1])' /\ t = <<t[1], Counterpart(t[1])'>>)
  PROVE  ValuesInv'
<1>1. \A m \in 1..L'.args : <<"arg", m>> \in DOMAIN Values'
  BY DEF ValuesInv
<1>2. ASSUME NEW v \in DOMAIN Values'
      PROVE  (v = <<"arg", v[2]>> /\ Values'[v] = v) \/ (IsValue(v)' /\ Values'[v] = Counterpart(v)')
  BY DEF ValuesInv
<1>3. ASSUME NEW t \in Tentative' PROVE IsValue(t[1])' /\ t = <<t[1], Counterpart(t[1])'>>
  BY DEF ValuesInv
<1> QED
  BY <1>1, <1>2, <1>3 DEF ValuesInv

\* On the pair compared, the bounds of k.
LEMMA OnPairFacts ==
  ASSUME IInv, pc = "compare"
  PROVE  OnPair /\ Active /\ k \in DOMAIN LBlock /\ k \in DOMAIN RBlock
<1>1. OnPair /\ Active
  BY DEF OnPair, Active
<1>2. DOMAIN LBlock = 1..Len(LBlock) /\ DOMAIN RBlock = 1..Len(RBlock) /\ Len(RBlock) \in Nat /\ Len(LBlock) \in Nat
  BY <1>1, PairFacts DEF IInv
<1>3. k \in 1..Len(LBlock) /\ k <= Len(RBlock)
  BY DEF IInv, CompareInv
<1> QED
  BY <1>1, <1>2, <1>3

LEMMA IInvDifference ==
  ASSUME IInv, FindDifference
  PROVE  IInv'
<1>1. OnPair /\ Active /\ k \in DOMAIN LBlock /\ k \in DOMAIN RBlock
  BY OnPairFacts DEF FindDifference
<1>2. /\ pc = "compare" /\ pc' = "dequeue" /\ Active' /\ ~OnPair' /\ Differences' \in BOOLEAN /\ Tentative' = Tentative
      /\ k' = k /\ Blocks' = WithLookups(LBlock[k], RBlock[k])
      /\ UNCHANGED <<left, right, todo, name, Values, Queue, lost, pair>>
  BY DEF FindDifference, Active, OnPair, inputVars
<1>3. /\ L' = L /\ R' = R /\ KeepsBlocks /\ BlocksInv' /\ DominatorsInv'
      /\ \A v : IsValue(v) => IsValue(v)' /\ Counterpart(v)' = Counterpart(v)
  BY <1>1, <1>2, LookupsKeepInv
<1>4. NamesInv'
  BY <1>1, <1>2, <1>3 DEF IInv, NamesInv
<1>5. ValuesInv'
  BY <1>1, <1>2, <1>3, ValuesKept DEF IInv
<1> QED
  BY <1>2, <1>3, <1>4, <1>5 DEF IInv, CompareInv, UnifyInv

LEMMA IInvCompare ==
  ASSUME IInv, CompareInst
  PROVE  IInv'
<1>1. OnPair /\ Active /\ k \in DOMAIN LBlock /\ k \in DOMAIN RBlock /\ pc = "compare"
  BY OnPairFacts DEF CompareInst
<1>2. /\ Active' /\ OnPair' /\ Differences' = Differences
      /\ Blocks' = WithLookups(LBlock[k], RBlock[k])
      /\ UNCHANGED <<left, right, todo, name, Values, Queue, lost, pair>>
  BY <1>1 DEF CompareInst, Active, OnPair, inputVars
<1>3. /\ L' = L /\ R' = R /\ LBlock' = LBlock /\ RBlock' = RBlock /\ KeepsBlocks /\ BlocksInv' /\ DominatorsInv'
      /\ \A v : IsValue(v) => IsValue(v)' /\ Counterpart(v)' = Counterpart(v)
  BY <1>1, <1>2, LookupsKeepInv
<1>4. NamesInv'
  BY <1>1, <1>2, <1>3 DEF IInv, NamesInv, CompareInst
<1>5. /\ Len(LBlock) \in Nat \ {0} /\ DOMAIN LBlock = 1..Len(LBlock)
      /\ Len(RBlock) \in Nat \ {0} /\ DOMAIN RBlock = 1..Len(RBlock)
      /\ Unified(pair[1], Blocks) /\ Blocks[pair[1]] = pair[2]
  BY <1>1, PairFacts DEF IInv
<1>6. ASSUME NEW j \in 1..k, j \in DOMAIN LBlock, j \in DOMAIN RBlock PROVE Agree(LBlock[j], RBlock[j])'
  <2>1. Agree(LBlock[j], RBlock[j])
    <3>1. CASE j = k
      <4>1. Same(LBlock[j], RBlock[j])
        BY <3>1 DEF CompareInst
      <4> QED
        BY <1>1, <4>1, SameAgrees DEF IInv
    <3>2. CASE j # k
      <4>1. j \in 1..(k - 1)
        BY <1>1, <1>5, <3>2
      <4> QED
        BY <1>1, <4>1 DEF IInv, CompareInv
    <3> QED
      BY <3>1, <3>2
  <2>2. ASSUME NEW n \in DOMAIN RBlock[j].ops, RBlock[j].ops[n][1] \in {"block", "address"} PROVE RBlock[j].ops[n][2] # NULL
    <3>1. IsOperand(R, pair[2], j, RBlock[j].ops[n])
      BY <1>1, <1>6, PairInstructions DEF IInv
    <3>2. RBlock[j].ops[n][2] \in DOMAIN R.blocks
      BY <2>2, <3>1, BlockOperand
    <3> QED
      BY <1>1, <3>2, PairFacts DEF IInv
  <2>3. PICK l, r : l = LBlock[j] /\ r = RBlock[j]
    OBVIOUS
  <2>4. DOMAIN l.ops = 1..Len(l.ops) /\ DOMAIN r.ops = 1..Len(r.ops)
    BY <1>1, <1>6, <2>3, PairInstructions DEF IInv
  <2>5. Agree(l, r) /\ \A n \in DOMAIN r.ops : r.ops[n][1] \in {"block", "address"} => r.ops[n][2] # NULL
    BY <2>1, <2>2, <2>3
  <2>6. Agree(l, r)'
    <3>1. CASE l.op \in {"phi", "unreachable"}
      BY <2>5, <3>1 DEF Agree
    <3>2. CASE l.op \notin {"phi", "unreachable"}
      <4>1. Len(l.ops) = Len(r.ops)
        BY <2>5, <3>2 DEF Agree
      <4>2. \A n \in DOMAIN l.ops : r.ops[n][1] \in {"block", "address"} => r.ops[n][2] # NULL
        BY <2>4, <2>5, <4>1
      <4> QED
        BY <1>3, <2>5, <4>2, AgreeStable
    <3> QED
      BY <3>1, <3>2
  <2>7. LBlock'[j] = l /\ RBlock'[j] = r
    BY <1>3, <2>3
  <2>8. l = LBlock'[j] /\ r = RBlock'[j]
    BY <2>7
  <2> QED
    BY <2>6, <2>8
<1>7. LBlock[k].op = RBlock[k].op
  BY DEF CompareInst, Same
<1>8. (k = Len(LBlock)) <=> (k = Len(RBlock))
  BY <1>1, <1>7, PairInstructions DEF IInv
<1>9. IsValue(LInst) /\ RInst = Counterpart(LInst)
  BY <1>5 DEF LInst, RInst, IsValue, Counterpart
<1>10. CASE k < Len(LBlock)
  <2>1. /\ k' = k + 1 /\ pc' = "compare"
        /\ Tentative' = IF LBlock[k].used THEN Tentative \cup {<<LInst, RInst>>} ELSE Tentative
    BY <1>1, <1>10 DEF CompareInst
  <2>2. ValuesInv'
    <3>1. ASSUME NEW t \in Tentative' PROVE t \in Tentative \/ (IsValue(t[1])' /\ t = <<t[1], Counterpart(t[1])'>>)
      <4>1. t \in Tentative \/ t = <<LInst, RInst>>
        BY <2>1
      <4>2. CASE t = <<LInst, RInst>>
        <5>1. t[1] = LInst /\ IsValue(t[1]) /\ t = <<t[1], Counterpart(t[1])>>
          BY <1>9, <4>2
        <5> QED
          BY <1>3, <5>1
      <4> QED
        BY <4>1, <4>2
    <3> QED
      BY <1>1, <1>2, <1>3, <3>1, ValuesKept DEF IInv
  <2>3. k' \in 1..Len(LBlock') /\ k' <= Len(RBlock')
    BY <1>1, <1>3, <1>5, <1>8, <1>10, <2>1
  <2>4. ASSUME NEW j \in 1..(k' - 1)
        PROVE  /\ Agree(LBlock[j], RBlock[j])'
               /\ LBlock'[j].used => <<<<"inst", pair'[1], j>>, <<"inst", pair'[2], j>>>> \in Tentative'
    <3>1. j \in 1..k /\ j \in DOMAIN LBlock /\ j \in DOMAIN RBlock
      BY <1>1, <1>5, <2>1
    <3>2. Agree(LBlock[j], RBlock[j])'
      BY <1>6, <3>1
    <3>3. ASSUME LBlock[j].used PROVE <<<<"inst", pair[1], j>>, <<"inst", pair[2], j>>>> \in Tentative'
      <4>1. CASE j = k
        BY <2>1, <3>3, <4>1 DEF LInst, RInst
      <4>2. CASE j # k
        <5>1. j \in 1..(k - 1)
          BY <1>1, <1>5, <3>1, <4>2
        <5>2. <<<<"inst", pair[1], j>>, <<"inst", pair[2], j>>>> \in Tentative
          BY <1>1, <3>3, <5>1 DEF IInv, CompareInv
        <5> QED
          BY <2>1, <5>2
      <4> QED
        BY <4>1, <4>2
    <3> QED
      BY <1>2, <1>3, <3>2, <3>3
  <2>5. CompareInv'
    BY <2>3, <2>4 DEF CompareInv
  <2>6. UnifyInv' /\ k' \in Nat \ {0}
    BY <2>1, <1>1, <1>5 DEF UnifyInv
  <2> QED
    BY <1>3, <1>4, <2>2, <2>5, <2>6 DEF IInv
<1>11. CASE ~(k < Len(LBlock))
  <2>1. k' = 1 /\ pc' = "unify" /\ Tentative' = {}
    BY <1>11 DEF CompareInst
  <2>2. k = Len(LBlock) /\ k = Len(RBlock)
    BY <1>1, <1>5, <1>8, <1>11
  <2>3. ValuesInv'
    BY <1>1, <1>2, <1>3, <2>1, ValuesKept DEF IInv
  <2>4. ASSUME NEW j \in 1..Len(LBlock') PROVE Agree(LBlock[j], RBlock[j])'
    BY <1>3, <1>5, <1>6, <2>2
  <2>5. UnifyInv'
    BY <1>3, <1>5, <2>1, <2>2, <2>4 DEF UnifyInv
  <2>6. CompareInv' /\ k' \in Nat \ {0}
    BY <2>1 DEF CompareInv
  <2> QED
    BY <1>3, <1>4, <2>3, <2>5, <2>6 DEF IInv
<1> QED
  BY <1>10, <1>11

-----------------------------------------------------------------------------
(* The second pass *)

\* The blocks, heap and refused pairs before and after.
Before == [blocks |-> Blocks, queue |-> Queue, lost |-> lost]

LEMMA UnifyFacts ==
  ASSUME IInv, pc = "unify"
  PROVE  /\ OnPair /\ Active /\ k \in DOMAIN LBlock /\ k \in DOMAIN RBlock
         /\ Len(LBlock) = Len(RBlock) /\ Tentative = {}
         /\ Agree(LBlock[k], RBlock[k])
         /\ Before \in UnifyStates
         /\ Paired(LBlock[k], RBlock[k]) \in Seq(BlockPairs)
         /\ ToSet(Paired(LBlock[k], RBlock[k])) \subseteq ToSet(LBlock[k].succs) \X ToSet(RBlock[k].succs)
         /\ k < Len(LBlock) => ToSet(Paired(LBlock[k], RBlock[k])) = {}
         /\ UnifySuccs(LBlock[k], RBlock[k]) \in UnifyStates
         /\ Extends(Before, UnifySuccs(LBlock[k], RBlock[k]), ToSet(Paired(LBlock[k], RBlock[k])))
<1> DEFINE l == LBlock[k]
           r == RBlock[k]
<1>1. OnPair /\ Active
  BY DEF OnPair, Active
<1>2. /\ Tentative = {} /\ k \in 1..Len(LBlock) /\ Len(LBlock) = Len(RBlock) /\ Agree(l, r)
  BY DEF IInv, UnifyInv
<1>3. k \in DOMAIN LBlock /\ k \in DOMAIN RBlock
  BY <1>1, <1>2, PairFacts DEF IInv
<1>4. /\ Blocks \in BlockMaps /\ DOMAIN L.blocks \subseteq Nat /\ DOMAIN R.blocks \subseteq Nat
      /\ NULL \notin DOMAIN R.blocks
  BY <1>1, PairFacts, BlockFacts DEF IInv
<1>5. Before \in UnifyStates
  BY <1>1, <1>4 DEF Before, UnifyStates, IInv, BlocksInv
<1>6. IsInstruction(l) /\ IsInstruction(r) /\ ToSet(l.succs) \subseteq DOMAIN L.blocks /\ ToSet(r.succs) \subseteq DOMAIN R.blocks
      /\ (l.op \in Terminators <=> k = Len(LBlock))
  BY <1>1, <1>3, PairInstructions DEF IInv
<1> HIDE DEF l, r
<1>7. l.op = r.op /\ (l.op \in {"br", "switch"} => Len(l.ops) = Len(r.ops)) /\ (l.op = "switch" => ToSet(l.cases) = ToSet(r.cases))
  BY <1>2 DEF Agree
<1>8. ToSet(l.succs) \subseteq Nat /\ ToSet(r.succs) \subseteq Nat
  BY <1>4, <1>6
<1>9. Paired(l, r) \in Seq(BlockPairs) /\ ToSet(Paired(l, r)) \subseteq ToSet(l.succs) \X ToSet(r.succs)
  BY <1>6, <1>7, <1>8, PairedFacts
<1>10. ASSUME k < Len(LBlock) PROVE ToSet(Paired(l, r)) = {}
  <2>1. l.op \notin Terminators
    BY <1>1, <1>3, <1>6, <1>10, PairFacts DEF IInv
  <2>2. Paired(l, r) = <<>>
    BY <2>1, NothingPaired DEF Terminators
  <2> QED
    BY <2>2 DEF ToSet
<1>11. ASSUME NEW n \in DOMAIN Paired(l, r) PROVE Paired(l, r)[n][2] # NULL
  <2>1. Paired(l, r)[n] \in ToSet(Paired(l, r))
    BY DEF ToSet
  <2>2. Paired(l, r)[n] \in ToSet(l.succs) \X ToSet(r.succs)
    BY <1>9, <2>1
  <2>3. Paired(l, r)[n][2] \in DOMAIN R.blocks
    BY <1>6, <2>2
  <2> QED
    BY <1>4, <2>3
<1>12. /\ FoldLeft(TryUnify, Before, Paired(l, r)) \in UnifyStates
       /\ Extends(Before, FoldLeft(TryUnify, Before, Paired(l, r)), ToSet(Paired(l, r)))
  BY <1>5, <1>9, <1>11, FoldExtends
<1>13. UnifySuccs(l, r) = FoldLeft(TryUnify, Before, Paired(l, r))
  BY DEF UnifySuccs, Before
<1> QED
  BY <1>1, <1>2, <1>3, <1>5, <1>9, <1>10, <1>12, <1>13 DEF l, r

\* What Unify does, in terms of the pairs of this instruction.
LEMMA UnifyExtends ==
  ASSUME IInv, Unify
  PROVE  /\ pc = "unify" /\ Active' /\ L' = L /\ R' = R /\ LBlock' = LBlock /\ RBlock' = RBlock
         /\ UNCHANGED <<left, right, todo, name, Tentative, pair, Differences>>
         /\ Extends(Before, [blocks |-> Blocks', queue |-> Queue', lost |-> lost'], ToSet(Paired(LBlock[k], RBlock[k])))
         /\ Blocks' \in BlockMaps /\ Queue' \in Seq(BlockPairs) /\ lost' \in SUBSET BlockPairs
         /\ \A b : Unified(b, Blocks) => Unified(b, Blocks') /\ Blocks'[b] = Blocks[b]
         /\ \A v : IsValue(v) => IsValue(v)' /\ Counterpart(v)' = Counterpart(v)
         /\ \A b \in DOMAIN Blocks' :
              \/ b \in DOMAIN Blocks /\ Blocks'[b] = Blocks[b]
              \/ /\ k = Len(LBlock)
                 /\ <<b, Blocks'[b]>> \in ToSet(Paired(LBlock[k], RBlock[k]))
                 /\ b \in Succs(L, pair[1]) /\ b \in DOMAIN L.blocks /\ Blocks'[b] \in DOMAIN R.blocks
         /\ \A b \in DOMAIN Blocks : b \in DOMAIN Blocks'
<1> DEFINE l == LBlock[k]
           r == RBlock[k]
           st == UnifySuccs(l, r)
           P == ToSet(Paired(l, r))
<1>1. /\ pc = "unify" /\ UNCHANGED <<left, right, todo, name, Tentative, pair, Differences>>
      /\ Blocks' = st.blocks /\ Queue' = st.queue /\ lost' = st.lost
  BY DEF Unify, inputVars
<1>2. Active' /\ L' = L /\ R' = R /\ LBlock' = LBlock /\ RBlock' = RBlock
  BY <1>1 DEF Active, L, R, LBlock, RBlock, Unify
<1>3. /\ OnPair /\ k \in DOMAIN LBlock /\ k \in DOMAIN RBlock
      /\ P \subseteq ToSet(l.succs) \X ToSet(r.succs)
      /\ k < Len(LBlock) => P = {}
      /\ st \in UnifyStates /\ Extends(Before, st, P)
  BY <1>1, UnifyFacts
<1>4. /\ ToSet(l.succs) \subseteq DOMAIN L.blocks /\ ToSet(r.succs) \subseteq DOMAIN R.blocks
  BY <1>3, PairInstructions DEF IInv
<1>5. Last(LBlock) = LBlock[Len(LBlock)] /\ LBlock = L.blocks[pair[1]] /\ Len(LBlock) \in Nat /\ DOMAIN LBlock = 1..Len(LBlock)
  BY <1>3, PairFacts DEF IInv, LBlock
<1> HIDE DEF st, P, l, r
<1>6. st = [blocks |-> Blocks', queue |-> Queue', lost |-> lost']
  BY <1>1, <1>3 DEF UnifyStates
<1>7. Blocks' \in BlockMaps /\ Queue' \in Seq(BlockPairs) /\ lost' \in SUBSET BlockPairs
  BY <1>1, <1>3 DEF UnifyStates
<1>8. ASSUME NEW b, Unified(b, Blocks) PROVE Unified(b, Blocks') /\ Blocks'[b] = Blocks[b]
  BY <1>1, <1>3, <1>8 DEF Extends, Before, Unified
<1>9. ASSUME NEW v, IsValue(v) PROVE IsValue(v)' /\ Counterpart(v)' = Counterpart(v)
  BY <1>8, <1>9 DEF IsValue, Counterpart
<1>10. ASSUME NEW b \in DOMAIN Blocks', ~(b \in DOMAIN Blocks /\ Blocks'[b] = Blocks[b])
       PROVE  /\ k = Len(LBlock) /\ <<b, Blocks'[b]>> \in P
              /\ b \in Succs(L, pair[1]) /\ b \in DOMAIN L.blocks /\ Blocks'[b] \in DOMAIN R.blocks
  <2>1. <<b, Blocks'[b]>> \in P
    BY <1>1, <1>3, <1>10 DEF Extends, Before
  <2>2. k = Len(LBlock)
    BY <1>3, <1>5, <2>1
  <2>3. b \in ToSet(l.succs) /\ Blocks'[b] \in ToSet(r.succs)
    BY <1>3, <2>1
  <2>4. Succs(L, pair[1]) = ToSet(l.succs)
    BY <1>5, <2>2 DEF Succs, l
  <2> QED
    BY <1>4, <2>1, <2>2, <2>3, <2>4
<1>11. \A b \in DOMAIN Blocks : b \in DOMAIN Blocks'
  BY <1>1, <1>3 DEF Extends, Before
<1>12. Extends(Before, [blocks |-> Blocks', queue |-> Queue', lost |-> lost'], P)
  BY <1>3, <1>6
<1> QED
  BY <1>1, <1>2, <1>7, <1>8, <1>9, <1>10, <1>11, <1>12 DEF l, r, P

LEMMA IInvUnify ==
  ASSUME IInv, Unify
  PROVE  IInv'
<1>1. /\ pc = "unify" /\ Active' /\ L' = L /\ R' = R /\ LBlock' = LBlock /\ RBlock' = RBlock
      /\ UNCHANGED <<left, right, todo, name, Tentative, pair, Differences>>
      /\ Blocks' \in BlockMaps /\ Queue' \in Seq(BlockPairs) /\ lost' \in SUBSET BlockPairs
  BY UnifyExtends
<1>2. \A b : Unified(b, Blocks) => Unified(b, Blocks') /\ Blocks'[b] = Blocks[b]
  BY UnifyExtends
<1>3. \A v : IsValue(v) => IsValue(v)' /\ Counterpart(v)' = Counterpart(v)
  BY UnifyExtends
<1>4. \A b \in DOMAIN Blocks' :
        \/ b \in DOMAIN Blocks /\ Blocks'[b] = Blocks[b]
        \/ /\ k = Len(LBlock)
           /\ <<b, Blocks'[b]>> \in ToSet(Paired(LBlock[k], RBlock[k]))
           /\ b \in Succs(L, pair[1]) /\ b \in DOMAIN L.blocks /\ Blocks'[b] \in DOMAIN R.blocks
  BY UnifyExtends
<1>5. /\ OnPair /\ Active /\ Tentative = {} /\ k \in DOMAIN LBlock /\ k \in DOMAIN RBlock
      /\ Len(LBlock) = Len(RBlock)
  BY <1>1, UnifyFacts
<1>6. /\ DOMAIN Blocks \subseteq DOMAIN L.blocks /\ \A b \in DOMAIN Blocks : Blocks[b] \in DOMAIN R.blocks \cup {NULL}
      /\ NULL \notin DOMAIN R.blocks
      /\ Unified(pair[1], Blocks) /\ Blocks[pair[1]] = pair[2] /\ pair = <<pair[1], pair[2]>>
      /\ pair[1] \in DOMAIN L.blocks /\ pair[2] \in DOMAIN R.blocks
      /\ Len(LBlock) \in Nat \ {0} /\ DOMAIN LBlock = 1..Len(LBlock)
  BY <1>5, PairFacts DEF IInv
<1>7. k \in Nat \ {0} /\ k' = k + 1 /\ k' \in Nat \ {0}
      /\ pc' = (IF k < Len(LBlock) THEN "unify" ELSE "dequeue") /\ Values' = ValuesUnified
  BY <1>5, <1>6 DEF Unify
<1>8. NamesInv'
  BY <1>1, <1>5, <1>7 DEF IInv, NamesInv
<1>9. BlocksInv'
  <2>1. Blocks' \in [DOMAIN Blocks' -> DOMAIN R'.blocks \cup {NULL}] /\ DOMAIN Blocks' \in SUBSET DOMAIN L'.blocks
    <3>1. \A b \in DOMAIN Blocks' : b \in DOMAIN L.blocks /\ Blocks'[b] \in DOMAIN R.blocks \cup {NULL}
      BY <1>4, <1>6
    <3> QED
      BY <1>1, <3>1 DEF BlockMaps
  <2>2. Unified(Entry, Blocks') /\ Unified(pair[1], Blocks') /\ Blocks'[pair[1]] = pair[2] /\ pair \in BlockPairs
    BY <1>2, <1>5, <1>6 DEF IInv, BlocksInv
  <2>3. ASSUME NEW p \in ToSet(Queue') PROVE Unified(p[1], Blocks') /\ Blocks'[p[1]] = p[2]
    <3>1. p \in ToSet(Queue) \/ (Unified(p[1], Blocks') /\ Blocks'[p[1]] = p[2])
      BY UnifyExtends DEF Extends, Before
    <3>2. CASE p \in ToSet(Queue)
      BY <1>2, <1>5, <3>2 DEF IInv, BlocksInv
    <3> QED
      BY <3>1, <3>2
  <2> QED
    BY <1>1, <2>1, <2>2, <2>3 DEF BlocksInv
<1>10. /\ DOMAIN Values' = DOMAIN Values \cup (IF LBlock[k].used THEN {LInst} ELSE {})
       /\ \A v \in DOMAIN Values' : Values'[v] = IF v = LInst /\ LBlock[k].used THEN RInst ELSE Values[v]
  BY <1>7 DEF ValuesUnified, Put
<1>11. ValuesInv'
  <2>1. LInst = <<"inst", pair[1], k>> /\ RInst = <<"inst", Blocks'[pair[1]], k>>
    BY <1>2, <1>6 DEF LInst, RInst
  <2>2. \A m \in 1..L'.args : <<"arg", m>> \in DOMAIN Values'
    BY <1>1, <1>5, <1>10 DEF IInv, ValuesInv
  <2>3. ASSUME NEW v \in DOMAIN Values'
        PROVE (v = <<"arg", v[2]>> /\ Values'[v] = v) \/ (IsValue(v)' /\ Values'[v] = <<"inst", Blocks'[v[2]], v[3]>>)
    <3>1. CASE v = LInst /\ LBlock[k].used
      <4>1. Values'[v] = RInst
        BY <1>10, <3>1
      <4>2. IsValue(v)'
        <5>1. v = <<"inst", v[2], v[3]>> /\ v[2] = pair[1]
          BY <3>1 DEF LInst
        <5>2. Unified(v[2], Blocks')
          BY <1>2, <1>6, <5>1
        <5> QED
          BY <5>1, <5>2 DEF IsValue
      <4>3. RInst = <<"inst", Blocks'[v[2]], v[3]>>
        BY <2>1, <3>1
      <4> QED
        BY <4>1, <4>2, <4>3
    <3>2. CASE ~(v = LInst /\ LBlock[k].used)
      <4>1. v \in DOMAIN Values /\ Values'[v] = Values[v]
        BY <1>10, <3>2
      <4>2. (v = <<"arg", v[2]>> /\ Values[v] = v) \/ (IsValue(v) /\ Values[v] = Counterpart(v))
        BY <1>5, <4>1 DEF IInv, ValuesInv
      <4>3. CASE v = <<"arg", v[2]>> /\ Values[v] = v
        BY <4>1, <4>3
      <4>4. CASE IsValue(v) /\ Values[v] = Counterpart(v)
        <5>1. IsValue(v)' /\ Counterpart(v)' = Counterpart(v)
          BY <1>3, <4>4
        <5> QED
          BY <4>1, <4>4, <5>1 DEF Counterpart
      <4> QED
        BY <4>2, <4>3, <4>4
    <3> QED
      BY <3>1, <3>2
  <2>4. Tentative' = {}
    BY <1>1, <1>5
  <2> QED
    BY <2>2, <2>3, <2>4 DEF ValuesInv, Counterpart
<1>12. \A j \in 1..k : LBlock[j].used => <<"inst", pair[1], j>> \in DOMAIN Values'
  <2>1. ASSUME NEW j \in 1..k, LBlock[j].used PROVE <<"inst", pair[1], j>> \in DOMAIN Values'
    <3>1. CASE j = k
      BY <1>10, <2>1, <3>1 DEF LInst
    <3>2. CASE j # k
      <4>1. j \in 1..(k - 1)
        BY <1>7, <3>2
      <4> QED
        BY <1>1, <1>10, <2>1, <4>1 DEF IInv, UnifyInv
    <3> QED
      BY <3>1, <3>2
  <2> QED
    BY <2>1
<1>13. DominatorsInv'
  <2>1. SUFFICES ASSUME NEW a \in DOMAIN L.blocks, NEW S \in SUBSET DOMAIN L.blocks,
                        ~Valued(a)', Entry \in S, \A c \in S \ {a} : Succs(L, c) \subseteq S,
                        NEW b \in DOMAIN Blocks', Unified(b, Blocks')
                 PROVE  b \in S
    BY <1>1 DEF DominatorsInv
  <2>2. ~Valued(a)
    BY <1>1, <1>10, <2>1 DEF Valued
  <2>3. \A c \in DOMAIN Blocks : Unified(c, Blocks) => c \in S
    BY <1>5, <2>1, <2>2 DEF IInv, DominatorsInv
  <2>4. CASE b \in DOMAIN Blocks /\ Blocks'[b] = Blocks[b]
    BY <2>1, <2>3, <2>4 DEF Unified
  <2>5. CASE k = Len(LBlock) /\ b \in Succs(L, pair[1])
    <3>1. Valued(pair[1])'
      BY <1>1, <1>6, <1>12, <2>5 DEF Valued, LBlock
    <3>2. pair[1] # a /\ pair[1] \in S
      BY <1>1, <1>6, <2>1, <2>3, <3>1 DEF Unified
    <3> QED
      BY <2>1, <2>5, <3>2
  <2> QED
    BY <1>4, <2>4, <2>5
<1>14. UnifyInv'
  <2>1. SUFFICES ASSUME k < Len(LBlock) PROVE UnifyInv'
    BY <1>7 DEF UnifyInv
  <2>2. ~(k = Len(LBlock))
    BY <1>7, <1>6, <2>1
  <2>3. KeepsBlocks
    BY <1>2, <1>4, <2>2 DEF KeepsBlocks, Unified
  <2>4. ASSUME NEW j \in 1..Len(LBlock) PROVE Agree(LBlock[j], RBlock[j])'
    <3>1. PICK l, r : l = LBlock[j] /\ r = RBlock[j]
      OBVIOUS
    <3>2. Agree(l, r)
      BY <1>1, <3>1 DEF IInv, UnifyInv
    <3>3. j \in DOMAIN LBlock /\ j \in DOMAIN RBlock
      BY <1>5, <1>6, PairFacts DEF IInv
    <3>4. DOMAIN l.ops = 1..Len(l.ops) /\ DOMAIN r.ops = 1..Len(r.ops)
          /\ \A m \in DOMAIN r.ops : IsOperand(R, pair[2], j, r.ops[m])
      BY <1>5, <3>1, <3>3, PairInstructions DEF IInv
    <3>5. \A m \in DOMAIN r.ops : r.ops[m][1] \in {"block", "address"} => r.ops[m][2] # NULL
      BY <1>6, <3>4, BlockOperand
    <3>6. Agree(l, r)'
      <4>1. CASE l.op \in {"phi", "unreachable"}
        BY <3>2, <4>1 DEF Agree
      <4>2. CASE l.op \notin {"phi", "unreachable"}
        <5>1. Len(l.ops) = Len(r.ops)
          BY <3>2, <4>2 DEF Agree
        <5>2. \A n \in DOMAIN l.ops : r.ops[n][1] \in {"block", "address"} => r.ops[n][2] # NULL
          BY <3>4, <3>5, <5>1
        <5> QED
          BY <2>3, <3>2, <5>2, AgreeStable
      <4> QED
        BY <4>1, <4>2
    <3>7. l = LBlock'[j] /\ r = RBlock'[j]
      BY <1>1, <3>1
    <3> QED
      BY <3>6, <3>7
  <2>5. k' \in 1..Len(LBlock) /\ k' - 1 = k
    BY <1>6, <1>7, <2>1
  <2>6. \A j \in 1..(k' - 1) : LBlock'[j].used => <<"inst", pair'[1], j>> \in DOMAIN Values'
    BY <1>1, <1>12, <2>5
  <2>7. Tentative' = {} /\ Len(LBlock') = Len(RBlock')
    BY <1>1, <1>5
  <2> QED
    BY <1>1, <2>4, <2>5, <2>6, <2>7 DEF UnifyInv
<1>15. CompareInv'
  BY <1>7 DEF CompareInv
<1> QED
  BY <1>7, <1>8, <1>9, <1>11, <1>13, <1>14, <1>15 DEF IInv

LEMMA IInvNext == IInv /\ [Next]_vars => IInv'
<1> SUFFICES ASSUME IInv, [Next]_vars PROVE IInv'
  OBVIOUS
<1>1. CASE NamesDiffer \/ NamesAgree \/ AllCompared \/ QueueEmpty \/ \E n \in todo : SkipFunction(n)
  BY <1>1, IInvNames
<1>2. CASE \E n \in todo : StartFunction(n)
  BY <1>2, IInvStart
<1>3. CASE Dequeue
  BY <1>3, IInvDequeue
<1>4. CASE FindDifference
  BY <1>4, IInvDifference
<1>5. CASE CompareInst
  BY <1>5, IInvCompare
<1>6. CASE Unify
  BY <1>6, IInvUnify
<1>7. CASE UNCHANGED vars
  <2>1. UNCHANGED <<left, right, pc, todo, name, Values, Blocks, Tentative, Queue, pair, k, lost, Differences>>
    BY <1>7 DEF vars
  <2>2. L' = L /\ R' = R /\ LBlock' = LBlock /\ RBlock' = RBlock /\ Active' = Active /\ OnPair' = OnPair
    BY <2>1 DEF L, R, LBlock, RBlock, Active, OnPair
  <2>3. NamesInv' /\ BlocksInv'
    BY <2>1, <2>2 DEF IInv, NamesInv, BlocksInv
  <2>4. ValuesInv' /\ DominatorsInv'
    BY <2>1, <2>2 DEF IInv, ValuesInv, IsValue, Counterpart, DominatorsInv, Valued
  <2>5. \A l, r : Agree(l, r)' <=> Agree(l, r)
    BY <2>1 DEF Agree, Agrees, Counterpart
  <2>6. CompareInv' /\ UnifyInv'
    BY <2>1, <2>2, <2>5 DEF IInv, CompareInv, UnifyInv
  <2> QED
    BY <2>1, <2>3, <2>4, <2>6 DEF IInv
<1> QED
  BY <1>1, <1>2, <1>3, <1>4, <1>5, <1>6, <1>7 DEF Next, Finished

LEMMA IInvAlways == Spec => []IInv
<1> QED
  BY IInvInit, IInvNext, PTL DEF Spec

LEMMA IInvTypes == IInv => TypeOK
<1> SUFFICES ASSUME IInv PROVE TypeOK
  OBVIOUS
<1>1. pc \in {"modules", "next_function", "dequeue", "compare", "unify", "done"}
      /\ todo \subseteq DOMAIN left /\ Differences \in BOOLEAN /\ k \in Nat \ {0}
  BY DEF IInv, NamesInv
<1>2. ASSUME Active
      PROVE  /\ DOMAIN Blocks \subseteq DOMAIN L.blocks
             /\ \A b \in DOMAIN Blocks : Blocks[b] \in DOMAIN R.blocks \cup {NULL}
             /\ \A n \in DOMAIN Queue : Unified(Queue[n][1], Blocks) /\ Blocks[Queue[n][1]] = Queue[n][2]
  BY <1>2 DEF IInv, BlocksInv, ToSet
<1>3. ASSUME OnPair PROVE pair[1] \in DOMAIN L.blocks /\ pair[2] \in DOMAIN R.blocks
  BY <1>3, PairFacts DEF IInv
<1> QED
  BY <1>1, <1>2, <1>3 DEF TypeOK, Active, OnPair

\* What the first pass has found to be the same the second does not find to
\* differ: an operand that was equal by a tentative value has a value by then.
LEMMA IInvAsserts == IInv => AssertsHold
<1> SUFFICES ASSUME IInv PROVE AssertsHold
  OBVIOUS
<1>1. pc = "compare" => k <= Len(RBlock)
  BY DEF IInv, CompareInv
<1>2. ASSUME pc = "unify" PROVE Same(LBlock[k], RBlock[k])
  <2> DEFINE l == LBlock[k]
             r == RBlock[k]
  <2>1. OnPair /\ Active /\ k \in DOMAIN LBlock /\ k \in DOMAIN RBlock /\ Agree(l, r)
    BY <1>2, UnifyFacts
  <2>2. ASSUME l.op \notin {"phi", "unreachable"}, NEW n \in DOMAIN l.ops
        PROVE  Equivalent(l.ops[n], r.ops[n])
    <3>0. PICK lo, ro : lo = l.ops[n] /\ ro = r.ops[n]
      OBVIOUS
    <3>1. Agrees(lo, ro)
      BY <2>1, <2>2, <3>0 DEF Agree
    <3>2. IsOperand(L, pair[1], k, lo)
      BY <2>1, <3>0, PairInstructions DEF IInv
    <3>3. LBlock[k].op # "phi"
      BY <2>2
    <3> SUFFICES Equivalent(lo, ro)
      BY <3>0
    <3>4. \/ lo = <<"const", lo[2]>>
          \/ lo[1] = "arg" /\ lo \in DOMAIN Values /\ Values[lo] = lo
          \/ lo[1] \in {"block", "address", "other"}
          \/ /\ lo = <<"inst", pair[1], lo[3]>> /\ lo[3] \in DOMAIN LBlock /\ lo[3] < k /\ LBlock[lo[3]].used
          \/ lo[1] = "inst" /\ lo \in DOMAIN Values /\ IsValue(lo) /\ Values[lo] = Counterpart(lo)
      BY <2>1, <3>2, <3>3, OperandKnown DEF IInv
    <3>5. lo[1] = ro[1]
      BY <3>1 DEF Agrees
    <3>6. CASE lo = <<"const", lo[2]>>
      <4>1. lo[1] = "const"
        BY <3>6
      <4> QED
        BY <3>1, <3>5, <4>1 DEF Agrees, Equivalent
    <3>7. CASE lo[1] = "arg" /\ lo \in DOMAIN Values /\ Values[lo] = lo
      BY <3>1, <3>5, <3>7 DEF Agrees, Equivalent
    <3>8. CASE lo[1] \in {"block", "address", "other"}
      BY <3>1, <3>5, <3>8 DEF Agrees, Equivalent
    <3>9. CASE lo = <<"inst", pair[1], lo[3]>> /\ lo[3] \in DOMAIN LBlock /\ lo[3] < k /\ LBlock[lo[3]].used
      <4>1. lo[1] = "inst" /\ lo # <<"arg", lo[2]>>
        BY <3>9
      <4>2. lo[3] \in 1..(k - 1)
        BY <2>1, <3>9, PairFacts DEF IInv
      <4>3. lo \in DOMAIN Values
        BY <1>2, <3>9, <4>2 DEF IInv, UnifyInv
      <4>4. Values[lo] = Counterpart(lo)
        BY <2>1, <4>1, <4>3 DEF IInv, ValuesInv
      <4> QED
        BY <3>1, <3>5, <4>1, <4>3, <4>4 DEF Agrees, Equivalent
    <3>10. CASE lo[1] = "inst" /\ lo \in DOMAIN Values /\ Values[lo] = Counterpart(lo)
      BY <3>1, <3>5, <3>10 DEF Agrees, Equivalent
    <3> QED
      BY <3>4, <3>6, <3>7, <3>8, <3>9, <3>10
  <2> HIDE DEF l, r
  <2>3. l.op \notin {"phi", "unreachable"} => OperandsEquivalent(l, r)
    BY <2>1, <2>2 DEF Agree, OperandsEquivalent
  <2>4. Same(l, r)
    BY <2>1, <2>3 DEF Agree, Same
  <2> QED
    BY <2>4 DEF l, r
<1> QED
  BY <1>1, <1>2 DEF AssertsHold

\* The state always has the shape TypeOK gives it.
THEOREM TypeCorrect == Spec => []TypeOK
BY IInvAlways, IInvTypes, PTL

\* The two passes over a pair of blocks agree, whatever the functions.
THEOREM PassesAgree == Spec => []AssertsHold
BY IInvAlways, IInvAsserts, PTL

-----------------------------------------------------------------------------
(* Functions in which no difference was found *)

\* The operands of a block are instructions and addresses of paired blocks.
Located(b) ==
  \A n \in DOMAIN L.blocks[b] : L.blocks[b][n].op # "phi" =>
    \A o \in DOMAIN L.blocks[b][n].ops :
      L.blocks[b][n].ops[o][1] \in {"inst", "address"} => Unified(L.blocks[b][n].ops[o][2], Blocks)

Simulated(b) == SimulatesBlock(b) /\ Located(b)

\* As long as nothing differs, a paired block waits, is compared, or is known
\* to do what its partner does.
Waits(b) == <<b, Blocks[b]>> \in ToSet(Queue) \/ (OnPair /\ pair[1] = b)

SimilarInv ==
  Active /\ ~Differences /\ lost = {} =>
    \A b \in DOMAIN Blocks : Unified(b, Blocks) /\ (Waits(b) \/ Simulated(b))

LEMMA NoBlocks ==
  ASSUME NoBlockOperands, IInv, OnPair, NEW n \in DOMAIN LBlock, NEW m \in DOMAIN LBlock[n].ops
  PROVE  LBlock[n].ops[m][1] # "block"
<1>1. PICK p \in ModulePairs : left = p[1] /\ right = p[2]
  BY DEF IInv, NamesInv
<1>2. name \in DOMAIN left /\ pair[1] \in DOMAIN L.blocks
  BY PairFacts DEF IInv, NamesInv, OnPair, Active
<1>3. LBlock = p[1][name].blocks[pair[1]] /\ name \in DOMAIN p[1] /\ pair[1] \in DOMAIN p[1][name].blocks
  BY <1>1, <1>2 DEF LBlock, L
<1> QED
  BY <1>3 DEF NoBlockOperands

\* Two terminators that agree go to partners.
LEMMA TargetsPaired ==
  ASSUME NEW l, NEW r, IsInstruction(l), IsInstruction(r),
         ToSet(l.succs) \subseteq Nat, ToSet(r.succs) \subseteq Nat,
         l.op = r.op, l.op \in {"br", "switch"} => Len(l.ops) = Len(r.ops),
         l.op = "switch" => ToSet(l.cases) = ToSet(r.cases),
         l.op = "indirectbr" => l.succs = <<>> /\ r.succs = <<>>
  PROVE  /\ DOMAIN Targets(l) = DOMAIN Targets(r)
         /\ \A c \in DOMAIN Targets(l) : <<Targets(l)[c], Targets(r)[c]>> \in ToSet(Paired(l, r))
<1>1. /\ l.op \in {"br", "invoke"} =>
              /\ DOMAIN l.succs = DOMAIN r.succs
              /\ ToSet(Paired(l, r)) = {<<l.succs[n], r.succs[n]>> : n \in DOMAIN l.succs}
      /\ l.op = "switch" =>
              ToSet(Paired(l, r)) =
                {<<l.succs[1], r.succs[1]>>} \cup
                {<<l.succs[1 + CaseOf(l, r.cases[n])], r.succs[n + 1]>> : n \in DOMAIN r.cases}
  BY PairedFacts
<1>2. CASE l.op \in {"br", "invoke"}
  <2>1. Targets(l) = l.succs /\ Targets(r) = r.succs
    BY <1>2 DEF Targets
  <2> QED
    BY <1>1, <1>2, <2>1
<1>3. CASE l.op = "switch"
  <2>1. Targets(l) = [c \in ToSet(l.cases) \cup {DefaultCase} |->
                        IF c = DefaultCase THEN l.succs[1] ELSE l.succs[1 + CaseOf(l, c)]]
    BY <1>3 DEF Targets, CaseOf
  <2>2. Targets(r) = [c \in ToSet(r.cases) \cup {DefaultCase} |->
                        IF c = DefaultCase THEN r.succs[1] ELSE r.succs[1 + CaseOf(r, c)]]
    BY <1>3 DEF Targets, CaseOf
  <2>3. ASSUME NEW c \in ToSet(l.cases) \cup {DefaultCase}
        PROVE  <<Targets(l)[c], Targets(r)[c]>> \in ToSet(Paired(l, r))
    <3>1. CASE c = DefaultCase
      <4>1. Targets(l)[c] = l.succs[1] /\ Targets(r)[c] = r.succs[1]
        BY <2>1, <2>2, <3>1
      <4> QED
        BY <1>1, <1>3, <4>1
    <3>2. CASE c # DefaultCase
      <4>1. c \in ToSet(r.cases)
        BY <1>3, <2>3, <3>2
      <4>2. PICK n : n = CaseOf(r, c)
        OBVIOUS
      <4>3. n \in DOMAIN r.cases /\ r.cases[n] = c
        BY <4>1, <4>2, CaseOfFacts
      <4>4. Targets(l)[c] = l.succs[1 + CaseOf(l, c)] /\ Targets(r)[c] = r.succs[1 + n]
        BY <1>3, <2>1, <2>2, <3>2, <4>1, <4>2
      <4>5. n + 1 = 1 + n
        <5>1. DOMAIN r.cases = 1..Len(r.cases)
          BY SequenceFacts DEF IsInstruction
        <5> QED
          BY <4>3, <5>1
      <4> QED
        BY <1>1, <1>3, <4>3, <4>4, <4>5
    <3> QED
      BY <3>1, <3>2
  <2> QED
    BY <1>3, <2>1, <2>2, <2>3
<1>4. CASE l.op \notin {"br", "switch", "invoke"}
  <2>1. Targets(l) = l.succs /\ Targets(r) = r.succs
    BY <1>4 DEF Targets
  <2>2. l.succs = <<>> /\ r.succs = <<>>
    BY <1>4 DEF IsInstruction
  <2> QED
    BY <2>1, <2>2
<1> QED
  BY <1>2, <1>3, <1>4

\* The pair just unified is similar, if the pairs of its successors were accepted.
LEMMA UnifiedSimulated ==
  ASSUME NoBlockOperands, IInv, Unify, k = Len(LBlock), lost' = {}
  PROVE  Simulated(pair[1])'
<1>1. /\ pc = "unify" /\ L' = L /\ R' = R /\ LBlock' = LBlock /\ RBlock' = RBlock /\ UNCHANGED pair
      /\ Extends(Before, [blocks |-> Blocks', queue |-> Queue', lost |-> lost'], ToSet(Paired(LBlock[k], RBlock[k])))
      /\ \A b : Unified(b, Blocks) => Unified(b, Blocks') /\ Blocks'[b] = Blocks[b]
  BY UnifyExtends
<1>2. OnPair /\ Len(LBlock) = Len(RBlock) /\ \A j \in 1..Len(LBlock) : Agree(LBlock[j], RBlock[j])
  BY <1>1, UnifyFacts DEF IInv, UnifyInv
<1>3. /\ DOMAIN LBlock = 1..Len(LBlock) /\ DOMAIN RBlock = 1..Len(RBlock) /\ Len(LBlock) \in Nat \ {0}
      /\ Unified(pair[1], Blocks) /\ Blocks[pair[1]] = pair[2]
      /\ IsFunction(L) /\ IsFunction(R) /\ pair[1] \in DOMAIN L.blocks /\ pair[2] \in DOMAIN R.blocks
  BY <1>2, PairFacts DEF IInv
<1>4. L'.blocks[pair'[1]] = LBlock /\ R'.blocks[Blocks'[pair'[1]]] = RBlock
  BY <1>1, <1>3 DEF LBlock, RBlock
<1>5. ASSUME NEW n \in DOMAIN LBlock
      PROVE  /\ LBlock[n].op = RBlock[n].op
             /\ LBlock[n].op \in {"cmp", "phi"} => LBlock[n].att = RBlock[n].att
             /\ LBlock[n].op # "phi" =>
                  /\ Len(LBlock[n].ops) = Len(RBlock[n].ops)
                  /\ \A o \in DOMAIN LBlock[n].ops :
                       /\ LBlock[n].ops[o][1] \in {"inst", "address"} => Unified(LBlock[n].ops[o][2], Blocks')
                       /\ Corresponds(LBlock[n].ops[o], RBlock[n].ops[o])'
  <2>1. Agree(LBlock[n], RBlock[n])
    BY <1>2, <1>3
  <2>2. CASE LBlock[n].op = "unreachable"
    <3>1. LBlock[n].ops = <<>> /\ RBlock[n].ops = <<>>
      <4>1. n \in DOMAIN RBlock
        BY <1>2, <1>3
      <4>2. IsInstruction(LBlock[n]) /\ IsInstruction(RBlock[n]) /\ RBlock[n].op = "unreachable"
        BY <1>2, <2>1, <2>2, <4>1, PairInstructions DEF IInv, Agree
      <4> QED
        BY <2>2, <4>2 DEF IsInstruction
    <3> QED
      BY <2>1, <3>1 DEF Agree
  <2>3. ASSUME LBlock[n].op \notin {"phi", "unreachable"}, NEW o \in DOMAIN LBlock[n].ops
        PROVE  /\ LBlock[n].ops[o][1] \in {"inst", "address"} => Unified(LBlock[n].ops[o][2], Blocks')
               /\ Corresponds(LBlock[n].ops[o], RBlock[n].ops[o])'
    <3>1. PICK lo, ro : lo = LBlock[n].ops[o] /\ ro = RBlock[n].ops[o]
      OBVIOUS
    <3>2. Agrees(lo, ro)
      BY <2>1, <2>3, <3>1 DEF Agree
    <3>3. lo[1] # "block"
      BY <1>2, <3>1, NoBlocks
    <3>4. IsOperand(L, pair[1], n, lo)
      BY <1>2, <3>1, PairInstructions DEF IInv
    <3>5. lo[1] \in {"const", "arg", "inst", "address", "other"}
      BY <3>3, <3>4 DEF IsOperand
    <3>6. lo[1] = "inst" => Unified(lo[2], Blocks') /\ ro = <<"inst", Blocks'[lo[2]], lo[3]>>
      BY <1>1, <3>2 DEF Agrees, Counterpart
    <3>7. ASSUME lo[1] = "address" PROVE Unified(lo[2], Blocks') /\ ro = <<"address", Blocks'[lo[2]]>>
      <4>1. lo[2] \in DOMAIN Blocks /\ Blocks[lo[2]] = ro[2] /\ ro[1] = "address"
        BY <3>2, <3>7 DEF Agrees
      <4>2. n \in DOMAIN RBlock /\ DOMAIN LBlock[n].ops = 1..Len(LBlock[n].ops)
            /\ DOMAIN RBlock[n].ops = 1..Len(RBlock[n].ops)
        BY <1>2, <1>3, PairInstructions DEF IInv
      <4>3. o \in DOMAIN RBlock[n].ops
        BY <2>1, <2>3, <4>2 DEF Agree
      <4>4. IsOperand(R, pair[2], n, ro)
        BY <1>2, <3>1, <4>2, <4>3, PairInstructions DEF IInv
      <4>5. ro = <<"address", ro[2]>> /\ ro[2] \in DOMAIN R.blocks
        BY <4>1, <4>4 DEF IsOperand
      <4>6. ro[2] # NULL
        BY <1>2, <4>5, PairFacts DEF IInv
      <4>7. Unified(lo[2], Blocks)
        BY <4>1, <4>6 DEF Unified
      <4> QED
        BY <1>1, <4>1, <4>5, <4>7
    <3>8. lo[1] \in {"const", "arg"} => lo = ro
      BY <3>2 DEF Agrees
    <3>9. lo[1] = "other" => ro[1] = "other"
      BY <3>2 DEF Agrees
    <3>10. Corresponds(lo, ro)'
      BY <3>5, <3>6, <3>7, <3>8, <3>9 DEF Corresponds
    <3>11. lo = LBlock'[n].ops[o] /\ ro = RBlock'[n].ops[o]
      BY <1>1, <3>1
    <3> QED
      BY <3>1, <3>6, <3>7, <3>10, <3>11
  <2> QED
    BY <2>1, <2>2, <2>3 DEF Agree
<1>6. /\ DOMAIN Targets(LBlock[k]) = DOMAIN Targets(RBlock[k])
      /\ \A c \in DOMAIN Targets(LBlock[k]) : <<Targets(LBlock[k])[c], Targets(RBlock[k])[c]>> \in ToSet(Paired(LBlock[k], RBlock[k]))
  <2>1. PICK l, r : l = LBlock[k] /\ r = RBlock[k]
    OBVIOUS
  <2>2. k \in DOMAIN LBlock /\ k \in DOMAIN RBlock
    BY <1>2, <1>3
  <2>3. /\ IsInstruction(l) /\ IsInstruction(r)
        /\ ToSet(l.succs) \subseteq DOMAIN L.blocks /\ ToSet(r.succs) \subseteq DOMAIN R.blocks
        /\ DOMAIN l.ops = 1..Len(l.ops) /\ DOMAIN r.ops = 1..Len(r.ops)
    BY <1>2, <2>1, <2>2, PairInstructions DEF IInv
  <2>4. DOMAIN L.blocks \subseteq Nat /\ DOMAIN R.blocks \subseteq Nat
    BY <1>3, BlockFacts
  <2>5. Agree(l, r)
    BY <1>2, <1>3, <2>1, <2>2
  <2>6. ASSUME l.op = "indirectbr" PROVE l.succs = <<>> /\ r.succs = <<>>
    <3>1. \A o \in DOMAIN l.ops : l.ops[o][1] # "block"
      BY <1>2, <2>1, <2>2, NoBlocks
    <3>2. Len(l.ops) = Len(r.ops) /\ \A o \in DOMAIN l.ops : l.ops[o][1] = r.ops[o][1]
      BY <2>5, <2>6 DEF Agree, Agrees
    <3>3. \A o \in DOMAIN r.ops : r.ops[o][1] # "block"
      BY <2>3, <3>1, <3>2
    <3>4. ASSUME NEW i, IsInstruction(i), i.op = "indirectbr", \A o \in DOMAIN i.ops : i.ops[o][1] # "block"
          PROVE  i.succs = <<>>
      <4>1. \A s \in ToSet(i.succs) : <<"block", s>> \in ToSet(i.ops)
        BY <3>4 DEF IsInstruction
      <4>2. \A s : <<"block", s>> \notin ToSet(i.ops)
        BY <3>4 DEF ToSet
      <4>3. ToSet(i.succs) = {}
        BY <4>1, <4>2
      <4>4. i.succs \in Seq({})
        BY <3>4, <4>3 DEF IsInstruction, IsSequence
      <4>5. DOMAIN i.succs = {}
        BY <4>3 DEF ToSet
      <4> QED
        BY <4>4, <4>5, EmptySeq, LenProperties
    <3> QED
      BY <2>3, <2>5, <2>6, <3>1, <3>3, <3>4 DEF Agree
  <2>7. /\ DOMAIN Targets(l) = DOMAIN Targets(r)
        /\ \A c \in DOMAIN Targets(l) : <<Targets(l)[c], Targets(r)[c]>> \in ToSet(Paired(l, r))
    BY <2>3, <2>4, <2>5, <2>6, TargetsPaired DEF Agree
  <2> QED
    BY <2>1, <2>7
<1>7. \A q \in ToSet(Paired(LBlock[k], RBlock[k])) : Unified(q[1], Blocks') /\ Blocks'[q[1]] = q[2]
  BY <1>1 DEF Extends
<1>8. Last(LBlock) = LBlock[k] /\ Last(RBlock) = RBlock[k]
  BY <1>2 DEF Last
<1>9. \A c \in DOMAIN Targets(LBlock[k]) :
        Targets(LBlock[k])[c] \in DOMAIN Blocks' /\ Blocks'[Targets(LBlock[k])[c]] = Targets(RBlock[k])[c]
  BY <1>6, <1>7 DEF Unified
<1>10. SimulatesBlock(pair[1])'
  BY <1>1, <1>2, <1>4, <1>5, <1>6, <1>8, <1>9 DEF SimulatesBlock
<1>11. Located(pair[1])'
  BY <1>4, <1>5 DEF Located
<1> QED
  BY <1>10, <1>11 DEF Simulated

\* What is known of a block stays true when more blocks are paired.
LEMMA SimulatedStable ==
  ASSUME L' = L, R' = R, NEW b \in DOMAIN Blocks, Simulated(b), \A c \in DOMAIN Blocks : Unified(c, Blocks),
         \A c : Unified(c, Blocks) => Unified(c, Blocks') /\ Blocks'[c] = Blocks[c]
  PROVE  Simulated(b)'
<1> DEFINE l == L.blocks[b]
           r == R.blocks[Blocks[b]]
<1>1. L'.blocks[b] = l /\ R'.blocks[Blocks'[b]] = r
  OBVIOUS
<1>2. /\ Len(l) = Len(r)
      /\ \A n \in DOMAIN l :
          /\ l[n].op = r[n].op
          /\ l[n].op \in {"cmp", "phi"} => l[n].att = r[n].att
          /\ l[n].op # "phi" =>
               /\ Len(l[n].ops) = Len(r[n].ops)
               /\ \A o \in DOMAIN l[n].ops : Corresponds(l[n].ops[o], r[n].ops[o])
      /\ DOMAIN Targets(Last(l)) = DOMAIN Targets(Last(r))
      /\ \A c \in DOMAIN Targets(Last(l)) :
           Targets(Last(l))[c] \in DOMAIN Blocks /\ Blocks[Targets(Last(l))[c]] = Targets(Last(r))[c]
  BY DEF Simulated, SimulatesBlock
<1>3. \A n \in DOMAIN l : l[n].op # "phi" =>
        \A o \in DOMAIN l[n].ops : l[n].ops[o][1] \in {"inst", "address"} => Unified(l[n].ops[o][2], Blocks)
  BY DEF Simulated, Located
<1> HIDE DEF l, r
<1>4. ASSUME NEW lo, NEW ro, Corresponds(lo, ro), lo[1] \in {"inst", "address"} => Unified(lo[2], Blocks)
      PROVE  Corresponds(lo, ro)'
  BY <1>4 DEF Corresponds
<1>5. ASSUME NEW n \in DOMAIN l, l[n].op # "phi", NEW o \in DOMAIN l[n].ops
      PROVE  Corresponds(l[n].ops[o], r[n].ops[o])'
  <2>1. PICK lo, ro : lo = l[n].ops[o] /\ ro = r[n].ops[o]
    OBVIOUS
  <2>2. Corresponds(lo, ro)'
    BY <1>2, <1>3, <1>4, <1>5, <2>1
  <2>3. l' = l /\ r' = r
    BY <1>1 DEF l, r
  <2> QED
    BY <2>1, <2>2, <2>3
<1>6. \A c \in DOMAIN Targets(Last(l)) :
        Targets(Last(l))[c] \in DOMAIN Blocks' /\ Blocks'[Targets(Last(l))[c]] = Targets(Last(r))[c]
  BY <1>2 DEF Unified
<1>7. l' = l /\ r' = r
  BY <1>1 DEF l, r
<1>8. SimulatesBlock(b)'
  <2>1. L'.blocks[b] = l /\ R'.blocks[Blocks'[b]] = r
    BY <1>1 DEF l, r
  <2>2. \A n \in DOMAIN l : l[n].op # "phi" =>
          \A o \in DOMAIN l[n].ops :
            CASE l[n].ops[o][1] = "inst" -> r[n].ops[o] = <<"inst", Blocks'[l[n].ops[o][2]], l[n].ops[o][3]>>
              [] l[n].ops[o][1] = "address" -> r[n].ops[o] = <<"address", Blocks'[l[n].ops[o][2]]>>
              [] l[n].ops[o][1] = "other" -> r[n].ops[o][1] = "other"
              [] OTHER -> l[n].ops[o] = r[n].ops[o]
    BY <1>5, <1>7 DEF Corresponds
  <2> QED
    BY <1>2, <1>6, <2>1, <2>2 DEF SimulatesBlock, Corresponds
<1>9. Located(b)'
  <2>1. L'.blocks[b] = l
    BY <1>1 DEF l
  <2> QED
    BY <1>3, <2>1 DEF Located
<1> QED
  BY <1>8, <1>9 DEF Simulated

\* Without block operands, only blocks paired already are looked up by
\* instructions that are the same.
LEMMA NothingInserted ==
  ASSUME NoBlockOperands, IInv, OnPair, k \in DOMAIN LBlock, Same(LBlock[k], RBlock[k])
  PROVE  DOMAIN WithLookups(LBlock[k], RBlock[k]) = DOMAIN Blocks
<1> DEFINE l == LBlock[k]
           r == RBlock[k]
<1>1. \A o \in DOMAIN l.ops : l.ops[o][1] # "block"
  BY NoBlocks
<1>2. l.op \notin {"phi", "unreachable"} => \A o \in DOMAIN l.ops : Equivalent(l.ops[o], r.ops[o])
  BY DEF Same, OperandsEquivalent
<1>3. \A lo, ro : Equivalent(lo, ro) /\ lo[1] = "address" => lo[2] \in DOMAIN Blocks
  BY DEF Equivalent
<1> HIDE DEF l, r
<1>4. LookedUp(l, r) \subseteq DOMAIN Blocks
  BY <1>1, <1>2, <1>3 DEF LookedUp, OperandsCompared
<1> QED
  BY <1>4 DEF WithLookups, l, r

LEMMA SimilarNext ==
  ASSUME NoBlockOperands, IInv, IInv', SimilarInv, [Next]_vars
  PROVE  SimilarInv'
<1> SUFFICES ASSUME Active', ~Differences', lost' = {}, NEW b \in DOMAIN Blocks'
             PROVE  Unified(b, Blocks') /\ (Waits(b)' \/ Simulated(b)')
  BY DEF SimilarInv
<1>1. CASE \E n \in todo : StartFunction(n)
  <2>1. Blocks' = [x \in {Entry} |-> Entry] /\ Queue' = <<<<Entry, Entry>>>>
    BY <1>1 DEF StartFunction
  <2>2. b = Entry /\ Blocks'[b] = Entry /\ <<Entry, Entry>> \in ToSet(Queue')
    BY <2>1 DEF ToSet
  <2> QED
    BY <2>2 DEF Waits, Unified, Entry, NULL
<1>2. CASE Dequeue
  <2>1. /\ Active /\ ~OnPair /\ OnPair' /\ ~Differences /\ lost = {} /\ Blocks' = Blocks /\ L' = L /\ R' = R
        /\ Queue # <<>> /\ pair' = Queue[1] /\ Queue' = RemoveMin(Queue, Blocks)
    BY <1>2 DEF Dequeue, Active, OnPair, L, R, inputVars
  <2>2. ToSet(Queue) \subseteq ToSet(Queue') \cup {pair'}
    BY <2>1, RemoveMinKeeps DEF IInv, BlocksInv
  <2>3. Unified(b, Blocks) /\ (Waits(b) \/ Simulated(b)) /\ \A c \in DOMAIN Blocks : Unified(c, Blocks)
    BY <2>1 DEF SimilarInv
  <2>4. CASE Waits(b)
    <3>1. <<b, Blocks[b]>> \in ToSet(Queue)
      BY <2>1, <2>4 DEF Waits
    <3>2. <<b, Blocks'[b]>> \in ToSet(Queue') \/ pair'[1] = b
      BY <2>1, <2>2, <3>1
    <3> QED
      BY <2>1, <2>3, <3>2 DEF Waits
  <2>5. CASE Simulated(b)
    <3>1. \A c : Unified(c, Blocks) => Unified(c, Blocks') /\ Blocks'[c] = Blocks[c]
      BY <2>1
    <3> QED
      BY <2>1, <2>3, <2>5, <3>1, SimulatedStable
  <2> QED
    BY <2>3, <2>4, <2>5
<1>3. CASE CompareInst
  <2>1. /\ OnPair /\ Active /\ k \in DOMAIN LBlock /\ k \in DOMAIN RBlock /\ OnPair'
        /\ ~Differences /\ lost = {} /\ Blocks' = WithLookups(LBlock[k], RBlock[k]) /\ L' = L /\ R' = R
        /\ Queue' = Queue /\ pair' = pair
    BY <1>3, OnPairFacts DEF CompareInst, Active, OnPair, L, R, inputVars
  <2>2. DOMAIN Blocks' = DOMAIN Blocks /\ KeepsBlocks
    BY <1>3, <2>1, NothingInserted, LookupsKeep DEF IInv, CompareInst
  <2>3. \A c : Unified(c, Blocks) => Unified(c, Blocks') /\ Blocks'[c] = Blocks[c]
    BY <2>2 DEF KeepsBlocks
  <2>4. b \in DOMAIN Blocks /\ Unified(b, Blocks) /\ (Waits(b) \/ Simulated(b)) /\ \A c \in DOMAIN Blocks : Unified(c, Blocks)
    BY <2>1, <2>2 DEF SimilarInv
  <2>5. Unified(b, Blocks') /\ Blocks'[b] = Blocks[b]
    BY <2>3, <2>4
  <2>6. CASE Waits(b)
    BY <2>1, <2>5, <2>6 DEF Waits
  <2>7. CASE Simulated(b)
    BY <2>1, <2>3, <2>4, <2>5, <2>7, SimulatedStable
  <2> QED
    BY <2>4, <2>5, <2>6, <2>7
<1>4. CASE Unify
  <2>1. /\ pc = "unify" /\ L' = L /\ R' = R /\ UNCHANGED <<pair, Differences>>
        /\ Extends(Before, [blocks |-> Blocks', queue |-> Queue', lost |-> lost'], ToSet(Paired(LBlock[k], RBlock[k])))
    BY <1>4, UnifyExtends
  <2>2. \A c : Unified(c, Blocks) => Unified(c, Blocks') /\ Blocks'[c] = Blocks[c]
    BY <1>4, UnifyExtends
  <2>3. \A c \in DOMAIN Blocks' : (c \in DOMAIN Blocks /\ Blocks'[c] = Blocks[c]) \/ Blocks'[c] \in DOMAIN R.blocks
    BY <1>4, UnifyExtends
  <2>4. /\ OnPair /\ Active /\ NULL \notin DOMAIN R.blocks /\ k \in 1..Len(LBlock)
        /\ Len(LBlock) \in Nat /\ Unified(pair[1], Blocks)
    BY <2>1, UnifyFacts, PairFacts DEF IInv
  <2>5. lost = {} /\ ToSet(Queue) \subseteq ToSet(Queue')
        /\ (Unified(b, Blocks') => Unified(b, Blocks) \/ <<b, Blocks'[b]>> \in ToSet(Queue'))
    BY <2>1 DEF Extends, Before
  <2>6. \A c \in DOMAIN Blocks : Unified(c, Blocks) /\ (Waits(c) \/ Simulated(c))
    BY <2>1, <2>4, <2>5 DEF SimilarInv
  <2>7. Unified(b, Blocks')
    BY <2>2, <2>3, <2>4, <2>6 DEF Unified
  <2>8. CASE ~Unified(b, Blocks)
    BY <2>5, <2>7, <2>8 DEF Waits
  <2>9. CASE Unified(b, Blocks)
    <3>1. b \in DOMAIN Blocks /\ Blocks'[b] = Blocks[b] /\ (Waits(b) \/ Simulated(b))
      BY <2>2, <2>6, <2>9 DEF Unified
    <3>2. CASE <<b, Blocks[b]>> \in ToSet(Queue)
      BY <2>5, <2>7, <3>1, <3>2 DEF Waits
    <3>3. CASE pair[1] = b /\ k = Len(LBlock)
      BY <1>4, <2>1, <2>7, <3>3, UnifiedSimulated
    <3>4. CASE pair[1] = b /\ k # Len(LBlock)
      <4>1. OnPair'
        BY <1>4, <2>4, <3>4 DEF Unify, OnPair
      <4> QED
        BY <2>1, <2>7, <3>4, <4>1 DEF Waits
    <3>5. CASE Simulated(b)
      BY <2>1, <2>2, <2>6, <2>7, <3>1, <3>5, SimulatedStable
    <3> QED
      BY <3>1, <3>2, <3>3, <3>4, <3>5 DEF Waits
  <2> QED
    BY <2>8, <2>9
<1>5. CASE UNCHANGED vars
  <2>1. UNCHANGED <<left, right, pc, name, Blocks, Queue, pair, lost, Differences>>
    BY <1>5 DEF vars
  <2>2. L' = L /\ R' = R /\ Active /\ OnPair' = OnPair
    BY <2>1 DEF L, R, Active, OnPair
  <2>3. b \in DOMAIN Blocks /\ Unified(b, Blocks) /\ (Waits(b) \/ Simulated(b)) /\ \A c \in DOMAIN Blocks : Unified(c, Blocks)
    BY <2>1, <2>2 DEF SimilarInv
  <2>4. \A c : Unified(c, Blocks) => Unified(c, Blocks') /\ Blocks'[c] = Blocks[c]
    BY <2>1
  <2>5. Simulated(b) => Simulated(b)'
    BY <2>2, <2>3, <2>4, SimulatedStable
  <2> QED
    BY <2>1, <2>2, <2>3, <2>5 DEF Waits
<1>6. CASE FindDifference
  BY <1>6 DEF FindDifference
<1>7. CASE NamesDiffer \/ NamesAgree \/ AllCompared \/ QueueEmpty \/ \E n \in todo : SkipFunction(n)
  BY <1>7 DEF NamesDiffer, NamesAgree, AllCompared, QueueEmpty, SkipFunction, Active
<1> QED
  BY <1>1, <1>2, <1>3, <1>4, <1>5, <1>6, <1>7 DEF Next, Finished

\* When the heap is empty, every pair was compared.
LEMMA SimilarEnough ==
  ASSUME IInv, SimilarInv
  PROVE  SameMeansSimilar
<1> SUFFICES ASSUME FunctionCompared, ~Differences, lost = {} PROVE Simulates
  BY DEF SameMeansSimilar
<1>1. Active /\ ~OnPair /\ Queue = <<>>
  BY DEF FunctionCompared, Active, OnPair
<1>2. Entry \in DOMAIN Blocks
  BY <1>1 DEF IInv, BlocksInv, Unified
<1>3. ToSet(Queue) = {}
  BY <1>1 DEF ToSet
<1>4. \A b \in DOMAIN Blocks : Simulated(b)
  BY <1>1, <1>3 DEF SimilarInv, Waits
<1> QED
  BY <1>2, <1>4 DEF Simulates, Simulated

-----------------------------------------------------------------------------
(* Functions that differ in numbering only *)

Renumbers(f, g, m) ==
  /\ m \in [DOMAIN f.blocks -> DOMAIN g.blocks]
  /\ Addressless(f)
  /\ m = Empty \/ m[Entry] = Entry
  /\ \A b \in DOMAIN m : g.blocks[m[b]] = [n \in DOMAIN f.blocks[b] |-> Renamed(f.blocks[b][n], m)]

AllIsomorphic == DOMAIN left = DOMAIN right /\ \A n \in DOMAIN left : Isomorphic(left[n], right[n])

\* Blocks are paired by the numbering.
PairedBy(m) == Renumbers(L, R, m) /\ \A b \in DOMAIN Blocks : Unified(b, Blocks) => Blocks[b] = m[b]

IsomorphicInv ==
  AllIsomorphic => ~Differences /\ (Active => \E m \in [DOMAIN L.blocks -> DOMAIN R.blocks] : PairedBy(m))

LEMMA RenamedFacts ==
  ASSUME NEW inst, IsInstruction(inst), NEW m
  PROVE  /\ Renamed(inst, m).op = inst.op /\ Renamed(inst, m).att = inst.att /\ Renamed(inst, m).cases = inst.cases
         /\ Renamed(inst, m).succs = [n \in DOMAIN inst.succs |-> m[inst.succs[n]]]
         /\ Renamed(inst, m).ops =
              [n \in DOMAIN inst.ops |-> IF inst.ops[n][1] = "inst" THEN <<"inst", m[inst.ops[n][2]], inst.ops[n][3]>>
                                        ELSE inst.ops[n]]
BY DEF Renamed, IsInstruction

\* The partner of a block is the block renamed.
LEMMA PartnerRenamed ==
  ASSUME IInv, OnPair, NEW m, PairedBy(m), NEW n \in DOMAIN LBlock
  PROVE  RBlock[n] = Renamed(LBlock[n], m)
<1>1. Unified(pair[1], Blocks) /\ Blocks[pair[1]] = pair[2] /\ pair[1] \in DOMAIN L.blocks
  BY PairFacts DEF IInv
<1>2. pair[2] = m[pair[1]] /\ pair[1] \in DOMAIN m
  BY <1>1 DEF PairedBy, Renumbers, Unified
<1>3. RBlock = [i \in DOMAIN LBlock |-> Renamed(LBlock[i], m)]
  BY <1>2 DEF PairedBy, Renumbers, LBlock, RBlock
<1> QED
  BY <1>3

LEMMA RenamedSame ==
  ASSUME NoBlockOperands, IInv, pc = "compare", NEW m, PairedBy(m)
  PROVE  Same(LBlock[k], RBlock[k])
<1>1. OnPair /\ Active /\ k \in DOMAIN LBlock /\ k \in DOMAIN RBlock
  BY OnPairFacts
<1>2. PICK l, r : l = LBlock[k] /\ r = RBlock[k]
  OBVIOUS
<1>3. IsInstruction(l) /\ IsInstruction(r)
      /\ DOMAIN l.ops = 1..Len(l.ops) /\ DOMAIN r.ops = 1..Len(r.ops) /\ Len(l.ops) \in Nat /\ Len(r.ops) \in Nat
  <2>1. IsInstruction(l) /\ IsInstruction(r)
    BY <1>1, <1>2, PairInstructions DEF IInv
  <2> QED
    BY <2>1, SequenceFacts DEF IsInstruction
<1>4. r = Renamed(l, m)
  BY <1>1, <1>2, PartnerRenamed
<1>5. /\ r.op = l.op /\ r.att = l.att /\ r.cases = l.cases
      /\ r.ops = [n \in DOMAIN l.ops |-> IF l.ops[n][1] = "inst" THEN <<"inst", m[l.ops[n][2]], l.ops[n][3]>> ELSE l.ops[n]]
  BY <1>3, <1>4, RenamedFacts
<1>6. Len(l.ops) = Len(r.ops)
  <2>1. 1..Len(l.ops) = 1..Len(r.ops)
    BY <1>3, <1>5
  <2> QED
    BY <1>3, <2>1
<1>7. ASSUME l.op # "phi", NEW n \in DOMAIN l.ops PROVE Equivalent(l.ops[n], r.ops[n])
  <2>1. PICK lo, ro : lo = l.ops[n] /\ ro = r.ops[n]
    OBVIOUS
  <2> SUFFICES Equivalent(lo, ro)
    BY <2>1
  <2>2. ro = IF lo[1] = "inst" THEN <<"inst", m[lo[2]], lo[3]>> ELSE lo
    BY <1>5, <2>1
  <2>3. IsOperand(L, pair[1], k, lo) /\ lo[1] \notin {"block", "address"}
    <3>1. IsOperand(L, pair[1], k, lo) /\ lo[1] # "block" /\ pair[1] \in DOMAIN L.blocks
      BY <1>1, <1>2, <2>1, PairInstructions, PairFacts, NoBlocks DEF IInv
    <3>2. lo[1] # "address"
      BY <1>1, <1>2, <1>7, <2>1, <3>1 DEF PairedBy, Renumbers, Addressless, LBlock
    <3> QED
      BY <3>1, <3>2
  <2>4. \/ lo = <<"const", lo[2]>>
        \/ lo[1] = "arg" /\ lo \in DOMAIN Values /\ Values[lo] = lo
        \/ lo[1] \in {"block", "address", "other"}
        \/ /\ lo = <<"inst", pair[1], lo[3]>> /\ lo[3] \in DOMAIN LBlock /\ lo[3] < k /\ LBlock[lo[3]].used
        \/ lo[1] = "inst" /\ lo \in DOMAIN Values /\ IsValue(lo) /\ Values[lo] = Counterpart(lo)
    BY <1>1, <1>2, <1>7, <2>3, OperandKnown DEF IInv
  <2>5. CASE lo = <<"const", lo[2]>>
    <3>1. lo[1] = "const"
      BY <2>5
    <3> QED
      BY <2>2, <3>1 DEF Equivalent
  <2>6. CASE lo[1] = "arg" /\ lo \in DOMAIN Values /\ Values[lo] = lo
    BY <2>2, <2>6 DEF Equivalent
  <2>7. CASE lo = <<"inst", pair[1], lo[3]>> /\ lo[3] \in DOMAIN LBlock /\ lo[3] < k /\ LBlock[lo[3]].used
    <3>1. lo[1] = "inst" /\ lo[2] = pair[1]
      BY <2>7
    <3>2. lo[3] \in 1..(k - 1)
      BY <1>1, <2>7, PairFacts DEF IInv
    <3>3. <<<<"inst", pair[1], lo[3]>>, <<"inst", pair[2], lo[3]>>>> \in Tentative
      BY <2>7, <3>2 DEF IInv, CompareInv
    <3>4. m[pair[1]] = pair[2]
      BY <1>1, PairFacts DEF IInv, PairedBy, Unified
    <3>5. ro = <<"inst", pair[2], lo[3]>>
      BY <2>2, <3>1, <3>4
    <3>6. <<lo, ro>> \in Tentative
      BY <2>7, <3>3, <3>5
    <3>7. lo[1] = ro[1]
      BY <3>1, <3>5
    <3> QED
      BY <3>1, <3>6, <3>7 DEF Equivalent
  <2>8. CASE lo[1] = "inst" /\ lo \in DOMAIN Values /\ IsValue(lo) /\ Values[lo] = Counterpart(lo)
    <3>1. Blocks[lo[2]] = m[lo[2]]
      BY <2>8 DEF PairedBy, IsValue, Unified
    <3>2. Values[lo] = ro /\ lo[1] = ro[1]
      BY <2>2, <2>8, <3>1 DEF Counterpart
    <3> QED
      BY <2>8, <3>2 DEF Equivalent
  <2>9. CASE lo[1] = "other"
    BY <2>2, <2>9 DEF Equivalent
  <2> QED
    BY <2>3, <2>4, <2>5, <2>6, <2>7, <2>8, <2>9
<1>8. Same(l, r)
  BY <1>5, <1>6, <1>7 DEF Same, OperandsEquivalent
<1> QED
  BY <1>2, <1>8

\* Successors are paired by the numbering.
LEMMA RenamedPairs ==
  ASSUME NEW l, NEW r, NEW m, IsInstruction(l), IsInstruction(r), r = Renamed(l, m),
         ToSet(l.succs) \subseteq Nat, ToSet(r.succs) \subseteq Nat,
         NEW q \in ToSet(Paired(l, r))
  PROVE  q[2] = m[q[1]]
<1>1. r.op = l.op /\ r.cases = l.cases /\ r.succs = [n \in DOMAIN l.succs |-> m[l.succs[n]]]
      /\ r.ops = [n \in DOMAIN l.ops |-> IF l.ops[n][1] = "inst" THEN <<"inst", m[l.ops[n][2]], l.ops[n][3]>> ELSE l.ops[n]]
  BY RenamedFacts
<1>2. Len(l.ops) = Len(r.ops)
  <2>1. /\ DOMAIN l.ops = 1..Len(l.ops) /\ DOMAIN r.ops = 1..Len(r.ops) /\ Len(l.ops) \in Nat /\ Len(r.ops) \in Nat
    BY SequenceFacts DEF IsInstruction
  <2>2. 1..Len(l.ops) = 1..Len(r.ops)
    BY <1>1, <2>1
  <2> QED
    BY <2>1, <2>2
<1>3. /\ l.op \in {"br", "invoke"} => ToSet(Paired(l, r)) = {<<l.succs[n], r.succs[n]>> : n \in DOMAIN l.succs}
      /\ l.op = "switch" =>
              ToSet(Paired(l, r)) =
                {<<l.succs[1], r.succs[1]>>} \cup
                {<<l.succs[1 + CaseOf(l, r.cases[n])], r.succs[n + 1]>> : n \in DOMAIN r.cases}
  <2>1. l.op = r.op /\ ToSet(l.cases) = ToSet(r.cases)
    BY <1>1
  <2> QED
    BY <1>2, <2>1, PairedFacts
<1>4. CASE l.op \in {"br", "invoke"}
  BY <1>1, <1>3, <1>4
<1>5. CASE l.op = "switch"
  <2>1. /\ Len(l.succs) = Len(l.cases) + 1 /\ Len(l.cases) \in Nat /\ DOMAIN l.cases = 1..Len(l.cases)
        /\ DOMAIN l.succs = 1..Len(l.succs)
    BY <1>5, SequenceFacts DEF IsInstruction
  <2>2. CASE q = <<l.succs[1], r.succs[1]>>
    <3>1. 1 \in DOMAIN l.succs
      BY <2>1
    <3> QED
      BY <1>1, <2>2, <3>1
  <2>3. ASSUME NEW n \in DOMAIN r.cases, q = <<l.succs[1 + CaseOf(l, r.cases[n])], r.succs[n + 1]>>
        PROVE  q[2] = m[q[1]]
    <3>1. r.cases[n] \in ToSet(l.cases)
      BY <1>1 DEF ToSet
    <3>2. CaseOf(l, r.cases[n]) = n
      <4>1. CaseOf(l, r.cases[n]) \in DOMAIN l.cases /\ l.cases[CaseOf(l, r.cases[n])] = r.cases[n]
        BY <3>1, CaseOfFacts
      <4>2. \A i, j \in DOMAIN l.cases : l.cases[i] = l.cases[j] => i = j
        BY DEF IsInstruction
      <4>3. n \in DOMAIN l.cases /\ r.cases[n] = l.cases[n]
        BY <1>1
      <4> QED
        BY <4>1, <4>2, <4>3
    <3>3. 1 + n = n + 1 /\ n + 1 \in DOMAIN l.succs
      BY <1>1, <2>1
    <3> QED
      BY <1>1, <2>3, <3>2, <3>3
  <2> QED
    BY <1>3, <1>5, <2>2, <2>3
<1>6. CASE l.op \notin {"br", "switch", "invoke"}
  BY <1>6, NothingPaired DEF ToSet
<1> QED
  BY <1>4, <1>5, <1>6

LEMMA IsomorphicInit == Init => IsomorphicInv
BY DEF Init, IsomorphicInv, Active

LEMMA IsomorphicNext ==
  ASSUME NoBlockOperands, IInv, IInv', IsomorphicInv, [Next]_vars
  PROVE  IsomorphicInv'
<1>1. left' = left /\ right' = right
  BY DEF Next, vars, NamesDiffer, NamesAgree, AllCompared, SkipFunction, StartFunction, Dequeue, QueueEmpty,
         FindDifference, CompareInst, Unify, Finished, inputVars
<1>2. AllIsomorphic' => AllIsomorphic
  BY <1>1 DEF AllIsomorphic
<1>3. SUFFICES ASSUME AllIsomorphic
               PROVE  ~Differences' /\ (Active' => \E m \in [DOMAIN L'.blocks -> DOMAIN R'.blocks] : PairedBy(m)')
  BY <1>2 DEF IsomorphicInv
<1>4. ~Differences /\ DOMAIN left = DOMAIN right /\ \A n \in DOMAIN left : Isomorphic(left[n], right[n])
  BY <1>3 DEF IsomorphicInv, AllIsomorphic
<1>5. CASE NamesDiffer \/ NamesAgree \/ AllCompared \/ QueueEmpty
  BY <1>4, <1>5 DEF NamesDiffer, NamesAgree, AllCompared, QueueEmpty, Active
<1>6. ASSUME NEW n \in todo, SkipFunction(n) PROVE ~Differences' /\ ~Active'
  <2>1. Isomorphic(left[n], right[n]) /\ IsFunction(left[n]) /\ IsFunction(right[n])
    BY <1>4, <1>6, FunctionsCompared DEF IInv, NamesInv
  <2>2. left[n].args = right[n].args /\ Len(left[n].blocks) = Len(right[n].blocks)
    BY <2>1 DEF Isomorphic
  <2>3. IsDeclaration(left[n]) <=> IsDeclaration(right[n])
    <3>1. ASSUME NEW f, IsFunction(f) PROVE IsDeclaration(f) <=> Len(f.blocks) = 0
      BY <3>1, EmptySeq DEF IsFunction, IsSequence, IsDeclaration
    <3> QED
      BY <2>1, <2>2, <3>1
  <2> QED
    BY <1>4, <1>6, <2>2, <2>3 DEF SkipFunction, Active
<1>7. ASSUME NEW n \in todo, StartFunction(n)
      PROVE  ~Differences' /\ \E m \in [DOMAIN L'.blocks -> DOMAIN R'.blocks] : PairedBy(m)'
  <2>1. L' = left[n] /\ R' = right[n] /\ Blocks' = [x \in {Entry} |-> Entry] /\ Differences' = Differences
    BY <1>7 DEF StartFunction, L, R, inputVars
  <2>2. n \in DOMAIN left
    BY DEF IInv, NamesInv
  <2>3. Isomorphic(left[n], right[n])
    BY <1>4, <2>2
  <2>4. PICK m \in [DOMAIN left[n].blocks -> DOMAIN right[n].blocks] :
          /\ Addressless(left[n])
          /\ m = Empty \/ m[Entry] = Entry
          /\ \A b \in DOMAIN m : right[n].blocks[m[b]] = [i \in DOMAIN left[n].blocks[b] |-> Renamed(left[n].blocks[b][i], m)]
    BY <2>3 DEF Isomorphic
  <2>5. m # Empty
    <3>1. IsSequence(left[n].blocks) /\ left[n].blocks # <<>>
      BY <1>7, <2>2, FunctionsCompared DEF IInv, StartFunction, IsDeclaration, IsFunction
    <3>2. DOMAIN left[n].blocks = 1..Len(left[n].blocks) /\ Len(left[n].blocks) \in Nat \ {0}
      BY <3>1, EmptySeq, LenProperties DEF IsSequence
    <3>3. 1 \in DOMAIN m
      BY <3>2
    <3> QED
      BY <3>3 DEF Empty
  <2>6. Renumbers(left[n], right[n], m)
    BY <2>4 DEF Renumbers
  <2>7. PairedBy(m)'
    BY <2>1, <2>4, <2>5, <2>6 DEF PairedBy
  <2> QED
    BY <1>4, <2>1, <2>7
<1>8. CASE Dequeue \/ UNCHANGED vars
  <2>1. L' = L /\ R' = R /\ Blocks' = Blocks /\ Differences' = Differences /\ (Active' => Active)
    BY <1>8 DEF Dequeue, vars, L, R, inputVars, Active
  <2> QED
    BY <1>3, <1>4, <2>1 DEF IsomorphicInv, PairedBy
<1>9. CASE FindDifference
  <2>1. pc = "compare" /\ ~Same(LBlock[k], RBlock[k]) /\ Active
    BY <1>9 DEF FindDifference, Active
  <2>2. PICK m \in [DOMAIN L.blocks -> DOMAIN R.blocks] : PairedBy(m)
    BY <1>3, <2>1 DEF IsomorphicInv
  <2> QED
    BY <2>1, <2>2, RenamedSame
<1>10. CASE CompareInst
  <2>1. /\ OnPair /\ Active /\ k \in DOMAIN LBlock /\ k \in DOMAIN RBlock
        /\ Blocks' = WithLookups(LBlock[k], RBlock[k]) /\ L' = L /\ R' = R /\ Differences' = Differences
    BY <1>10, OnPairFacts DEF CompareInst, L, R, inputVars
  <2>2. KeepsBlocks /\ \A b : Unified(b, Blocks)' => Unified(b, Blocks)
    BY <2>1, LookupsKeep DEF IInv
  <2>3. PICK m \in [DOMAIN L.blocks -> DOMAIN R.blocks] : PairedBy(m)
    BY <1>3, <2>1 DEF IsomorphicInv
  <2>4. ASSUME NEW b \in DOMAIN Blocks', Unified(b, Blocks') PROVE Blocks'[b] = m[b]
    <3>1. Unified(b, Blocks) /\ Blocks'[b] = Blocks[b] /\ b \in DOMAIN Blocks
      BY <2>2, <2>4 DEF KeepsBlocks, Unified
    <3> QED
      BY <2>3, <3>1 DEF PairedBy
  <2>5. PairedBy(m)'
    BY <2>1, <2>3, <2>4 DEF PairedBy
  <2> QED
    BY <1>4, <2>1, <2>5
<1>11. CASE Unify
  <2>1. /\ pc = "unify" /\ L' = L /\ R' = R /\ UNCHANGED Differences
    BY <1>11, UnifyExtends
  <2>2. \A b \in DOMAIN Blocks' : (b \in DOMAIN Blocks /\ Blocks'[b] = Blocks[b])
                                 \/ <<b, Blocks'[b]>> \in ToSet(Paired(LBlock[k], RBlock[k]))
    BY <1>11, UnifyExtends
  <2>3. OnPair /\ Active /\ k \in DOMAIN LBlock /\ k \in DOMAIN RBlock
    BY <2>1, UnifyFacts
  <2>4. PICK m \in [DOMAIN L.blocks -> DOMAIN R.blocks] : PairedBy(m)
    BY <1>3, <2>3 DEF IsomorphicInv
  <2>5. PICK l, r : l = LBlock[k] /\ r = RBlock[k]
    OBVIOUS
  <2>6. r = Renamed(l, m) /\ IsInstruction(l) /\ IsInstruction(r)
        /\ ToSet(l.succs) \subseteq DOMAIN L.blocks /\ ToSet(r.succs) \subseteq DOMAIN R.blocks
    BY <2>3, <2>4, <2>5, PartnerRenamed, PairInstructions DEF IInv
  <2>7. DOMAIN L.blocks \subseteq Nat /\ DOMAIN R.blocks \subseteq Nat
    BY <2>3, PairFacts, BlockFacts DEF IInv
  <2>8. ASSUME NEW b \in DOMAIN Blocks', Unified(b, Blocks') PROVE Blocks'[b] = m[b]
    <3>1. CASE b \in DOMAIN Blocks /\ Blocks'[b] = Blocks[b]
      BY <2>4, <2>8, <3>1 DEF PairedBy, Unified
    <3>2. CASE <<b, Blocks'[b]>> \in ToSet(Paired(l, r))
      <4>1. PICK q \in ToSet(Paired(l, r)) : q = <<b, Blocks'[b]>>
        BY <3>2
      <4>2. q[2] = m[q[1]]
        BY <2>6, <2>7, RenamedPairs
      <4> QED
        BY <4>1, <4>2
    <3> QED
      BY <2>2, <2>5, <3>1, <3>2
  <2>9. PairedBy(m)'
    BY <2>1, <2>4, <2>8 DEF PairedBy
  <2> QED
    BY <1>4, <2>1, <2>4, <2>9
<1> QED
  BY <1>5, <1>6, <1>7, <1>8, <1>9, <1>10, <1>11 DEF Next, Finished

LEMMA IsomorphicEnough ==
  ASSUME IsomorphicInv
  PROVE  IsomorphicSame
BY DEF IsomorphicInv, AllIsomorphic, IsomorphicSame

\* Between modules without block operands: no difference found means that the
\* functions do the same, if no pair was refused; functions that differ in the
\* numbering of their blocks, without addresses of blocks, are found to be the
\* same; and the passes agree.
THEOREM ComparedAlwaysExact ==
  ASSUME NoBlockOperands
  PROVE  Spec => []ComparedExactly
<1> DEFINE Inv == IInv /\ SimilarInv /\ IsomorphicInv
<1>1. Init => Inv
  <2>1. Init => SimilarInv
    BY DEF Init, SimilarInv, Active
  <2> QED
    BY <2>1, IInvInit, IsomorphicInit
<1>2. Inv /\ [Next]_vars => Inv'
  <2> SUFFICES ASSUME Inv, [Next]_vars PROVE Inv'
    OBVIOUS
  <2>1. IInv'
    BY IInvNext
  <2>2. SimilarInv'
    BY <2>1, SimilarNext
  <2>3. IsomorphicInv'
    BY <2>1, IsomorphicNext
  <2> QED
    BY <2>1, <2>2, <2>3
<1>3. Inv => ComparedExactly
  BY IInvAsserts, SimilarEnough, IsomorphicEnough DEF ComparedExactly
<1> QED
  BY <1>1, <1>2, <1>3, PTL DEF Spec
====
