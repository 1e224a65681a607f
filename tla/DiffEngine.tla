----------------------------- MODULE DiffEngine -----------------------------
(***************************************************************************)
(* PerfDiff: the comparison of two modules by DifferenceEngine and         *)
(* FunctionDifferenceEngine (lib/analyzer/DiffEngine/DifferenceEngine.cpp),*)
(* whose verdict DiffConsumer::hadDifferences is the tool's exit status.   *)
(*                                                                         *)
(* Pairs of blocks wait in a heap.  A pair is compared twice, instruction  *)
(* by instruction: first tentatively, then, when all agree, for good, the  *)
(* successors of its terminators being paired on the way.  One step is one *)
(* instruction, one pair taken from the heap or one function begun.        *)
(*                                                                         *)
(* A function is its number of arguments and its blocks, sequences of      *)
(* instructions; without blocks it is a declaration.  An instruction has   *)
(* an opcode, an attribute (predicate or type), operands, successors, the  *)
(* case values of a switch, and whether it is used.  Operands are <<"const", *)
(* c>>, <<"arg", n>>, <<"inst", block, index>>, <<"block", b>>, the        *)
(* constant <<"address", b>> of a block of the function, or <<"other", x>>, *)
(* inline assembly or metadata.                                            *)
(***************************************************************************)
EXTENDS Integers, Sequences, FiniteSets, SequencesExt

CONSTANT ModulePairs   \* pairs <<left, right>> of modules: name -> function

Terminators == {"ret", "br", "switch", "invoke", "indirectbr", "unreachable"}

Entry == 1

IsSequence(s) == s \in Seq(ToSet(s))

\* A terminator has as many successors as its kind says, a switch one for each
\* of its case values and another; of an indirectbr they are operands.
IsInstruction(inst) ==
  /\ DOMAIN inst = {"op", "att", "ops", "succs", "cases", "used"}
  /\ IsSequence(inst.ops) /\ IsSequence(inst.succs) /\ IsSequence(inst.cases)
  /\ inst.used \in BOOLEAN
  /\ ToSet(inst.cases) \subseteq Nat \ {0}
  /\ \A m, n \in DOMAIN inst.cases : inst.cases[m] = inst.cases[n] => m = n
  /\ CASE inst.op = "br" -> Len(inst.succs) = Len(inst.ops) + 1
       [] inst.op = "switch" -> Len(inst.succs) = Len(inst.cases) + 1
       [] inst.op = "invoke" -> Len(inst.succs) = 2
       [] inst.op = "indirectbr" -> \A s \in ToSet(inst.succs) : <<"block", s>> \in ToSet(inst.ops)
       [] OTHER -> inst.succs = <<>>
  /\ inst.op = "unreachable" => inst.ops = <<>>

Succs(f, b) == ToSet(Last(f.blocks[b]).succs)

\* Every way from the entry to block b goes through block a: some blocks without
\* b can be left from a alone.
Dominates(f, a, b) ==
  \E S \in SUBSET DOMAIN f.blocks : Entry \in S /\ b \notin S /\ \A c \in S \ {a} : Succs(f, c) \subseteq S

\* Operand o of the instruction n of block b.  The value of an instruction is
\* used behind it, or in the blocks it dominates; a phi may use any.
IsOperand(f, b, n, o) ==
  \/ o = <<"const", o[2]>>
  \/ o = <<"arg", o[2]>> /\ o[2] \in 1..f.args
  \/ o = <<"other", o[2]>>
  \/ o = <<"block", o[2]>> /\ o[2] \in DOMAIN f.blocks
  \/ o = <<"address", o[2]>> /\ o[2] \in DOMAIN f.blocks \ {Entry}
  \/ /\ o = <<"inst", o[2], o[3]>>
     /\ o[2] \in DOMAIN f.blocks /\ o[3] \in DOMAIN f.blocks[o[2]]
     /\ f.blocks[o[2]][o[3]].used
     /\ \/ f.blocks[b][n].op = "phi"
        \/ o[2] = b /\ o[3] < n
        \/ Dominates(f, o[2], b)

\* What LLVM takes for a function: every block ends in its only terminator,
\* there is no way back to the entry, and values are defined before they are used.
IsFunction(f) ==
  /\ f.args \in Nat
  /\ IsSequence(f.blocks)
  /\ \A b \in DOMAIN f.blocks :
       /\ IsSequence(f.blocks[b]) /\ f.blocks[b] # <<>>
       /\ \A n \in DOMAIN f.blocks[b] :
            LET inst == f.blocks[b][n]
            IN /\ IsInstruction(inst)
               /\ (inst.op \in Terminators) <=> (n = Len(f.blocks[b]))
               /\ \A s \in ToSet(inst.succs) : s \in DOMAIN f.blocks \ {Entry}
               /\ \A m \in DOMAIN inst.ops : IsOperand(f, b, n, inst.ops[m])

ASSUME ModulePairsAssumption ==
  \A p \in ModulePairs : \A s \in {1, 2} : \A n \in DOMAIN p[s] : IsFunction(p[s][n])

\* No operand of the left functions is a block: no indirect branch goes anywhere.
NoBlockOperands ==
  \A p \in ModulePairs : \A n \in DOMAIN p[1] : \A b \in DOMAIN p[1][n].blocks :
    \A i \in DOMAIN p[1][n].blocks[b] : \A m \in DOMAIN p[1][n].blocks[b][i].ops :
      p[1][n].blocks[b][i].ops[m][1] # "block"

VARIABLES
  left, right,  \* the modules, chosen by Init
  pc,
  todo,         \* names of the functions still to compare
  name,         \* the function compared
  Values,       \* arguments and instructions of the left function -> of the right
  Blocks,       \* blocks of the left function -> of the right, or NULL
  Tentative,    \* TentativeValues: pairs of instructions
  Queue,        \* the heap of block pairs
  pair, k,      \* the pair compared, and the next of its instructions
  lost,         \* pairs tryUnify refused (history)
  Differences   \* of the consumer

vars == <<left, right, pc, todo, name, Values, Blocks, Tentative, Queue, pair, k, lost, Differences>>
inputVars == <<left, right>>
engineVars == <<Values, Blocks, Tentative, Queue, lost>>

NULL == 0
Empty == <<>>

L == left[name]
R == right[name]
LBlock == L.blocks[pair[1]]
RBlock == R.blocks[pair[2]]
LInst == <<"inst", pair[1], k>>
RInst == <<"inst", pair[2], k>>

Put(f, x, v) == [y \in DOMAIN f \cup {x} |-> IF y = x THEN v ELSE f[y]]

-----------------------------------------------------------------------------
(* PriorityQueue: a heap whose order depends on Blocks *)

BlockPairs == Nat \X Nat

\* getUnprocPredCount: edges from predecessors that are not in Blocks.
UnprocPredCount(b, blocks) ==
  Cardinality(UNION {{<<p, s>> : s \in {n \in DOMAIN Last(L.blocks[p]).succs : Last(L.blocks[p]).succs[n] = b}} :
                       p \in DOMAIN L.blocks \ DOMAIN blocks})

Precedes(p, q, blocks) == UnprocPredCount(p[1], blocks) < UnprocPredCount(q[1], blocks)

\* An index of the heap, and the heap.
Heaps == {at \in (Nat \ {0}) \X Seq(BlockPairs) : at[1] <= Len(at[2])}

Swapped(data, i, j) == [data EXCEPT ![i] = data[j], ![j] = data[i]]

SiftUp(qu, blocks) ==
  LET up[at \in Heaps] ==
        LET i == at[1]
            data == at[2]
            target == i \div 2
        IN IF i = 1 \/ ~Precedes(data[i], data[target], blocks) THEN data
           ELSE up[<<target, Swapped(data, i, target)>>]
  IN up[<<Len(qu), qu>>]

SiftDown(qu, blocks) ==
  LET down[at \in Heaps] ==
        LET i == at[1]
            data == at[2]
            n == Len(data)
            l == 2 * i
            r == 2 * i + 1
            child == IF Precedes(data[l], data[r], blocks) THEN l ELSE r
        IN IF l > n THEN data
           ELSE IF r > n THEN IF Precedes(data[l], data[i], blocks) THEN Swapped(data, l, i) ELSE data
           ELSE IF ~Precedes(data[child], data[i], blocks) THEN data
           ELSE down[<<child, Swapped(data, i, child)>>]
  IN down[<<1, qu>>]

Insert(qu, p, blocks) == SiftUp(Append(qu, p), blocks)

\* The last pair takes the place of the first.  Slip: it is dropped.
LastDropped(qu) == IF Len(qu) <= 2 THEN <<>> ELSE <<qu[Len(qu)]>> \o SubSeq(qu, 2, Len(qu) - 2)
RootReplaced(qu) == IF Len(qu) = 1 THEN <<>> ELSE <<qu[Len(qu)]>> \o SubSeq(qu, 2, Len(qu) - 1)
\* Slip: the last pair left is not removed.
LastStays(qu, blocks) == IF Len(qu) = 1 THEN qu ELSE SiftDown(RootReplaced(qu), blocks)
RemoveMin(qu, blocks) == IF Len(qu) = 1 THEN <<>> ELSE SiftDown(RootReplaced(qu), blocks)

-----------------------------------------------------------------------------
(* tryUnify *)

Unified(b, blocks) == b \in DOMAIN blocks /\ blocks[b] # NULL

\* st is [blocks, queue, lost].  Slip: a pair is overwritten.
PairOverwritten(st, p) ==
  LET blocks == Put(st.blocks, p[1], p[2])
  IN [blocks |-> blocks, queue |-> IF Unified(p[1], st.blocks) THEN st.queue ELSE Insert(st.queue, p, blocks),
      lost |-> st.lost]

\* A left block paired with another block already
\* keeps its pair, and the caller ignores the result.
TryUnify(st, p) ==
  IF Unified(p[1], st.blocks)
  THEN IF st.blocks[p[1]] = p[2] THEN st
       ELSE [blocks |-> st.blocks, queue |-> st.queue, lost |-> st.lost \cup {p}]
  ELSE LET blocks == Put(st.blocks, p[1], p[2])
       IN [blocks |-> blocks, queue |-> Insert(st.queue, p, blocks), lost |-> st.lost]

\* The successors paired by two terminators, in the order of the calls: of a
\* conditional branch the second first, of a switch by case value.
SuccPairs(l, r) ==
  IF l.op = "br" THEN Reverse([n \in DOMAIN l.succs |-> <<l.succs[n], r.succs[n]>>])
  ELSE IF l.op = "switch"
       THEN <<<<l.succs[1], r.succs[1]>>>> \o
            [n \in DOMAIN r.cases |->
               <<l.succs[1 + (CHOOSE m \in DOMAIN l.cases : l.cases[m] = r.cases[n])], r.succs[n + 1]>>]
  ELSE IF l.op = "invoke" THEN [n \in DOMAIN l.succs |-> <<l.succs[n], r.succs[n]>>]
  ELSE <<>>

\* Slip: the successors of the right terminator in the opposite order.
Crossed(l, r) ==
  LET ps == SuccPairs(l, r) IN [n \in DOMAIN ps |-> <<ps[n][1], ps[Len(ps) + 1 - n][2]>>]
Paired(l, r) == SuccPairs(l, r)

UnifySuccs(l, r) ==
  FoldLeft(TryUnify, [blocks |-> Blocks, queue |-> Queue, lost |-> lost], Paired(l, r))

-----------------------------------------------------------------------------
(* diff of two instructions *)

\* equivalentAsOperands.  The comparison of blocks is inverted in the code, the
\* address of a block is that of its partner if it has one by now, and all other
\* operands pass for the same.
Equivalent(lo, ro) ==
  /\ lo[1] = ro[1]
  /\ \/ lo[1] = "const" /\ lo = ro
     \/ lo[1] = "arg" /\ lo \in DOMAIN Values /\ Values[lo] = ro
     \/ lo[1] = "inst" /\ lo \in DOMAIN Values /\ Values[lo] = ro
     \/ lo[1] = "inst" /\ <<lo, ro>> \in Tentative
     \/ lo[1] = "block" /\ ~(lo[2] \in DOMAIN Blocks /\ Blocks[lo[2]] = ro[2])
     \/ lo[1] = "address" /\ lo[2] \in DOMAIN Blocks /\ Blocks[lo[2]] = ro[2]
     \/ lo[1] = "other"

OperandsEquivalent(l, r) ==
  Len(l.ops) = Len(r.ops) /\ \A n \in DOMAIN l.ops : Equivalent(l.ops[n], r.ops[n])

\* Phis are compared by their types alone, compares by their predicates also,
\* switches by their case values too; a branch has as many successors.
Same(l, r) ==
  /\ l.op = r.op
  /\ l.op \in {"cmp", "phi"} => l.att = r.att
  /\ l.op \in {"br", "switch"} => Len(l.ops) = Len(r.ops)
  /\ l.op = "switch" => ToSet(l.cases) = ToSet(r.cases)
  /\ l.op \notin {"phi", "unreachable"} => OperandsEquivalent(l, r)

\* Instructions of which operands are compared.
OperandsCompared(l, r) ==
  /\ l.op = r.op /\ l.op \notin {"phi", "unreachable"}
  /\ l.op = "cmp" => l.att = r.att
  /\ Len(l.ops) = Len(r.ops)

\* Blocks[] inserts NULL for the blocks looked up as operands or for their
\* addresses: those before and at the first operand that differs.
LookedUp(l, r) ==
  IF ~OperandsCompared(l, r) THEN {}
  ELSE {l.ops[n][2] : n \in {m \in DOMAIN l.ops :
          /\ l.ops[m][1] \in {"block", "address"} /\ r.ops[m][1] = l.ops[m][1]
          /\ \A j \in 1..(m - 1) : Equivalent(l.ops[j], r.ops[j])}}
WithLookups(l, r) ==
  [b \in DOMAIN Blocks \cup LookedUp(l, r) |-> IF b \in DOMAIN Blocks THEN Blocks[b] ELSE NULL]

-----------------------------------------------------------------------------
Init ==
  /\ \E p \in ModulePairs : left = p[1] /\ right = p[2]
  /\ pc = "modules"
  /\ todo = {}
  /\ name = (CHOOSE n \in DOMAIN left : TRUE)
  /\ Values = Empty
  /\ Blocks = Empty
  /\ Tentative = {}
  /\ Queue = <<>>
  /\ pair = <<Entry, Entry>>
  /\ k = 1
  /\ lost = {}
  /\ Differences = FALSE

(* DifferenceEngine::diff of two modules, and of two functions *)

\* A name that only one module has ends the comparison.
NamesDiffer ==
  /\ pc = "modules"
  /\ DOMAIN left # DOMAIN right
  /\ Differences' = TRUE
  /\ pc' = "done"
  /\ UNCHANGED <<inputVars, todo, name, engineVars, pair, k>>

NamesAgree ==
  /\ pc = "modules"
  /\ DOMAIN left = DOMAIN right
  /\ todo' = DOMAIN left
  /\ pc' = "next_function"
  /\ UNCHANGED <<inputVars, name, engineVars, pair, k, Differences>>

AllCompared ==
  /\ pc = "next_function"
  /\ todo = {}
  /\ pc' = "done"
  /\ UNCHANGED <<inputVars, todo, name, engineVars, pair, k, Differences>>

IsDeclaration(f) == f.blocks = <<>>

\* Declarations are equal to each other and to nothing else, and so are
\* functions of the same number of arguments.
SkipFunction(n) ==
  /\ pc = "next_function"
  /\ n \in todo
  /\ IsDeclaration(left[n]) \/ IsDeclaration(right[n]) \/ left[n].args # right[n].args
  /\ Differences' = (Differences \/ ~(IsDeclaration(left[n]) /\ IsDeclaration(right[n])))
  /\ todo' = todo \ {n}
  /\ UNCHANGED <<inputVars, pc, name, engineVars, pair, k>>

\* A new FunctionDifferenceEngine: the arguments and the entries are paired.
StartFunction(n) ==
  /\ pc = "next_function"
  /\ n \in todo
  /\ ~IsDeclaration(left[n]) /\ ~IsDeclaration(right[n]) /\ left[n].args = right[n].args
  /\ name' = n
  /\ todo' = todo \ {n}
  /\ Values' = [a \in {<<"arg", m>> : m \in 1..left[n].args} |-> a]
  /\ Blocks' = [b \in {Entry} |-> Entry]
  /\ Tentative' = {}
  /\ Queue' = <<<<Entry, Entry>>>>
  /\ lost' = {}
  /\ pc' = "dequeue"
  /\ UNCHANGED <<inputVars, pair, k, Differences>>

-----------------------------------------------------------------------------
(* FunctionDifferenceEngine *)

Dequeue ==
  /\ pc = "dequeue"
  /\ Queue # <<>>
  /\ pair' = Queue[1]
  /\ Queue' = RemoveMin(Queue, Blocks)
  /\ k' = 1
  /\ pc' = "compare"
  /\ UNCHANGED <<inputVars, todo, name, Values, Blocks, Tentative, lost, Differences>>

QueueEmpty ==
  /\ pc = "dequeue"
  /\ Queue = <<>>
  /\ pc' = "next_function"
  /\ UNCHANGED <<inputVars, todo, name, engineVars, pair, k, Differences>>

\* The first difference ends the pair; its tentative values stay behind.
FindDifference ==
  /\ pc = "compare"
  /\ k <= Len(RBlock)
  /\ ~Same(LBlock[k], RBlock[k])
  /\ Blocks' = WithLookups(LBlock[k], RBlock[k])
  /\ Differences' = TRUE
  /\ pc' = "dequeue"
  /\ UNCHANGED <<inputVars, todo, name, Values, Tentative, Queue, lost, pair, k>>

CompareInst ==
  /\ pc = "compare"
  /\ k <= Len(RBlock)
  /\ Same(LBlock[k], RBlock[k])
  /\ Blocks' = WithLookups(LBlock[k], RBlock[k])
  /\ IF k < Len(LBlock)
     THEN /\ k' = k + 1
          /\ Tentative' = IF LBlock[k].used THEN Tentative \cup {<<LInst, RInst>>} ELSE Tentative
          /\ UNCHANGED pc
     ELSE /\ k' = 1
          /\ Tentative' = {}
          /\ pc' = "unify"
  /\ UNCHANGED <<inputVars, todo, name, Values, Queue, lost, pair, Differences>>

\* Values after unify.  Slip: only of the entry block.
ValuesOfEntry == IF LBlock[k].used /\ pair[1] = Entry THEN Put(Values, LInst, RInst) ELSE Values
ValuesUnified == IF LBlock[k].used THEN Put(Values, LInst, RInst) ELSE Values

Unify ==
  /\ pc = "unify"
  /\ Same(LBlock[k], RBlock[k])
  /\ LET st == UnifySuccs(LBlock[k], RBlock[k])
     IN /\ Blocks' = st.blocks
        /\ Queue' = st.queue
        /\ lost' = st.lost
  /\ Values' = ValuesUnified
  /\ k' = k + 1
  /\ pc' = IF k < Len(LBlock) THEN "unify" ELSE "dequeue"
  /\ UNCHANGED <<inputVars, todo, name, Tentative, pair, Differences>>

-----------------------------------------------------------------------------
Finished == pc = "done" /\ UNCHANGED vars

Next ==
  \/ NamesDiffer \/ NamesAgree \/ AllCompared
  \/ \E n \in todo : SkipFunction(n) \/ StartFunction(n)
  \/ Dequeue \/ QueueEmpty
  \/ FindDifference \/ CompareInst \/ Unify
  \/ Finished

\* The program is sequential: it takes its next step.
Spec == Init /\ [][Next]_vars /\ WF_vars(Next)
-----------------------------------------------------------------------------
(* Properties *)

\* The shape of the state.
TypeOK ==
  /\ pc \in {"modules", "next_function", "dequeue", "compare", "unify", "done"}
  /\ todo \subseteq DOMAIN left
  /\ Differences \in BOOLEAN
  /\ k \in Nat \ {0}
  /\ pc \in {"dequeue", "compare", "unify"} =>
       /\ DOMAIN Blocks \subseteq DOMAIN L.blocks
       /\ \A b \in DOMAIN Blocks : Blocks[b] \in DOMAIN R.blocks \cup {NULL}
       /\ \A n \in DOMAIN Queue : Unified(Queue[n][1], Blocks) /\ Blocks[Queue[n][1]] = Queue[n][2]
  /\ pc \in {"compare", "unify"} =>
       pair[1] \in DOMAIN L.blocks /\ pair[2] \in DOMAIN R.blocks

\* The asserts of the two passes: the first never runs past the end of the right
\* block, and the second finds no difference the first did not find, though the
\* tentative values of blocks that differed are never cleared.
AssertsHold ==
  /\ pc = "compare" => k <= Len(RBlock)
  /\ pc = "unify" => Same(LBlock[k], RBlock[k])

DefaultCase == 0

\* Where a terminator goes, on its condition or case value.
Targets(inst) ==
  IF inst.op = "switch"
  THEN [c \in ToSet(inst.cases) \cup {DefaultCase} |->
          IF c = DefaultCase THEN inst.succs[1]
          ELSE inst.succs[1 + (CHOOSE n \in DOMAIN inst.cases : inst.cases[n] = c)]]
  ELSE inst.succs

Corresponds(lo, ro) ==
  CASE lo[1] = "inst" -> ro = <<"inst", Blocks[lo[2]], lo[3]>>
    [] lo[1] = "address" -> ro = <<"address", Blocks[lo[2]]>>
    [] lo[1] = "other" -> ro[1] = "other"
    [] OTHER -> lo = ro

\* A block does what its partner does, on the same values, and goes on to the
\* partners of the blocks that one goes on to.
SimulatesBlock(b) ==
  LET l == L.blocks[b]
      r == R.blocks[Blocks[b]]
  IN /\ Len(l) = Len(r)
     /\ \A n \in DOMAIN l :
          /\ l[n].op = r[n].op
          /\ l[n].op \in {"cmp", "phi"} => l[n].att = r[n].att
          /\ l[n].op # "phi" =>
               /\ Len(l[n].ops) = Len(r[n].ops)
               /\ \A o \in DOMAIN l[n].ops : Corresponds(l[n].ops[o], r[n].ops[o])
     /\ LET lt == Targets(Last(l))
            rt == Targets(Last(r))
        IN /\ DOMAIN lt = DOMAIN rt
           /\ \A c \in DOMAIN lt : lt[c] \in DOMAIN Blocks /\ Blocks[lt[c]] = rt[c]

\* So do all blocks reached from the entry.
Simulates == Entry \in DOMAIN Blocks /\ \A b \in DOMAIN Blocks : SimulatesBlock(b)

FunctionCompared == pc = "dequeue" /\ Queue = <<>>

\* When no difference was found and no pair of blocks refused, the functions do
\* the same (phis, inline assembly and metadata aside): whatever order the heap
\* hands out the pairs in, none is dropped, and values are never identified
\* before they were compared.
SameMeansSimilar == FunctionCompared /\ ~Differences /\ lost = {} => Simulates

\* Functions that differ in the numbering of their blocks at most, and hold no
\* address of a block: such a one differs until the block has been met.
Addressless(f) == \A b \in DOMAIN f.blocks : \A n \in DOMAIN f.blocks[b] :
  \A o \in DOMAIN f.blocks[b][n].ops : f.blocks[b][n].ops[o][1] # "address"
Renamed(inst, m) ==
  [inst EXCEPT !.succs = [n \in DOMAIN @ |-> m[@[n]]],
               !.ops = [n \in DOMAIN @ |-> IF @[n][1] = "inst" THEN <<"inst", m[@[n][2]], @[n][3]>> ELSE @[n]]]
Isomorphic(f, g) ==
  /\ f.args = g.args /\ Len(f.blocks) = Len(g.blocks)
  /\ Addressless(f)
  /\ \E m \in [DOMAIN f.blocks -> DOMAIN g.blocks] :
       /\ \A b, c \in DOMAIN m : m[b] = m[c] => b = c
       /\ m = Empty \/ m[Entry] = Entry
       /\ \A b \in DOMAIN m : g.blocks[m[b]] = [n \in DOMAIN f.blocks[b] |-> Renamed(f.blocks[b][n], m)]

\* No difference is found between modules whose functions, without addresses of
\* blocks, differ in the numbering of their blocks only.
IsomorphicSame ==
  pc = "done" /\ DOMAIN left = DOMAIN right /\ (\A n \in DOMAIN left : Isomorphic(left[n], right[n]))
    => ~Differences

\* The two directions: no difference found means that there is none, where no
\* pair was refused, and there being none that none is found; on the way the two
\* passes over a block agree (DifferenceEngine.cpp:124, 181, perf-diff.cpp:48).
ComparedExactly == AssertsHold /\ SameMeansSimilar /\ IsomorphicSame

\* Loops in the functions do not keep the comparison going.
Terminates == <>(pc = "done")
=============================================================================
