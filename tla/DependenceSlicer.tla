-------------------------- MODULE DependenceSlicer --------------------------
(***************************************************************************)
(* The dependences of a function and its slices: the memory dependence     *)
(* graph DepGraphBuilder makes (lib/dependence/DepGraphBuilder.cpp over    *)
(* include/graph), the iterator DepIterator on top of two depth-first      *)
(* iterators (lib/dependence/DepIter.cpp, include/graph/DFSIter.h), the    *)
(* Slicer that prints what it gives, and PDGSlicer with a stack of its own *)
(* (lib/slicer).                                                           *)
(*                                                                         *)
(* A function is its instructions 1..N.  What LLVM says of them is input:  *)
(* the results of the memory dependence query of each, the operands and    *)
(* the users in use-list order; NoInst is a value that is no instruction.  *)
(* One step is one result added, one turn of the loop of in_next/out_next  *)
(* or of addToSliceStack, or what sliceInit and sliceNext do before it.    *)
(***************************************************************************)
EXTENDS Integers, Sequences, FiniteSets, SequencesExt

CONSTANTS
  N,          \* instructions of the function
  Functions,  \* functions to analyse
  Requests    \* kinds of dependences to ask for: subsets of {"mem", "ssa"}

NoInst == 0
Inst == 1..N
Kinds == {"mem", "ssa"}

ASSUME NAssumption == N \in Nat
ASSUME FunctionsAssumption ==
  \A f \in Functions :
    /\ f.access \in [Inst -> {"none", "answered", "refused"}]
    /\ f.results \in [Inst -> Seq([inst : Inst \cup {NoInst}, def : BOOLEAN])]
    /\ f.operands \in [Inst -> Seq(Inst \cup {NoInst})]
    /\ f.uses \in [Inst -> Seq(Inst \cup {NoInst})]
ASSUME RequestsAssumption == Requests \subseteq SUBSET Kinds

VARIABLES
  fun,       \* the function analysed
  must,      \* m_must: take definite dependences only
  pc,        \* "build", "choose", "next", "mem", "ssa", "ended" or "pdg"
  at,        \* build: the instruction queried and its results taken so far
  nodes,     \* instructions with a node in mem_graph
  outN, inN, \* the neighbours of each node, in the order they were added
  crit,      \* the criterion: instruction, request, direction
  flags,     \* m_state
  iter,      \* m_mem_iter and m_ssa_iter: worklist and visited set of each
  depinst,   \* m_depinst
  given,     \* the instructions printed (history)
  pdg        \* PDGSlicer: stack, visited, inited, the neighbours still to push; what it gave, and for what

graphVars == <<fun, must, at, nodes, outN, inN>>
iterVars == <<crit, flags, iter, depinst, given>>
vars == <<fun, must, pc, at, nodes, outN, inN, crit, flags, iter, depinst, given, pdg>>

--------------------------------------------------------------------------
(* Building the memory dependence graph.                                   *)

\* The results of the instruction at hand that a query gave and the loop uses.
Asked(i) == IF fun.access[i] = "answered" THEN fun.results[i] ELSE <<>>

\* AddDepResultToGraph returns early.  Slip: what only may be is taken for a definition.
TakesClobbers(i, r) == r.inst # i /\ r.inst # NoInst
Added(i, r) == r.inst # i /\ r.inst # NoInst /\ (~must \/ r.def)

\* The in-neighbours with one more.  Slip: kept only on the way out.
DropsInEdge(from, to) == inN
InAfter(from, to) == [inN EXCEPT ![to] = Append(inN[to], from)]

AddResult ==
  /\ pc = "build"
  /\ at.inst \in Inst
  /\ at.taken < Len(Asked(at.inst))
  /\ LET r == Asked(at.inst)[at.taken + 1] IN
       IF Added(at.inst, r)
       THEN /\ nodes' = nodes \cup {r.inst, at.inst}
            /\ outN' = [outN EXCEPT ![r.inst] = Append(outN[r.inst], at.inst)]
            /\ inN' = InAfter(r.inst, at.inst)
       ELSE UNCHANGED <<nodes, outN, inN>>
  /\ at' = [inst |-> at.inst, taken |-> at.taken + 1]
  /\ UNCHANGED <<fun, must, pc, iterVars, pdg>>

NextInstruction ==
  /\ pc = "build"
  /\ at.inst \in Inst
  /\ at.taken = Len(Asked(at.inst))
  /\ at' = [inst |-> at.inst + 1, taken |-> 0]
  /\ UNCHANGED <<fun, must, pc, nodes, outN, inN, iterVars, pdg>>

Built ==
  /\ pc = "build"
  /\ at.inst \notin Inst
  /\ pc' = "choose"
  /\ UNCHANGED <<graphVars, iterVars, pdg>>

--------------------------------------------------------------------------
(* The depth-first iterator.  A worklist entry is a node and the place of  *)
(* the next neighbour to look at; 0 is the started bit still unset.        *)

Begin(i) == [stack |-> <<[node |-> i, place |-> 0]>>, visited |-> {}]
NoIter == [stack |-> <<>>, visited |-> {}]

\* The neighbours an iterator of that kind goes to from i.
Neighbours(k, i) ==
  CASE k = "mem" /\ crit.forward  -> outN[i]
    [] k = "mem" /\ ~crit.forward -> inN[i]
    [] k = "ssa" /\ crit.forward  -> fun.uses[i]
    [] k = "ssa" /\ ~crit.forward -> fun.operands[i]

TopOf(k) == Last(iter[k].stack)
Places(k) == (IF TopOf(k).place = 0 THEN 1 ELSE TopOf(k).place)..Len(Neighbours(k, TopOf(k).node))

\* Neighbour at place p is to be visited.  Slips: the visited set is never
\* asked; a value that is no instruction is.
NullToo(k, p) == Neighbours(k, TopOf(k).node)[p] \notin iter[k].visited
VisitsAgain(k, p) == Neighbours(k, TopOf(k).node)[p] # NoInst
Unvisited(k, p) == Neighbours(k, TopOf(k).node)[p] \notin {NoInst} \cup iter[k].visited

FirstUnvisited(k, p) ==
  /\ p \in Places(k)
  /\ Unvisited(k, p)
  /\ \A q \in Places(k) : q < p => ~Unvisited(k, q)

\* The worklist once the top has given its neighbour at p.  Slip: the top is replaced.
ReplacesTop(k, p) ==
  Append(Front(iter[k].stack), [node |-> Neighbours(k, TopOf(k).node)[p], place |-> 0])
Pushed(k, p) ==
  Append(Append(Front(iter[k].stack), [node |-> TopOf(k).node, place |-> p]),
         [node |-> Neighbours(k, TopOf(k).node)[p], place |-> 0])

\* An unvisited neighbour is pushed, and given by getInst.
Visit(k) ==
  /\ pc = k
  /\ iter[k].stack # <<>>
  /\ \E p \in Places(k) :
       LET n == Neighbours(k, TopOf(k).node)[p] IN
         /\ FirstUnvisited(k, p)
         /\ iter' = [iter EXCEPT ![k] = [stack |-> Pushed(k, p), visited |-> iter[k].visited \cup {n}]]
         /\ depinst' = n
         /\ given' = Append(given, n)
  /\ flags' = flags \cup {"Start"}
  /\ pc' = "next"
  /\ UNCHANGED <<graphVars, crit, pdg>>

\* The worklist without its top.  Slip: the top stays.
KeepsTop(k) == iter[k].stack
Popped(k) == Front(iter[k].stack)

\* The top has none: it is popped, and the loop goes on.
Backtrack(k) ==
  /\ pc = k
  /\ iter[k].stack # <<>>
  /\ \A p \in Places(k) : ~Unvisited(k, p)
  /\ iter' = [iter EXCEPT ![k] = [stack |-> Popped(k), visited |-> iter[k].visited]]
  /\ UNCHANGED <<graphVars, pc, crit, flags, depinst, given, pdg>>

--------------------------------------------------------------------------
(* DepIterator: the constructor sets up one of the two iterators under     *)
(* the Ready bit, and next() goes on with the one that is not done.        *)

TouchesMemory(i) == fun.access[i] # "none"

\* setMemDepIter goes on for this criterion.
WantsMem(c) == "mem" \in c.request /\ TouchesMemory(c.inst)

\* The done bits of the kinds asked for.
DoneBits(kinds) == {IF k = "mem" THEN "MemDone" ELSE "SSADone" : k \in kinds}

\* An iterator is set up on the criterion, and stands on it.
SetUp(c, k) ==
  /\ flags' = {"Start"} \cup DoneBits(IF k = "ssa" THEN c.request \cap {"mem"} ELSE {})
  /\ iter' = [j \in Kinds |-> IF j = k THEN Begin(c.inst) ELSE NoIter]
  /\ depinst' = c.inst
  /\ pc' = "next"

\* No iterator could be set up: done() holds from the start.
SetUpNothing(c, ready) ==
  /\ flags' = ready \cup {"AllDone"} \cup DoneBits(c.request)
  /\ iter' = [j \in Kinds |-> NoIter]
  /\ depinst' = NoInst
  /\ pc' = "ended"

\* The instruction has a node to begin at.
HasNode(i) == i \in nodes

\* With the memory iterator set up the SSA one is not tried.  Without a node
\* the memory iterator is at its end, but it has used up the Ready bit.
Open ==
  /\ pc = "choose"
  /\ crit' \in [inst : Inst, request : Requests, forward : BOOLEAN]
  /\ \/ WantsMem(crit') /\ HasNode(crit'.inst) /\ SetUp(crit', "mem")
     \/ WantsMem(crit') /\ ~HasNode(crit'.inst) /\ SetUpNothing(crit', {})
     \/ ~WantsMem(crit') /\ "ssa" \in crit'.request /\ SetUp(crit', "ssa")
     \/ ~WantsMem(crit') /\ "ssa" \notin crit'.request /\ SetUpNothing(crit', {"Ready"})
  /\ UNCHANGED <<graphVars, given, pdg>>

\* Slicer::next increments the iterator, the first time too.
Advance(k) ==
  /\ pc = "next"
  /\ k \in crit.request /\ DoneBits({k}) \cap flags = {}
  /\ k = "ssa" => DoneBits({"mem"} \cap crit.request) \subseteq flags
  /\ pc' = k
  /\ UNCHANGED <<graphVars, iterVars, pdg>>

\* The worklist is empty: this kind is done, and the other one may go on.
Exhausted(k) ==
  /\ pc = k
  /\ iter[k].stack = <<>>
  /\ flags' = flags \cup DoneBits({k})
  /\ depinst' = NoInst
  /\ pc' = IF k = "mem" /\ "ssa" \in crit.request THEN "ssa" ELSE "ended"
  /\ UNCHANGED <<graphVars, crit, iter, given, pdg>>

--------------------------------------------------------------------------
(* PDGSlicer: its client calls sliceInit and sliceNext in any order.  Its  *)
(* DependenceGraph is filled by a vendored analysis; any graph will do,    *)
(* and the one just built stands for it.                                   *)

UsePDG ==
  /\ pc = "choose"
  /\ pc' = "pdg"
  /\ UNCHANGED <<graphVars, iterVars, pdg>>

\* A neighbour in addToSliceStack.  Slip: pushed whether it was before or not.
PushAlways(p, n) == [p EXCEPT !.stack = Append(p.stack, n), !.visited = p.visited \cup {n}]
AddToSliceStack(p, n) ==
  IF n \in p.visited THEN p
  ELSE [p EXCEPT !.stack = Append(p.stack, n), !.visited = p.visited \cup {n}]

\* The loop of addToSliceStack, at the end of sliceInit and of sliceNext.
SlicePush ==
  /\ pc = "pdg"
  /\ pdg.rest # <<>>
  /\ pdg' = AddToSliceStack([pdg EXCEPT !.rest = Tail(pdg.rest)], Head(pdg.rest))
  /\ UNCHANGED <<graphVars, pc, iterVars>>

\* sliceInit of an instruction without a node and sliceNext before sliceInit
\* change nothing: a slice begun before goes on.
Refused ==
  /\ pc = "pdg" /\ pdg.rest = <<>>
  /\ ~pdg.inited \/ \E i \in Inst : i \notin nodes
  /\ UNCHANGED vars

SliceInit(i) ==
  /\ pc = "pdg" /\ pdg.rest = <<>>
  /\ i \in nodes
  /\ pdg' = [stack |-> <<>>, visited |-> {}, rest |-> outN[i], inited |-> TRUE,
             given |-> <<>>, crit |-> i]
  /\ UNCHANGED <<graphVars, pc, iterVars>>

SliceNext ==
  /\ pc = "pdg" /\ pdg.rest = <<>>
  /\ pdg.inited
  /\ pdg' = IF pdg.stack = <<>> THEN [pdg EXCEPT !.inited = FALSE]
            ELSE [pdg EXCEPT !.stack = Front(pdg.stack), !.rest = outN[Last(pdg.stack)],
                             !.given = Append(pdg.given, Last(pdg.stack))]
  /\ UNCHANGED <<graphVars, pc, iterVars>>

--------------------------------------------------------------------------

Init ==
  /\ fun \in Functions
  /\ must \in BOOLEAN
  /\ pc = "build"
  /\ at = [inst |-> 1, taken |-> 0]
  /\ nodes = {}
  /\ outN = [i \in Inst |-> <<>>]
  /\ inN = [i \in Inst |-> <<>>]
  /\ crit = [inst |-> NoInst, request |-> {}, forward |-> TRUE]
  /\ flags = {"Ready"}
  /\ iter = [k \in Kinds |-> NoIter]
  /\ depinst = NoInst
  /\ given = <<>>
  /\ pdg = [stack |-> <<>>, visited |-> {}, rest |-> <<>>, inited |-> FALSE, given |-> <<>>, crit |-> NoInst]

Finished == pc = "ended" /\ UNCHANGED vars

Next ==
  \/ AddResult \/ NextInstruction \/ Built
  \/ Open
  \/ \E k \in Kinds : Advance(k) \/ Visit(k) \/ Backtrack(k) \/ Exhausted(k)
  \/ UsePDG \/ Refused \/ SlicePush \/ SliceNext \/ \E i \in Inst : SliceInit(i)
  \/ Finished

Spec == Init /\ [][Next]_vars /\ WF_vars(Next)

--------------------------------------------------------------------------
(* What is to be given.                                                    *)

\* Instructions to which a dependence of that kind leads from i.
Succ(k, i) == ToSet(Neighbours(k, i)) \ {NoInst}

Closed(k, S) == \A x \in S : Succ(k, x) \subseteq S

\* Instructions that one or more dependences lead to from i.
Reach(k, i) == {y \in Inst : \A S \in SUBSET Inst : Succ(k, i) \subseteq S /\ Closed(k, S) => y \in S}

\* The kinds whose dependences are asked for and that the criterion has: memory
\* dependences are ignored of what does not touch memory (DepIter.cpp:86).
Sought == {k \in crit.request : k = "mem" => TouchesMemory(crit.inst)}

\* A criterion is chosen and one kind is left to walk, or none.
OneKind == pc \notin {"build", "choose", "pdg"} /\ Sought # Kinds

Goal == IF OneKind THEN UNION {Reach(k, crit.inst) : k \in Sought} ELSE {}
Phase == IF ~OneKind THEN "idle" ELSE IF pc = "ended" THEN "ended" ELSE "giving"
GivenOfOne == IF OneKind THEN given ELSE <<>>

Slice == INSTANCE Enumeration WITH Items <- Inst, phase <- Phase, goal <- Goal, given <- GivenOfOne

\* The slicer gives every instruction that dependences of the kind asked for lead
\* to from the criterion, each once, and nothing else (Slicer.cpp:50).  Of a
\* memory access and both kinds it says nothing: see AllDepExhausted.
ImplementsEnumeration == Slice!Spec

--------------------------------------------------------------------------
(* Properties.                                                             *)

EntryType == [node : Inst, place : Nat]
PDGType ==
  [stack : Seq(Inst), visited : SUBSET Inst, rest : Seq(Inst), inited : BOOLEAN,
   given : Seq(Inst), crit : Inst \cup {NoInst}]

\* Types of the graph, the iterators and what was given (DepGraph.h, DFSIter.h, DepIter.h).
TypeOK ==
  /\ pc \in {"build", "choose", "next", "mem", "ssa", "ended", "pdg"}
  /\ at \in [inst : 1..N + 1, taken : Nat]
  /\ nodes \subseteq Inst
  /\ outN \in [Inst -> Seq(Inst)] /\ inN \in [Inst -> Seq(Inst)]
  /\ crit \in [inst : Inst \cup {NoInst}, request : SUBSET Kinds, forward : BOOLEAN]
  /\ flags \subseteq {"Ready", "Start", "SSADone", "MemDone", "AllDone"}
  /\ iter \in [Kinds -> [stack : Seq(EntryType), visited : SUBSET Inst]]
  /\ depinst \in Inst \cup {NoInst}
  /\ given \in Seq(Inst)
  /\ pdg \in PDGType

Occurs(x, seq) == Cardinality({j \in DOMAIN seq : seq[j] = x})

\* Once the graph is built, every definite result of a query is one edge from
\* its instruction, found from both ends, only the ends of edges are nodes, and
\* a backward slice is the inverse of the forward ones
\* (DepGraphBuilder.cpp:110, Graph.h:126).
GraphExact ==
  pc = "choose" =>
    /\ \A x, y \in Inst :
         /\ Occurs(y, outN[x]) = Cardinality({j \in DOMAIN Asked(y) :
              Asked(y)[j].inst = x /\ x # y /\ (must => Asked(y)[j].def)})
         /\ Occurs(y, outN[x]) = Occurs(x, inN[y])
    /\ nodes = {x \in Inst : outN[x] # <<>> \/ inN[x] # <<>>}

\* An instruction is given only after the criterion or an instruction given
\* before on which it depends, in a kind asked for; the way there is on the
\* worklist, and getInst stands on the last one given (DFSIter.h:80, DepIter.cpp:83).
ChainOfCauses ==
  pc \in {"next", "mem", "ssa"} =>
    /\ \A n \in DOMAIN given : \E x \in {crit.inst} \cup {given[m] : m \in 1..n - 1} :
         \E k \in Sought : given[n] \in Succ(k, x)
    /\ \A k \in Kinds : LET st == iter[k].stack IN
         \A n \in DOMAIN st : IF n = 1 THEN st[n].node = crit.inst
                               ELSE st[n].node \in Succ(k, st[n - 1].node)
    /\ pc = "next" => (\E k \in Sought : iter[k].stack # <<>>) /\ depinst = Last(<<crit.inst>> \o given)

\* "When the quest is AllDep, we first exhaust memory dependence and then SSA"
\* (DepIter.cpp:110).  The first half: SSA dependences are followed, and the end
\* is reached, only after all that memory dependences lead to was given.
MemoryFirst ==
  "mem" \in Sought /\ pc \in {"ssa", "ended"} => Reach("mem", crit.inst) \subseteq ToSet(given)

\* The whole of it: in the end nothing is left that a kind asked for leads to.
AllDepExhausted ==
  pc = "ended" /\ crit.request = Kinds =>
    \A k \in Sought : Reach(k, crit.inst) \subseteq ToSet(given)

\* The same over the out-edges of the graph.
Out(i) == ToSet(outN[i])
ReachOut(i) ==
  {y \in Inst : \A S \in SUBSET Inst : Out(i) \subseteq S /\ (\A x \in S : Out(x) \subseteq S) => y \in S}

\* PDGSlicer gives an instruction at most once; when it has no more it gave
\* all that the last criterion sliceInit accepted leads to (PDGSlicer.cpp:31).
PDGSliceExact ==
  LET reach == ReachOut(pdg.crit) IN
    /\ Cardinality(ToSet(pdg.given)) = Len(pdg.given)
    /\ pdg.crit # NoInst => ToSet(pdg.given) \subseteq reach
    /\ pdg.crit # NoInst /\ pdg.stack = <<>> /\ pdg.rest = <<>> => ToSet(pdg.given) = reach

\* Both walks, of the iterator and of PDGSlicer, give what the criterion leads
\* to and in an order its dependences account for (DFSIter.h:80, PDGSlicer.cpp:45).
WalksExact == ChainOfCauses /\ MemoryFirst /\ PDGSliceExact

\* A slice comes to its end (Slicer.cpp:62); the calls of PDGSlicer are its client's.
Terminates == <>(pc \in {"ended", "pdg"})
=============================================================================
