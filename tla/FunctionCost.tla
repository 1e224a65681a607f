---------------------------- MODULE FunctionCost ----------------------------
(***************************************************************************)
(* The static cost of a function: the acyclic graph BBDAG builds from the  *)
(* control-flow graph (lib/analyzer/CostModel/CFGDAG.cpp), and the longest *)
(* path CostModel::getFunctionCost finds in it (CostModel.cpp).            *)
(*                                                                         *)
(* BBDAG::init walks the blocks depth first with an explicit stack, on     *)
(* which a block may lie several times.  An edge to a block still on the   *)
(* current path is replaced by one to a dummy exit node.  getFunctionCost  *)
(* then takes the nodes in topological order, by counting down in_cnt.     *)
(* One step is one iteration of a loop.                                    *)
(***************************************************************************)
EXTENDS InstructionCost

CONSTANTS
  Targets,   \* the targets, by name
  Functions  \* functions, each with the target it is costed on: see FunctionsAssumption

Entry == 1
Exit == 0     \* the dummy exit node: the one without a block

\* cfg: the successors of each block; body: its instructions.  No branch leads
\* back to the entry block.
ASSUME FunctionsAssumption ==
  \A f \in Functions : /\ f.target \in DOMAIN Targets
                       /\ f.cfg \in Seq(Seq(Nat))
                       /\ \A b \in DOMAIN f.cfg : \A c \in ToSet(f.cfg[b]) : c \in DOMAIN f.cfg \ {Entry}
                       /\ DOMAIN f.cfg \subseteq DOMAIN f.body

\* The cost of a block is unsigned.
ASSUME CostsAssumption ==
  \A f \in Functions : \A b \in DOMAIN f.cfg : getBasicBlockCost(Targets[f.target], f.body[b]) \in Nat

VARIABLES
  target, cfg, body,   \* the function, chosen by Init
  pc,      \* "begin", "dfs", "edges", "take", "relax" or "done"
  color,   \* color of each block
  stack,   \* dfsStack, its top last
  out,     \* out-edges of each node, in the order they were added
  in_cnt,  \* in-edges of each node not yet counted down
  cost,    \* cost of each node: of the dearest way to it, then through it
  queue,   \* bfsQueue
  node,    \* the block visited, then the node taken from the queue
  ei,      \* the next of its successors, then of its out-edges
  settled, \* nodes taken so far (history)
  max      \* what getFunctionCost returns

inputVars == <<target, cfg, body>>
vars == <<inputVars, pc, color, stack, out, in_cnt, cost, queue, node, ei, settled, max>>
dagVars == <<color, stack, out, in_cnt>>
costVars == <<cost, queue, settled, max>>
cursorVars == <<node, ei>>

Blocks == DOMAIN cfg
Nodes == Blocks \cup {Exit}

InstCost(inst) == getInstructionCost(Targets[target], inst)
BlockCost(b) == getBasicBlockCost(Targets[target], body[b])

Top == Last(stack)

\* The node the edge to successor c leads to.  Slip: a back edge kept.
EdgeKeepsBack(c) == c
EdgeTarget(c) == IF color[c] = "GRAY" THEN Exit ELSE c

\* What a visit pushes: the white successors.  Slip: whatever its edges lead to.
PushesTarget(c) == <<EdgeTarget(c)>>
Pushed(c) == IF color[c] = "WHITE" THEN <<c>> ELSE <<>>

\* The color of a block once it is popped.  Slip: left as it is.
PoppedKeepsColor == color[Top]
PoppedColor == "BLACK"

\* A popped block connects to the exit.  Slip: never.
NeverEnds(b) == FALSE
EndsFunction(b) == cfg[b] = <<>>

\* dec_in_count() == 0: the child may be taken.  Slip: at its first edge already.
ReadyAtOnce(n) == n \notin settled /\ n \notin ToSet(queue)
Ready(n) == in_cnt[n] <= 1

\* The child's cost over an edge from the node.  Slip: the last edge decides.
LastEdgeDecides(n) == cost[node]
Dearer(n) == IF cost[n] < cost[node] THEN cost[node] ELSE cost[n]

\* The queue once its front is taken.  Slip: the exit is not popped.
ExitStays == IF Head(queue) = Exit THEN queue ELSE Tail(queue)
QueueAfterTake == Tail(queue)

-----------------------------------------------------------------------------
Init ==
  /\ \E f \in Functions : target = f.target /\ cfg = f.cfg /\ body = f.body
  /\ pc = "begin"
  /\ color = [b \in Blocks |-> "WHITE"]
  /\ stack = <<>>
  /\ out = [n \in Nodes |-> <<>>]
  /\ in_cnt = [n \in Nodes |-> 0]
  /\ cost = [n \in Nodes |-> 0]
  /\ queue = <<>>
  /\ node = Entry
  /\ ei = 1
  /\ settled = {}
  /\ max = 0

\* A declaration has no blocks.
NoBody ==
  /\ pc = "begin"
  /\ cfg = <<>>
  /\ pc' = "done"
  /\ UNCHANGED <<inputVars, dagVars, costVars, cursorVars>>

StartInit ==
  /\ pc = "begin"
  /\ cfg # <<>>
  /\ stack' = <<Entry>>
  /\ pc' = "dfs"
  /\ UNCHANGED <<inputVars, color, out, in_cnt, costVars, cursorVars>>

-----------------------------------------------------------------------------
(* BBDAG::init *)

\* A white block turns gray, and its successors are looked at one by one.
VisitBlock ==
  /\ pc = "dfs"
  /\ stack # <<>> /\ color[Top] = "WHITE"
  /\ color' = [color EXCEPT ![Top] = "GRAY"]
  /\ node' = Top
  /\ ei' = 1
  /\ pc' = "edges"
  /\ UNCHANGED <<inputVars, stack, out, in_cnt, costVars>>

\* A white successor is pushed, again if it lies on the stack already.
LinkSuccessor ==
  /\ pc = "edges"
  /\ ei <= Len(cfg[node])
  /\ LET child == cfg[node][ei]
     IN /\ out' = [out EXCEPT ![node] = Append(@, EdgeTarget(child))]
        /\ in_cnt' = [in_cnt EXCEPT ![EdgeTarget(child)] = @ + 1]
        /\ stack' = stack \o Pushed(child)
  /\ ei' = ei + 1
  /\ UNCHANGED <<inputVars, pc, color, costVars, node>>

VisitDone ==
  /\ pc = "edges"
  /\ ei > Len(cfg[node])
  /\ pc' = "dfs"
  /\ UNCHANGED <<inputVars, dagVars, costVars, cursorVars>>

\* A block found not white is finished and popped.  A block that ends the
\* function gets an edge to the exit, one for each time it is popped.
PopBlock ==
  /\ pc = "dfs"
  /\ stack # <<>> /\ color[Top] # "WHITE"
  /\ color' = [color EXCEPT ![Top] = PoppedColor]
  /\ stack' = Front(stack)
  /\ IF EndsFunction(Top)
     THEN /\ out' = [out EXCEPT ![Top] = Append(@, Exit)]
          /\ in_cnt' = [in_cnt EXCEPT ![Exit] = @ + 1]
     ELSE UNCHANGED <<out, in_cnt>>
  /\ UNCHANGED <<inputVars, pc, costVars, cursorVars>>

InitDone ==
  /\ pc = "dfs"
  /\ stack = <<>>
  /\ queue' = <<Entry>>
  /\ pc' = "take"
  /\ UNCHANGED <<inputVars, dagVars, cost, settled, max, cursorVars>>

-----------------------------------------------------------------------------
(* CostModel::getFunctionCost *)

TakeNode ==
  /\ pc = "take"
  /\ queue # <<>>
  /\ node' = Head(queue)
  /\ queue' = QueueAfterTake
  /\ settled' = settled \cup {Head(queue)}
  /\ IF Head(queue) = Exit
     THEN UNCHANGED <<pc, cost, ei>>
     ELSE /\ cost' = [cost EXCEPT ![Head(queue)] = @ + BlockCost(Head(queue))]
          /\ ei' = 1
          /\ pc' = "relax"
  /\ UNCHANGED <<inputVars, dagVars, max>>

RelaxEdge ==
  /\ pc = "relax"
  /\ ei <= Len(out[node])
  /\ LET child == out[node][ei]
     IN /\ cost' = [cost EXCEPT ![child] = Dearer(child)]
        /\ in_cnt' = [in_cnt EXCEPT ![child] = IF @ = 0 THEN 0 ELSE @ - 1]
        /\ queue' = IF Ready(child) THEN Append(queue, child) ELSE queue
  /\ ei' = ei + 1
  /\ UNCHANGED <<inputVars, pc, color, stack, out, node, settled, max>>

NodeDone ==
  /\ pc = "relax"
  /\ ei > Len(out[node])
  /\ pc' = "take"
  /\ UNCHANGED <<inputVars, dagVars, costVars, cursorVars>>

Return ==
  /\ pc = "take"
  /\ queue = <<>>
  /\ max' = cost[Exit]
  /\ pc' = "done"
  /\ UNCHANGED <<inputVars, dagVars, cost, queue, settled, cursorVars>>

-----------------------------------------------------------------------------
Finished == pc = "done" /\ UNCHANGED vars

Next ==
  \/ NoBody \/ StartInit
  \/ VisitBlock \/ LinkSuccessor \/ VisitDone \/ PopBlock \/ InitDone
  \/ TakeNode \/ RelaxEdge \/ NodeDone \/ Return
  \/ Finished

\* The program is sequential: it takes its next step.
Spec == Init /\ [][Next]_vars /\ WF_vars(Next)

-----------------------------------------------------------------------------
(* Properties *)

\* The shape of the state.
TypeOK ==
  /\ pc \in {"begin", "dfs", "edges", "take", "relax", "done"}
  /\ color \in [Blocks -> {"WHITE", "GRAY", "BLACK"}]
  /\ stack \in Seq(Blocks)
  /\ out \in [Nodes -> Seq(Nodes)]
  /\ in_cnt \in [Nodes -> Nat]
  /\ cost \in [Nodes -> Nat]
  /\ queue \in Seq(Nodes)
  /\ node \in Nodes \cup {Entry}
  /\ ei \in Nat \ {0}
  /\ settled \subseteq Nodes
  /\ max \in Nat

\* The gray blocks are the path the walk is on: each lies on the stack, every
\* block above its last occurrence was pushed by its visit or by a later one,
\* and consecutive gray blocks are joined by an edge of the function.  It is
\* what makes an edge to a gray block a back edge.
LastOn(b) == CHOOSE k \in DOMAIN stack : stack[k] = b /\ \A j \in (k + 1)..Len(stack) : stack[j] # b
GrayBlocks == {b \in Blocks : color[b] = "GRAY"}
GrayIsPath ==
  /\ GrayBlocks \subseteq ToSet(stack)
  /\ \A b, c \in GrayBlocks :
       /\ LastOn(b) < LastOn(c)
       /\ \A d \in GrayBlocks : ~(LastOn(b) < LastOn(d) /\ LastOn(d) < LastOn(c))
       => c \in ToSet(cfg[b])

\* The cost of a node is final when the node is taken: whatever order the edges
\* are relaxed in, no edge into a settled node still raises it, and no node is
\* taken again.
SettledFinal == [][\A n \in settled : cost'[n] = cost[n]]_vars

(***************************************************************************)
(* The reference: the paths of the graph that visit no block twice, their  *)
(* cost, and reducibility, in which every edge that closes a cycle leads   *)
(* to a block that dominates its source.                                   *)
(***************************************************************************)
SimplePaths ==
  {p \in SeqOf(Blocks, Len(cfg)) :
     /\ p # <<>> /\ p[1] = Entry
     /\ \A k \in 2..Len(p) : p[k] \in ToSet(cfg[p[k - 1]])
     /\ IsInjective(p)}

\* The cost of a path: of its instructions the model knows.
KnownCost(inst) == LET c == InstCost(inst) IN IF c = UnknownCost THEN 0 ELSE c
KnownCosts(b) == FoldLeft(LAMBDA sum, inst : sum + KnownCost(inst), 0, body[b])
CostsUpTo(p) == LET sum[n \in Nat] == IF n = 0 THEN 0 ELSE sum[n - 1] + KnownCosts(p[n]) IN sum
PathCost(p) == CostsUpTo(p)[Len(p)]
Dominates(b, c) == \A p \in SimplePaths : Last(p) = c => b \in ToSet(p)
Reducible == \A p \in SimplePaths : \A c \in ToSet(cfg[Last(p)]) \cap ToSet(p) : Dominates(c, Last(p))
Reachable == {Last(p) : p \in SimplePaths}

\* The result is the cost of the dearest way through the function that goes
\* round no loop.  When loops have several entries the walk decides which edges
\* are back edges, and the result may be less, but is still that of some path.
CostIsDearestPath ==
  pc = "done" /\ cfg # <<>> =>
    /\ \E p \in SimplePaths : max = PathCost(p)
    /\ Reducible => \A p \in SimplePaths : PathCost(p) <= max

\* Every block that can be reached is counted, and the exit last: no cycle was
\* left that would keep a node's in-count above zero.
AllSettled ==
  pc = "done" /\ cfg # <<>> =>
    /\ settled = Reachable \cup {Exit}
    /\ \A n \in Nodes : in_cnt[n] = 0

\* The walk finds back edges and nothing else: it goes along a path, and the
\* graph it leaves has no cycle.
WalkSound == GrayIsPath /\ AllSettled

\* The graph is cut at its back edges and nowhere else, and the cost found in
\* it is that of the dearest way (CFGDAG.cpp:50, CostModel.cpp:306).
CostExact == WalkSound /\ CostIsDearestPath

\* The cost of an instruction follows the width of its type through every table
\* and default: of arithmetic, comparisons and memory accesses the one on twice
\* as many elements is never cheaper, and an access costs one for every 128
\* bits, whichever features split it or pump it twice (X86CostModel.cpp:325).
Widenable(inst) ==
  /\ inst.op \in Arithmetic \cup Comparisons \cup MemoryOps
  /\ Vector(2 * inst.ty.n, inst.ty.el) \in DOMAIN Targets[target].convert
Widened(inst) == [inst EXCEPT !.ty = Vector(2 * @.n, @.el)]
WiderNeverCheaper(inst) ==
  Widenable(inst) => InstCost(inst) <= InstCost(Widened(inst))
PaidByWidth(inst) ==
  inst.op \in MemoryOps /\ IsVector(inst.ty) /\ Bits(inst.ty) % 128 = 0 =>
    InstCost(inst) = Bits(inst.ty) \div 128
CostFollowsWidth ==
  pc = "begin" => \A b \in Blocks : \A inst \in ToSet(body[b]) : WiderNeverCheaper(inst) /\ PaidByWidth(inst)

\* Construction and search end.
Terminates == <>(pc = "done")
=============================================================================
