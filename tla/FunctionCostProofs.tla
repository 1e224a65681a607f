------------------------- MODULE FunctionCostProofs -------------------------
(***************************************************************************)
(* Proofs about FunctionCost, for all control-flow graphs: the walk goes   *)
(* along a path, a cost is final when its node is taken, and the cost      *)
(* returned is exact.                                                      *)
(*                                                                         *)
(* The walk (WInv): the last places of the gray blocks on the stack are a  *)
(* simple path, so an edge that is cut closes a cycle; what a block of the *)
(* path leads to is finished or lies above it, so the finished blocks can  *)
(* be numbered with every edge leading to a lower number.                  *)
(*                                                                         *)
(* The search (SInv): an in-count is the number of in-edges not counted    *)
(* down, so a node is taken when its cost is the highest brought to it.    *)
(* At the end a node left out would wait for one of higher number; the     *)
(* path behind a cost is found from the entry down the numbers, and no     *)
(* path costs more unless it takes an edge that was cut, which the block   *)
(* it leads to would have to dominate.                                     *)
(***************************************************************************)
EXTENDS FunctionCost, FiniteSetTheorems, SequenceTheorems, WellFoundedInduction, TLAPS

-----------------------------------------------------------------------------
(***************************************************************************)
(* A nonempty set of naturals has a least element, from the library's      *)
(* well-foundedness of < on Nat.                                           *)
(***************************************************************************)
Less == {p \in Nat \X Nat : p[1] < p[2]}

LEMMA LeastNatural ==
  ASSUME NEW T, T \subseteq Nat, T # {}
  PROVE  \E m \in T : \A n \in T : m <= n
<1>1. IsWellFoundedOn(Less, Nat)
  <2>1. OpToRel(<, Nat) = Less
    BY Zenon DEF OpToRel, Less
  <2> QED
    BY <2>1, NatLessThanWellFounded, Zenon
<1>2. PICK m \in T : \A n \in T : ~(<<n, m>> \in Less)
  BY <1>1, WFMin
<1>3. ASSUME NEW n \in T PROVE m <= n
  <2>1. m \in Nat /\ n \in Nat /\ ~(<<n, m>> \in Less)
    BY <1>2
  <2> QED
    BY <2>1 DEF Less
<1> QED
  BY <1>3

InputInv == \E f \in Functions : target = f.target /\ cfg = f.cfg /\ body = f.body

Walking == pc \in {"begin", "dfs", "edges"}

\* Where the construction and the search are.
PhaseInv ==
  /\ pc = "begin" => stack = <<>> /\ color = [b \in Blocks |-> "WHITE"]
  /\ Walking => queue = <<>> /\ settled = {}
  /\ pc \in {"take", "relax", "done"} => stack = <<>>
  /\ pc = "done" => queue = <<>> /\ (cfg # <<>> => max = cost[Exit])
  /\ pc = "edges" => node \in Blocks /\ color[node] = "GRAY" /\ ei <= Len(cfg[node]) + 1
  /\ pc = "relax" => node \in Blocks /\ node \in settled /\ ei <= Len(out[node]) + 1
  /\ pc \in {"dfs", "edges", "take", "relax"} => cfg # <<>>

EdgesInv ==
  /\ out[Exit] = <<>>
  /\ \A b \in Blocks : color[b] = "WHITE" => out[b] = <<>>
  /\ \A n \in Nodes : \A k \in DOMAIN out[n] : out[n][k] # Entry

\* Position k holds a block of the path the walk is on.
OnPath(k) == color[stack[k]] = "GRAY" /\ \A j \in DOMAIN stack : j > k => stack[j] # stack[k]

PathInv ==
  /\ \A b \in GrayBlocks : \E k \in DOMAIN stack : stack[k] = b
  /\ \A k, j \in DOMAIN stack :
       /\ OnPath(k) /\ k < j
       /\ \A i \in DOMAIN stack : k < i /\ i < j => ~OnPath(i)
       => stack[j] \in ToSet(cfg[stack[k]])
  /\ pc = "edges" => \E k \in DOMAIN stack : /\ stack[k] = node /\ OnPath(k)
                                             /\ \A j \in DOMAIN stack : OnPath(j) => j <= k

Relaxed(m, k) == m \in settled /\ (pc = "relax" /\ m = node => k < ei)

\* The edges into n that were not counted down.
Waiting(n) == {p \in Nodes \X Nat : /\ p[2] \in DOMAIN out[p[1]] /\ out[p[1]][p[2]] = n
                                    /\ ~Relaxed(p[1], p[2])}

CountInv == \A n \in Nodes : IsFiniteSet(Waiting(n)) /\ in_cnt[n] = Cardinality(Waiting(n))

QueueInv ==
  /\ \A k \in DOMAIN queue : queue[k] \notin settled /\ in_cnt[queue[k]] = 0
  /\ \A j, k \in DOMAIN queue : queue[j] = queue[k] => j = k
  /\ \A n \in settled : in_cnt[n] = 0

IInv == TypeOK /\ InputInv /\ PhaseInv /\ EdgesInv /\ PathInv /\ CountInv /\ QueueInv

-----------------------------------------------------------------------------
(* What the walk leaves behind *)

\* The entry is at the bottom of the stack, and what lies above it was pushed
\* from the path.
StackInv ==
  /\ stack # <<>> => stack[1] = Entry
  /\ \A j \in DOMAIN stack : j > 1 => \E i \in DOMAIN stack : i < j /\ OnPath(i)
  /\ pc # "begin" /\ cfg # <<>> => stack # <<>> \/ color[Entry] = "BLACK"

OnPathUpTo(k) == {stack[i] : i \in {n \in DOMAIN stack : n <= k /\ OnPath(n)}}

\* The path is one of the function's simple paths, and so is its part up to any
\* place.
RouteInv ==
  \A k \in DOMAIN stack : OnPath(k) => \E p \in SimplePaths : Last(p) = stack[k] /\ ToSet(p) = OnPathUpTo(k)
ReachedInv == \A b \in Blocks : color[b] # "WHITE" => b \in Reachable

\* An edge from b to c closes a cycle of some way through the function.
ClosesCycle(b, c) == \E p \in SimplePaths : Last(p) = b /\ c \in ToSet(p)

\* The out-edges of a block are its successors in order, but for those that
\* close a cycle; a block that is finished has one.
OutInv ==
  /\ \A b \in Blocks : \A k \in DOMAIN out[b] :
       \/ k \in DOMAIN cfg[b] /\ out[b][k] = cfg[b][k]
       \/ /\ out[b][k] = Exit
          /\ k \in DOMAIN cfg[b] => ClosesCycle(b, cfg[b][k]) /\ color[cfg[b][k]] # "WHITE"
  /\ pc = "edges" => Len(out[node]) = ei - 1
  /\ \A b \in Blocks : color[b] # "WHITE" /\ ~(pc = "edges" /\ b = node) => DOMAIN cfg[b] \subseteq DOMAIN out[b]
  /\ \A b \in Blocks : color[b] = "BLACK" => out[b] # <<>>

\* What a block of the path leads to is finished, or still to be visited.
ChildInv ==
  \A k \in DOMAIN stack : OnPath(k) => \A e \in DOMAIN out[stack[k]] :
    LET c == out[stack[k]][e]
    IN  c = Exit \/ color[c] = "BLACK" \/ \E j \in DOMAIN stack : j > k /\ stack[j] = c

\* The finished blocks can be numbered so that every edge leads to a lower one.
Ranked(r, t) ==
  \A b \in Blocks : color[b] = "BLACK" =>
    /\ r[b] < t
    /\ \A k \in DOMAIN out[b] : out[b][k] # Exit => color[out[b][k]] = "BLACK" /\ r[out[b][k]] < r[b]
RankInv == \E r \in [Blocks -> Nat] : \E t \in Nat : Ranked(r, t)

HasEdge(n) == \E m \in Nodes : \E k \in DOMAIN out[m] : out[m][k] = n
EnteredInv ==
  /\ \A b \in Blocks : color[b] # "WHITE" /\ b # Entry => HasEdge(b)
  /\ \A k \in DOMAIN stack : stack[k] # Entry => HasEdge(stack[k])

WInv == StackInv /\ RouteInv /\ ReachedInv /\ OutInv /\ ChildInv /\ RankInv /\ EnteredInv

-----------------------------------------------------------------------------
(* What the search keeps *)

Searching == pc \in {"take", "relax", "done"} /\ cfg # <<>>

\* Every node with an in-edge and none left to wait for is in the queue or was
\* taken from it, and none that was not finished by the walk.
ServedInv ==
  Searching =>
    /\ Entry \in settled \cup ToSet(queue)
    /\ \A n \in Nodes : HasEdge(n) /\ in_cnt[n] = 0 => n \in settled \cup ToSet(queue)
    /\ \A n \in settled \cup ToSet(queue) : n = Exit \/ color[n] = "BLACK"

\* The nodes whose cost was brought to n.
BroughtTo(n) == {m \in settled : \E k \in DOMAIN out[m] : out[m][k] = n /\ Relaxed(m, k)}

\* The cost of a node is the highest that was brought to it; once it is taken
\* its own is added.
CostInv ==
  /\ Walking => \A n \in Nodes : cost[n] = 0
  /\ \A n \in Nodes : \E c \in Nat :
       /\ cost[n] = IF n \in settled \ {Exit} THEN c + BlockCost(n) ELSE c
       /\ \A m \in BroughtTo(n) : cost[m] <= c
       /\ (c = 0 /\ BroughtTo(n) = {}) \/ \E m \in BroughtTo(n) : c = cost[m]

SInv == ServedInv /\ CostInv

-----------------------------------------------------------------------------
(* The function walked *)

LEMMA InputFacts ==
  ASSUME InputInv
  PROVE  /\ cfg \in Seq(Seq(Nat)) /\ Blocks = 1..Len(cfg) /\ Len(cfg) \in Nat
         /\ Exit \notin Blocks /\ Exit # Entry /\ Exit \in Nodes /\ Nodes = Blocks \cup {Exit}
         /\ cfg # <<>> => Entry \in Blocks
         /\ \A b \in Blocks : cfg[b] \in Seq(Blocks) /\ Len(cfg[b]) \in Nat /\ DOMAIN cfg[b] = 1..Len(cfg[b])
         /\ \A b \in Blocks : \A k \in DOMAIN cfg[b] : cfg[b][k] \in Blocks /\ cfg[b][k] # Entry
         /\ \A b \in Blocks : BlockCost(b) \in Nat
<1>1. PICK f \in Functions : target = f.target /\ cfg = f.cfg /\ body = f.body
  BY DEF InputInv
<1>2. /\ cfg \in Seq(Seq(Nat))
      /\ \A b \in DOMAIN cfg : \A c \in ToSet(cfg[b]) : c \in DOMAIN cfg \ {Entry}
      /\ \A b \in DOMAIN cfg : getBasicBlockCost(Targets[target], body[b]) \in Nat
  BY <1>1, FunctionsAssumption, CostsAssumption
<1>3. Len(cfg) \in Nat /\ Blocks = 1..Len(cfg)
  BY <1>2, LenProperties DEF Blocks
<1>4. Exit \notin Blocks /\ Exit # Entry /\ Exit \in Nodes /\ Nodes = Blocks \cup {Exit}
  BY <1>3 DEF Exit, Entry, Nodes
<1>5. cfg # <<>> => Entry \in Blocks
  BY <1>2, <1>3, EmptySeq DEF Entry
<1>6. \A b \in Blocks : \A k \in DOMAIN cfg[b] : cfg[b][k] \in Blocks /\ cfg[b][k] # Entry
  BY <1>2 DEF ToSet, Blocks
<1>7. ASSUME NEW b \in Blocks
      PROVE  cfg[b] \in Seq(Blocks) /\ Len(cfg[b]) \in Nat /\ DOMAIN cfg[b] = 1..Len(cfg[b])
  <2>1. cfg[b] \in Seq(Nat)
    BY <1>2, <1>3, ElementOfSeq
  <2>2. Len(cfg[b]) \in Nat /\ DOMAIN cfg[b] = 1..Len(cfg[b]) /\ cfg[b] \in [1..Len(cfg[b]) -> Nat]
    BY <2>1, LenProperties
  <2>3. cfg[b] \in [1..Len(cfg[b]) -> Blocks]
    BY <2>2, <1>6
  <2> QED BY <2>2, <2>3, SeqDef
<1> QED BY <1>2, <1>3, <1>4, <1>5, <1>6, <1>7 DEF BlockCost, Blocks

-----------------------------------------------------------------------------
(* Sequences *)

LEMMA FrontOf ==
  ASSUME NEW T, NEW s \in Seq(T), s # <<>>
  PROVE  /\ Len(s) \in Nat \ {0} /\ DOMAIN s = 1..Len(s)
         /\ Last(s) = s[Len(s)] /\ Last(s) \in T
         /\ Front(s) \in Seq(T)
         /\ Len(Front(s)) = Len(s) - 1
         /\ DOMAIN Front(s) = 1..(Len(s) - 1)
         /\ \A n \in 1..(Len(s) - 1) : Front(s)[n] = s[n]
<1>1. Len(s) \in Nat \ {0}
  BY EmptySeq
<1>2. Last(s) = s[Len(s)] /\ Last(s) \in T
  BY <1>1, ElementOfSeq DEF Last
<1>3. /\ SubSeq(s, 1, Len(s) - 1) \in Seq(T)
      /\ Len(SubSeq(s, 1, Len(s) - 1)) = IF 1 <= Len(s) - 1 THEN Len(s) - 1 - 1 + 1 ELSE 0
      /\ \A n \in 1 .. Len(s) - 1 - 1 + 1 : SubSeq(s, 1, Len(s) - 1)[n] = s[1 + n - 1]
  <2>1. Len(s) - 1 \in Int /\ 1 \in Int
    BY <1>1
  <2>2. \A i \in 1..Len(s) - 1 : s[i] \in T
    BY <1>1, ElementOfSeq
  <2> QED
    BY <2>1, <2>2, SubSeqProperties
<1>4. Front(s) = SubSeq(s, 1, Len(s) - 1)
  BY DEF Front
<1>5. Front(s) \in Seq(T) /\ Len(Front(s)) = Len(s) - 1
  <2>1. Front(s) \in Seq(T) /\ Len(Front(s)) = IF 1 <= Len(s) - 1 THEN Len(s) - 1 - 1 + 1 ELSE 0
    BY <1>3, <1>4, Zenon
  <2>2. \A m \in Nat \ {0} : (IF 1 <= m - 1 THEN m - 1 - 1 + 1 ELSE 0) = m - 1
    OBVIOUS
  <2> QED
    BY <1>1, <2>1, <2>2, Zenon
<1>6. \A n \in 1..(Len(s) - 1) : Front(s)[n] = s[n]
  <2> TAKE n \in 1..(Len(s) - 1)
  <2>1. 1 + n - 1 = n /\ n \in 1..Len(s) - 1 - 1 + 1
    BY <1>1
  <2> QED
    BY <1>3, <1>4, <2>1
<1> QED
  BY <1>1, <1>2, <1>5, <1>6, LenProperties

LEMMA AppendOf ==
  ASSUME NEW T, NEW s \in Seq(T), NEW e \in T
  PROVE  /\ Len(s) \in Nat /\ DOMAIN s = 1..Len(s)
         /\ Append(s, e) \in Seq(T) /\ DOMAIN Append(s, e) = 1..(Len(s) + 1) /\ Len(Append(s, e)) = Len(s) + 1
         /\ \A n \in 1..Len(s) : Append(s, e)[n] = s[n]
         /\ Append(s, e)[Len(s) + 1] = e
<1>1. /\ Append(s, e) \in Seq(T) /\ Len(Append(s, e)) = Len(s) + 1
      /\ \A n \in 1..Len(s) : Append(s, e)[n] = s[n]
      /\ Append(s, e)[Len(s) + 1] = e
  BY AppendProperties
<1> QED BY <1>1, LenProperties

\* A visit pushes a white successor, and nothing for another one.
LEMMA PushedOn ==
  ASSUME NEW T, NEW s \in Seq(T), NEW c \in T
  PROVE  s \o Pushed(c) = IF color[c] = "WHITE" THEN Append(s, c) ELSE s
<1>1. CASE color[c] = "WHITE"
  <2>1. Pushed(c) = <<c>> /\ <<c>> \in Seq(T) /\ Len(<<c>>) = 1 /\ <<c>>[1] = c
    BY <1>1 DEF Pushed
  <2>2. /\ s \o <<c>> \in Seq(T)
        /\ Len(s \o <<c>>) = Len(s) + Len(<<c>>)
        /\ \A i \in 1 .. Len(s) + Len(<<c>>) :
             (s \o <<c>>)[i] = IF i <= Len(s) THEN s[i] ELSE <<c>>[i - Len(s)]
    BY <2>1, ConcatProperties
  <2>3. Append(s, c) \in Seq(T) /\ Len(Append(s, c)) = Len(s) + 1 /\ Len(s) \in Nat
        /\ \A i \in 1..Len(s) : Append(s, c)[i] = s[i]
        /\ Append(s, c)[Len(s) + 1] = c
    BY AppendOf
  <2>4. ASSUME NEW i \in 1..Len(s \o <<c>>) PROVE (s \o <<c>>)[i] = Append(s, c)[i]
    <3>1. CASE i <= Len(s)
      BY <3>1, <2>1, <2>2, <2>3
    <3>2. CASE i = Len(s) + 1
      BY <3>2, <2>1, <2>2, <2>3
    <3> QED BY <3>1, <3>2, <2>1, <2>2, <2>3
  <2>5. s \o <<c>> = Append(s, c)
    BY <2>1, <2>2, <2>3, <2>4, SeqEqual
  <2> QED BY <1>1, <2>1, <2>5
<1>2. CASE color[c] # "WHITE"
  BY <1>2, ConcatEmptySeq DEF Pushed
<1> QED BY <1>1, <1>2

-----------------------------------------------------------------------------
(* Types *)

LEMMA InputKept ==
  ASSUME InputInv, [Next]_vars
  PROVE  InputInv' /\ cfg' = cfg /\ body' = body /\ target' = target /\ Blocks' = Blocks /\ Nodes' = Nodes
<1>1. cfg' = cfg /\ body' = body /\ target' = target
  BY DEF Next, vars, inputVars, NoBody, StartInit, VisitBlock, LinkSuccessor, VisitDone, PopBlock, InitDone,
         TakeNode, RelaxEdge, NodeDone, Return, Finished
<1> QED BY <1>1 DEF InputInv, Blocks, Nodes

\* The successor looked at, and the node the edge to it leads to.
LEMMA LinkFacts ==
  ASSUME TypeOK, InputInv, PhaseInv, pc = "edges", ei <= Len(cfg[node])
  PROVE  /\ node \in Blocks /\ ei \in DOMAIN cfg[node]
         /\ cfg[node][ei] \in Blocks /\ cfg[node][ei] # Entry
         /\ EdgeTarget(cfg[node][ei]) \in Nodes /\ EdgeTarget(cfg[node][ei]) # Entry
<1>1. node \in Blocks /\ ei \in Nat \ {0}
  BY DEF PhaseInv, TypeOK
<1>2. ei \in DOMAIN cfg[node]
  BY <1>1, InputFacts
<1>3. cfg[node][ei] \in Blocks /\ cfg[node][ei] # Entry
  BY <1>1, <1>2, InputFacts
<1> QED BY <1>1, <1>2, <1>3, InputFacts DEF EdgeTarget

\* The block on top of the stack.
LEMMA TopFacts ==
  ASSUME TypeOK, stack # <<>>
  PROVE  /\ Len(stack) \in Nat \ {0} /\ DOMAIN stack = 1..Len(stack)
         /\ Top = stack[Len(stack)] /\ Top \in Blocks
         /\ Front(stack) \in Seq(Blocks) /\ DOMAIN Front(stack) = 1..(Len(stack) - 1)
         /\ Len(Front(stack)) = Len(stack) - 1
         /\ \A n \in 1..(Len(stack) - 1) : Front(stack)[n] = stack[n]
BY FrontOf DEF TypeOK, Top

\* The edge being relaxed.
LEMMA RelaxFacts ==
  ASSUME TypeOK, InputInv, PhaseInv, pc = "relax", ei <= Len(out[node])
  PROVE  /\ node \in Blocks /\ node \in Nodes /\ ei \in DOMAIN out[node] /\ out[node][ei] \in Nodes
         /\ out[node] \in Seq(Nodes) /\ Len(out[node]) \in Nat
<1>1. node \in Blocks /\ ei \in Nat \ {0} /\ node \in Nodes
  BY InputFacts DEF PhaseInv, TypeOK
<1>2. out[node] \in Seq(Nodes)
  BY <1>1 DEF TypeOK
<1> QED BY <1>1, <1>2, LenProperties, ElementOfSeq

\* The node taken.
LEMMA TakeFacts ==
  ASSUME TypeOK, queue # <<>>
  PROVE  /\ Head(queue) \in Nodes /\ Len(queue) \in Nat \ {0} /\ DOMAIN queue = 1..Len(queue)
         /\ Head(queue) = queue[1] /\ 1 \in DOMAIN queue
         /\ Tail(queue) \in Seq(Nodes) /\ DOMAIN Tail(queue) = 1..(Len(queue) - 1)
         /\ \A k \in DOMAIN Tail(queue) : k + 1 \in DOMAIN queue /\ Tail(queue)[k] = queue[k + 1]
<1>1. queue \in Seq(Nodes)
  BY DEF TypeOK
<1>2. /\ Head(queue) \in Nodes /\ Tail(queue) \in Seq(Nodes) /\ Len(Tail(queue)) = Len(queue) - 1
      /\ \A k \in 1..Len(Tail(queue)) : Tail(queue)[k] = queue[k + 1]
  BY <1>1, HeadTailProperties
<1>3. Len(queue) \in Nat \ {0} /\ DOMAIN queue = 1..Len(queue) /\ Head(queue) = queue[1]
  BY <1>1, EmptySeq, LenProperties
<1>4. DOMAIN Tail(queue) = 1..(Len(queue) - 1)
  BY <1>2, LenProperties
<1> QED BY <1>2, <1>3, <1>4

LEMMA TypesKept ==
  ASSUME TypeOK, InputInv, PhaseInv, [Next]_vars
  PROVE  TypeOK'
<1> USE DEF TypeOK
<1>0. /\ Blocks' = Blocks /\ Nodes' = Nodes
      /\ Exit \in Nodes /\ Blocks \subseteq Nodes
  BY InputKept, InputFacts
<1>1. CASE NoBody
  BY <1>0, <1>1 DEF NoBody, dagVars, costVars, cursorVars
<1>2. CASE StartInit
  <2>1. Entry \in Blocks
    BY <1>2, InputFacts DEF StartInit
  <2> QED BY <1>0, <1>2, <2>1 DEF StartInit, costVars, cursorVars
<1>3. CASE VisitBlock
  <2>1. Top \in Blocks
    BY <1>3, TopFacts DEF VisitBlock
  <2>2. color' \in [Blocks -> {"WHITE", "GRAY", "BLACK"}]
    BY <1>3, <2>1 DEF VisitBlock
  <2>3. node' \in Nodes /\ ei' \in Nat \ {0} /\ pc' = "edges"
    BY <1>0, <1>3, <2>1 DEF VisitBlock
  <2> QED BY <1>0, <1>3, <2>2, <2>3 DEF VisitBlock, costVars
<1>4. CASE LinkSuccessor
  <2> DEFINE child == cfg[node][ei]
             goal == EdgeTarget(child)
  <2>1. /\ node \in Blocks /\ node \in Nodes /\ child \in Blocks /\ goal \in Nodes
    BY <1>0, <1>4, LinkFacts DEF LinkSuccessor
  <2>2. /\ out' = [out EXCEPT ![node] = Append(@, goal)]
        /\ in_cnt' = [in_cnt EXCEPT ![goal] = @ + 1]
        /\ stack' = stack \o Pushed(child)
        /\ ei' = ei + 1 /\ pc' = pc /\ color' = color /\ node' = node
        /\ cost' = cost /\ queue' = queue /\ settled' = settled /\ max' = max
    BY <1>4 DEF LinkSuccessor, costVars
  <2>3. stack' \in Seq(Blocks)
    <3>1. stack \o Pushed(child) = IF color[child] = "WHITE" THEN Append(stack, child) ELSE stack
      BY <2>1, PushedOn
    <3>2. Append(stack, child) \in Seq(Blocks)
      BY <2>1, AppendOf
    <3> QED BY <2>2, <3>1, <3>2
  <2>4. out' \in [Nodes -> Seq(Nodes)]
    <3>1. Append(out[node], goal) \in Seq(Nodes)
      BY <2>1, AppendOf
    <3> QED BY <3>1, <2>1, <2>2
  <2>5. in_cnt' \in [Nodes -> Nat]
    BY <2>1, <2>2
  <2>6. ei' \in Nat \ {0}
    BY <2>2
  <2> HIDE DEF child, goal
  <2> QED BY <1>0, <2>2, <2>3, <2>4, <2>5, <2>6
<1>5. CASE VisitDone
  BY <1>0, <1>5 DEF VisitDone, dagVars, costVars, cursorVars
<1>6. CASE PopBlock
  <2>1. Top \in Blocks /\ Front(stack) \in Seq(Blocks)
    BY <1>6, TopFacts DEF PopBlock
  <2>2. color' \in [Blocks -> {"WHITE", "GRAY", "BLACK"}] /\ stack' \in Seq(Blocks)
    BY <1>6, <2>1 DEF PopBlock, PoppedColor
  <2>3. out' \in [Nodes -> Seq(Nodes)] /\ in_cnt' \in [Nodes -> Nat]
    <3>1. CASE EndsFunction(Top)
      <4>1. Append(out[Top], Exit) \in Seq(Nodes)
        BY <1>0, <2>1, AppendOf
      <4>2. /\ out' = [out EXCEPT ![Top] = Append(@, Exit)]
            /\ in_cnt' = [in_cnt EXCEPT ![Exit] = @ + 1]
        BY <1>6, <3>1 DEF PopBlock
      <4>3. Top \in Nodes
        BY <1>0, <2>1
      <4> HIDE DEF TypeOK
      <4>4. out \in [Nodes -> Seq(Nodes)] /\ in_cnt \in [Nodes -> Nat]
        BY DEF TypeOK
      <4>5. out' \in [Nodes -> Seq(Nodes)]
        BY <4>1, <4>2, <4>3, <4>4
      <4> QED BY <1>0, <4>2, <4>4, <4>5
    <3>2. CASE ~EndsFunction(Top)
      BY <1>6, <3>2 DEF PopBlock
    <3> QED BY <3>1, <3>2
  <2> QED BY <1>0, <1>6, <2>2, <2>3 DEF PopBlock, costVars, cursorVars
<1>7. CASE InitDone
  <2>1. <<Entry>> \in Seq(Nodes)
    <3>1. cfg # <<>>
      BY <1>7 DEF InitDone, PhaseInv
    <3> QED BY <3>1, <1>0, InputFacts
  <2> QED BY <1>0, <1>7, <2>1 DEF InitDone, dagVars, cursorVars
<1>8. CASE TakeNode
  <2>1. Head(queue) \in Nodes /\ Tail(queue) \in Seq(Nodes)
    BY <1>8, TakeFacts DEF TakeNode
  <2>2. cost' \in [Nodes -> Nat] /\ ei' \in Nat \ {0} /\ pc' \in {"take", "relax"}
    <3>1. CASE Head(queue) = Exit
      BY <1>8, <3>1 DEF TakeNode
    <3>2. CASE Head(queue) # Exit
      <4>1. Head(queue) \in Blocks /\ BlockCost(Head(queue)) \in Nat
        <5>1. Head(queue) \in Blocks
          BY <2>1, <3>2 DEF Nodes
        <5> QED BY <5>1, InputFacts
      <4>2. PICK h, d : h = Head(queue) /\ d = cost[h] + BlockCost(h)
        OBVIOUS
      <4>3. cost' = [cost EXCEPT ![h] = d] /\ ei' = 1 /\ pc' = "relax"
        BY <1>8, <3>2, <4>2 DEF TakeNode
      <4>4. cost \in [Nodes -> Nat] /\ h \in Nodes /\ BlockCost(h) \in Nat
        BY <2>1, <4>1, <4>2
      <4> HIDE DEF TypeOK
      <4>5. d \in Nat
        BY <4>2, <4>4
      <4> QED BY <4>3, <4>4, <4>5
    <3> QED BY <3>1, <3>2
  <2> QED BY <1>0, <1>8, <2>1, <2>2 DEF TakeNode, QueueAfterTake, dagVars
<1>9. CASE RelaxEdge
  <2> DEFINE child == out[node][ei]
  <2>1. child \in Nodes /\ node \in Nodes
    BY <1>9, RelaxFacts DEF RelaxEdge
  <2>2. cost' \in [Nodes -> Nat]
    BY <1>9, <2>1 DEF RelaxEdge, Dearer
  <2>3. in_cnt' \in [Nodes -> Nat]
    <3>1. in_cnt' = [in_cnt EXCEPT ![child] = IF @ = 0 THEN 0 ELSE @ - 1]
      BY <1>9 DEF RelaxEdge
    <3>2. in_cnt[child] \in Nat
      BY <2>1
    <3> DEFINE less == IF in_cnt[child] = 0 THEN 0 ELSE in_cnt[child] - 1
    <3>3. less \in Nat
      <4> HIDE DEF child, TypeOK
      <4> QED BY <3>2
    <3>4. in_cnt' = [in_cnt EXCEPT ![child] = less]
      BY <3>1
    <3> HIDE DEF less, child
    <3> QED BY <2>1, <3>3, <3>4
  <2>4. queue' \in Seq(Nodes)
    BY <1>9, <2>1, AppendOf DEF RelaxEdge
  <2>5. ei' \in Nat \ {0}
    BY <1>9 DEF RelaxEdge
  <2> HIDE DEF child
  <2> QED BY <1>0, <1>9, <2>2, <2>3, <2>4, <2>5 DEF RelaxEdge
<1>10. CASE NodeDone
  BY <1>0, <1>10 DEF NodeDone, dagVars, costVars, cursorVars
<1>11. CASE Return
  BY <1>0, <1>11 DEF Return, dagVars, cursorVars
<1>12. CASE Finished \/ UNCHANGED vars
  BY <1>0, <1>12 DEF Finished, vars, inputVars
<1> QED BY <1>1, <1>2, <1>3, <1>4, <1>5, <1>6, <1>7, <1>8, <1>9, <1>10, <1>11, <1>12 DEF Next

-----------------------------------------------------------------------------
(* Phases and edges *)

LEMMA PhaseKept ==
  ASSUME TypeOK, InputInv, PhaseInv, EdgesInv, [Next]_vars
  PROVE  PhaseInv'
<1> USE DEF PhaseInv
<1>0. Blocks' = Blocks /\ cfg' = cfg
  BY InputKept
<1>1. CASE NoBody
  BY <1>0, <1>1 DEF NoBody, dagVars, costVars, cursorVars, Walking
<1>2. CASE StartInit
  BY <1>0, <1>2 DEF StartInit, costVars, cursorVars, Walking
<1>3. CASE VisitBlock
  <2>1. Top \in Blocks /\ Len(cfg[Top]) \in Nat
    BY <1>3, TopFacts, InputFacts DEF VisitBlock
  <2>2. node' \in Blocks /\ color'[node'] = "GRAY" /\ ei' <= Len(cfg[node']) + 1
    BY <1>3, <2>1 DEF VisitBlock, TypeOK
  <2> QED BY <1>0, <1>3, <2>2 DEF VisitBlock, costVars, Walking
<1>4. CASE LinkSuccessor
  <2>1. ei \in Nat /\ node \in Blocks /\ Len(cfg[node]) \in Nat
    BY <1>4, InputFacts DEF LinkSuccessor, TypeOK
  <2>2. ei' <= Len(cfg[node]) + 1
    BY <1>4, <2>1 DEF LinkSuccessor
  <2> QED BY <1>0, <1>4, <2>2 DEF LinkSuccessor, costVars, Walking
<1>5. CASE VisitDone
  BY <1>0, <1>5 DEF VisitDone, dagVars, costVars, cursorVars, Walking
<1>6. CASE PopBlock
  BY <1>0, <1>6 DEF PopBlock, costVars, cursorVars, Walking
<1>7. CASE InitDone
  BY <1>0, <1>7 DEF InitDone, dagVars, cursorVars, Walking
<1>8. CASE TakeNode
  <2>1. CASE Head(queue) = Exit
    BY <1>0, <1>8, <2>1 DEF TakeNode, dagVars, Walking
  <2>2. CASE Head(queue) # Exit
    <3>1. Head(queue) \in Nodes
      BY <1>8, TakeFacts DEF TakeNode
    <3>2. Head(queue) \in Blocks
      BY <3>1, <2>2 DEF Nodes
    <3>3. out[Head(queue)] \in Seq(Nodes)
      BY <3>1 DEF TypeOK
    <3>4. Len(out[Head(queue)]) \in Nat
      BY <3>3, LenProperties
    <3> QED BY <1>0, <1>8, <2>2, <3>2, <3>4 DEF TakeNode, dagVars, Walking
  <2> QED BY <2>1, <2>2
<1>9. CASE RelaxEdge
  <2>1. ei \in Nat /\ Len(out[node]) \in Nat
    BY <1>9, RelaxFacts DEF RelaxEdge, TypeOK
  <2>2. ei' <= Len(out[node]) + 1
    BY <1>9, <2>1 DEF RelaxEdge
  <2> QED BY <1>0, <1>9, <2>2 DEF RelaxEdge, Walking
<1>10. CASE NodeDone
  BY <1>0, <1>10 DEF NodeDone, dagVars, costVars, cursorVars, Walking
<1>11. CASE Return
  BY <1>0, <1>11 DEF Return, dagVars, cursorVars, Walking
<1>12. CASE Finished \/ UNCHANGED vars
  BY <1>0, <1>12 DEF Finished, vars, inputVars, Walking
<1> QED BY <1>1, <1>2, <1>3, <1>4, <1>5, <1>6, <1>7, <1>8, <1>9, <1>10, <1>11, <1>12 DEF Next

\* An edge from n to c is added behind those there are.
EdgeAdded(n, c) ==
  /\ n \in Blocks /\ c \in Nodes /\ c # Entry /\ color[n] # "WHITE"
  /\ out' = [out EXCEPT ![n] = Append(@, c)]
  /\ in_cnt' = [in_cnt EXCEPT ![c] = @ + 1]

LEMMA LinkAddsEdge ==
  ASSUME TypeOK, InputInv, PhaseInv, LinkSuccessor
  PROVE  EdgeAdded(node, EdgeTarget(cfg[node][ei]))
<1>1. /\ node \in Blocks /\ EdgeTarget(cfg[node][ei]) \in Nodes /\ EdgeTarget(cfg[node][ei]) # Entry
  BY LinkFacts DEF LinkSuccessor
<1>2. color[node] # "WHITE"
  BY DEF LinkSuccessor, PhaseInv
<1> QED BY <1>1, <1>2 DEF LinkSuccessor, EdgeAdded

LEMMA PopAddsEdge ==
  ASSUME TypeOK, InputInv, PopBlock, EndsFunction(Top)
  PROVE  EdgeAdded(Top, Exit)
<1>1. Top \in Blocks
  BY TopFacts DEF PopBlock
<1>2. Exit \in Nodes /\ Exit # Entry
  BY InputFacts
<1> QED BY <1>1, <1>2 DEF PopBlock, EdgeAdded

LEMMA AddedFacts ==
  ASSUME TypeOK, InputInv, NEW b, NEW c, EdgeAdded(b, c)
  PROVE  /\ \A n \in Nodes : n # b => out'[n] = out[n]
         /\ Len(out[b]) \in Nat /\ DOMAIN out[b] = 1..Len(out[b])
         /\ DOMAIN out'[b] = 1..(Len(out[b]) + 1)
         /\ \A k \in 1..Len(out[b]) : out'[b][k] = out[b][k]
         /\ out'[b][Len(out[b]) + 1] = c
<1>1. b \in Nodes /\ c \in Nodes /\ out \in [Nodes -> Seq(Nodes)]
  BY DEF EdgeAdded, TypeOK, Nodes
<1>2. out'[b] = Append(out[b], c) /\ \A n \in Nodes : n # b => out'[n] = out[n]
  BY <1>1 DEF EdgeAdded
<1>3. out[b] \in Seq(Nodes)
  BY <1>1
<1> QED BY <1>1, <1>2, <1>3, AppendOf

LEMMA EdgesKept ==
  ASSUME TypeOK, InputInv, PhaseInv, EdgesInv, [Next]_vars
  PROVE  EdgesInv'
<1>0. /\ Blocks' = Blocks /\ Nodes' = Nodes /\ Exit \notin Blocks /\ Exit \in Nodes /\ Blocks \subseteq Nodes
  BY InputKept, InputFacts
<1>1. ASSUME NEW b, NEW c, EdgeAdded(b, c), \A n \in Blocks : color'[n] = "WHITE" => color[n] = "WHITE"
      PROVE  EdgesInv'
  <2>1. b \in Blocks /\ color[b] # "WHITE" /\ c # Entry
    BY <1>1 DEF EdgeAdded
  <2>2. out'[Exit] = <<>>
    BY <1>0, <1>1, <2>1, AddedFacts DEF EdgesInv
  <2>3. \A n \in Blocks : color'[n] = "WHITE" => out'[n] = <<>>
    BY <1>0, <1>1, <2>1, AddedFacts DEF EdgesInv
  <2>4. ASSUME NEW n \in Nodes, NEW k \in DOMAIN out'[n] PROVE out'[n][k] # Entry
    <3>1. CASE n # b
      BY <1>1, <3>1, AddedFacts DEF EdgesInv
    <3>2. CASE n = b /\ k <= Len(out[b])
      BY <1>1, <3>2, AddedFacts DEF EdgesInv
    <3>3. CASE n = b /\ k = Len(out[b]) + 1
      BY <1>1, <2>1, <3>3, AddedFacts
    <3>4. n = b => k \in 1..(Len(out[b]) + 1) /\ Len(out[b]) \in Nat
      BY <1>1, AddedFacts
    <3> QED BY <3>1, <3>2, <3>3, <3>4
  <2> QED BY <1>0, <2>2, <2>3, <2>4 DEF EdgesInv
<1>2. CASE LinkSuccessor
  BY <1>1, <1>2, LinkAddsEdge DEF LinkSuccessor
<1>3. CASE PopBlock
  <2>1. \A n \in Blocks : color'[n] = "WHITE" => color[n] = "WHITE"
    BY <1>3, TopFacts DEF PopBlock, PoppedColor, TypeOK
  <2>2. CASE EndsFunction(Top)
    BY <1>1, <1>3, <2>1, <2>2, PopAddsEdge
  <2>3. CASE ~EndsFunction(Top)
    BY <1>0, <1>3, <2>1, <2>3 DEF PopBlock, EdgesInv
  <2> QED BY <2>2, <2>3
<1>4. CASE VisitBlock
  <2>1. \A n \in Blocks : color'[n] = "WHITE" => color[n] = "WHITE"
    BY <1>4, TopFacts DEF VisitBlock, TypeOK
  <2> QED BY <1>0, <1>4, <2>1 DEF VisitBlock, EdgesInv
<1>5. CASE UNCHANGED <<color, out>>
  BY <1>0, <1>5 DEF EdgesInv
<1> QED BY <1>2, <1>3, <1>4, <1>5
        DEF Next, vars, dagVars, NoBody, StartInit, VisitDone, InitDone, TakeNode, RelaxEdge, NodeDone, Return, Finished

-----------------------------------------------------------------------------
(* Counts of in-edges, and the queue *)

\* What waits stays the same while no edge is added or counted down.
LEMMA WaitingSame ==
  ASSUME out' = out, Nodes' = Nodes,
         \A m \in Nodes : \A k \in DOMAIN out[m] : Relaxed(m, k)' <=> Relaxed(m, k)
  PROVE  \A n : Waiting(n)' = Waiting(n)
<1> SUFFICES ASSUME NEW n PROVE Waiting(n)' = Waiting(n)
  OBVIOUS
<1>1. ASSUME NEW q PROVE q \in Waiting(n)' <=> q \in Waiting(n)
  <2>1. /\ q \in Waiting(n) <=> /\ q \in Nodes \X Nat
                               /\ q[2] \in DOMAIN out[q[1]] /\ out[q[1]][q[2]] = n /\ ~Relaxed(q[1], q[2])
        /\ q \in Waiting(n)' <=> /\ q \in Nodes \X Nat
                                /\ q[2] \in DOMAIN out[q[1]] /\ out[q[1]][q[2]] = n /\ ~Relaxed(q[1], q[2])'
    BY DEF Waiting
  <2>2. q \in Nodes \X Nat => q[1] \in Nodes
    OBVIOUS
  <2>3. q \in Nodes \X Nat /\ q[2] \in DOMAIN out[q[1]] => (Relaxed(q[1], q[2])' <=> Relaxed(q[1], q[2]))
    BY <2>2
  <2> QED BY <2>1, <2>3
<1> QED BY <1>1

LEMMA WaitingMore ==
  ASSUME TypeOK, InputInv, NEW b, NEW c, EdgeAdded(b, c), Nodes' = Nodes, settled = {}, settled' = {}
  PROVE  /\ Waiting(c)' = Waiting(c) \cup {<<b, Len(out[b]) + 1>>}
         /\ <<b, Len(out[b]) + 1>> \notin Waiting(c)
         /\ \A n : n # c => Waiting(n)' = Waiting(n)
<1> DEFINE place == <<b, Len(out[b]) + 1>>
<1>1. b \in Nodes /\ Len(out[b]) + 1 \in Nat /\ Len(out[b]) + 1 \notin DOMAIN out[b]
  <2>1. b \in Nodes
    BY DEF EdgeAdded, Nodes
  <2>2. Len(out[b]) \in Nat /\ DOMAIN out[b] = 1..Len(out[b])
    BY AddedFacts
  <2> QED BY <2>1, <2>2
<1>2. ASSUME NEW n, NEW m \in Nodes, NEW k \in Nat
      PROVE  /\ <<m, k>> \in Waiting(n) <=> k \in DOMAIN out[m] /\ out[m][k] = n
             /\ <<m, k>> \in Waiting(n)' <=> k \in DOMAIN out'[m] /\ out'[m][k] = n
  BY DEF Waiting, Relaxed
<1>3. ASSUME NEW n, NEW m \in Nodes, NEW k \in Nat
      PROVE  <<m, k>> \in Waiting(n)' <=> <<m, k>> \in Waiting(n) \/ (n = c /\ m = b /\ k = Len(out[b]) + 1)
  <2>1. CASE m # b
    BY <1>2, <2>1, AddedFacts
  <2>2. CASE m = b /\ k \in 1..Len(out[b])
    <3>1. out'[m][k] = out[m][k] /\ k \in DOMAIN out[m] /\ k \in DOMAIN out'[m] /\ k # Len(out[b]) + 1
      BY <2>2, AddedFacts
    <3> QED BY <1>2, <3>1
  <2>3. CASE m = b /\ k = Len(out[b]) + 1
    <3>1. out'[m][k] = c /\ k \notin DOMAIN out[m] /\ k \in DOMAIN out'[m]
      BY <1>1, <2>3, AddedFacts
    <3> QED BY <1>2, <2>3, <3>1
  <2>4. CASE m = b /\ k \notin 1..(Len(out[b]) + 1)
    <3>1. k \notin DOMAIN out[m] /\ k \notin DOMAIN out'[m] /\ k # Len(out[b]) + 1
      BY <1>1, <2>4, AddedFacts
    <3> QED BY <1>2, <3>1
  <2>5. Len(out[b]) \in Nat
    BY AddedFacts
  <2> QED BY <2>1, <2>2, <2>3, <2>4, <2>5
<1>4. ASSUME NEW n PROVE Waiting(n) \subseteq Nodes \X Nat /\ Waiting(n)' \subseteq Nodes \X Nat
  BY DEF Waiting
<1>5. ASSUME NEW n, NEW q PROVE q \in Waiting(n)' <=> q \in Waiting(n) \/ (n = c /\ q = place)
  <2>1. CASE q \in Nodes \X Nat
    <3>1. PICK m \in Nodes, k \in Nat : q = <<m, k>>
      BY <2>1
    <3> QED BY <1>3, <3>1
  <2>2. CASE q \notin Nodes \X Nat
    <3>1. place \in Nodes \X Nat
      BY <1>1
    <3> QED BY <1>4, <2>2, <3>1
  <2> QED BY <2>1, <2>2
<1>6. place \notin Waiting(c)
  BY <1>1, <1>2
<1>7. Waiting(c)' = Waiting(c) \cup {place}
  BY <1>5
<1>8. ASSUME NEW n, n # c PROVE Waiting(n)' = Waiting(n)
  BY <1>5, <1>8
<1> QED BY <1>6, <1>7, <1>8

\* Counting down an edge.
LEMMA EdgeRelaxed ==
  ASSUME TypeOK, InputInv, PhaseInv, RelaxEdge, NEW m, NEW k \in Nat
  PROVE  Relaxed(m, k)' <=> Relaxed(m, k) \/ (m = node /\ k = ei)
<1>1. ei \in Nat /\ node \in settled /\ pc = "relax"
  BY DEF RelaxEdge, PhaseInv, TypeOK
<1>2. settled' = settled /\ pc' = "relax" /\ node' = node /\ ei' = ei + 1
  BY DEF RelaxEdge
<1>3. CASE m = node
  <2>1. Relaxed(m, k)' <=> k < ei + 1
    BY <1>1, <1>2, <1>3 DEF Relaxed
  <2>2. Relaxed(m, k) <=> k < ei
    BY <1>1, <1>3 DEF Relaxed
  <2>3. k < ei + 1 <=> k < ei \/ k = ei
    BY <1>1
  <2> QED BY <1>3, <2>1, <2>2, <2>3
<1>4. CASE m # node
  BY <1>2, <1>4 DEF Relaxed
<1> QED BY <1>3, <1>4

LEMMA WaitingLess ==
  ASSUME TypeOK, InputInv, PhaseInv, RelaxEdge, Nodes' = Nodes, NEW c, c = out[node][ei]
  PROVE  /\ Waiting(c)' = Waiting(c) \ {<<node, ei>>}
         /\ <<node, ei>> \in Waiting(c)
         /\ \A n : n # c => Waiting(n)' = Waiting(n)
<1>1. node \in Nodes /\ ei \in Nat /\ ei \in DOMAIN out[node] /\ node \in settled /\ pc = "relax"
  BY RelaxFacts DEF RelaxEdge, PhaseInv, TypeOK
<1>2. out' = out /\ settled' = settled /\ pc' = "relax" /\ node' = node /\ ei' = ei + 1
  BY DEF RelaxEdge
<1>3. ASSUME NEW m \in Nodes, NEW k \in Nat
      PROVE  Relaxed(m, k)' <=> Relaxed(m, k) \/ (m = node /\ k = ei)
  BY EdgeRelaxed
<1>4. ASSUME NEW n, NEW m \in Nodes, NEW k \in Nat
      PROVE  /\ <<m, k>> \in Waiting(n) <=> k \in DOMAIN out[m] /\ out[m][k] = n /\ ~Relaxed(m, k)
             /\ <<m, k>> \in Waiting(n)' <=> k \in DOMAIN out[m] /\ out[m][k] = n /\ ~Relaxed(m, k)'
  BY <1>2 DEF Waiting
<1>5. <<node, ei>> \in Waiting(c)
  <2>1. ~Relaxed(node, ei)
    BY <1>1 DEF Relaxed
  <2> QED BY <1>1, <1>4, <2>1
<1>6. ASSUME NEW n, NEW m \in Nodes, NEW k \in Nat
      PROVE  <<m, k>> \in Waiting(n)' <=> <<m, k>> \in Waiting(n) /\ ~(n = c /\ m = node /\ k = ei)
  <2>1. m = node /\ k = ei /\ out[m][k] = n => n = c
    OBVIOUS
  <2> QED BY <1>3, <1>4, <2>1
<1>7. ASSUME NEW n PROVE Waiting(n) \subseteq Nodes \X Nat /\ Waiting(n)' \subseteq Nodes \X Nat
  BY DEF Waiting
<1>8. ASSUME NEW n, NEW q PROVE q \in Waiting(n)' <=> q \in Waiting(n) /\ ~(n = c /\ q = <<node, ei>>)
  <2>1. CASE q \in Nodes \X Nat
    <3>1. PICK m \in Nodes, k \in Nat : q = <<m, k>>
      BY <2>1
    <3> QED BY <1>6, <3>1
  <2>2. CASE q \notin Nodes \X Nat
    BY <1>7, <2>2
  <2> QED BY <2>1, <2>2
<1>9. Waiting(c)' = Waiting(c) \ {<<node, ei>>}
  BY <1>8
<1>10. ASSUME NEW n, n # c PROVE Waiting(n)' = Waiting(n)
  BY <1>8, <1>10
<1> QED BY <1>5, <1>9, <1>10

\* A node with an edge still to be counted down has a positive count.
LEMMA CountFacts ==
  ASSUME InputInv, TypeOK, PhaseInv, EdgesInv, CountInv
  PROVE  /\ \A n \in Nodes : Waiting(n) # {} => in_cnt[n] \in Nat \ {0}
         /\ \A n \in Nodes : in_cnt[n] # 0 => Waiting(n) # {}
         /\ cfg # <<>> => in_cnt[Entry] = 0
<1>1. ASSUME NEW n \in Nodes
      PROVE  /\ Waiting(n) # {} => in_cnt[n] \in Nat \ {0}
             /\ in_cnt[n] # 0 => Waiting(n) # {}
  BY FS_EmptySet, FS_CardinalityType DEF CountInv
<1>2. Waiting(Entry) = {}
  BY DEF EdgesInv, Waiting
<1>3. cfg # <<>> => Entry \in Nodes
  BY InputFacts
<1> QED BY <1>1, <1>2, <1>3

\* No other step counts an edge down.
LEMMA RelaxedKept ==
  ASSUME IInv, [Next]_vars, ~RelaxEdge, NEW m \in Nodes, NEW k \in DOMAIN out[m]
  PROVE  Relaxed(m, k)' <=> Relaxed(m, k)
<1> USE DEF IInv
<1>0. Exit \in Nodes /\ Nodes = Blocks \cup {Exit}
  BY InputFacts
<1>1. CASE TakeNode
  <2> DEFINE h == Head(queue)
  <2>1. h \in Nodes /\ h \notin settled
    BY <1>1, TakeFacts DEF TakeNode, QueueInv
  <2>2. pc = "take" /\ settled' = settled \cup {h} /\ node' = h
    BY <1>1 DEF TakeNode
  <2>3. out[m] \in Seq(Nodes)
    BY DEF TypeOK
  <2>4. k \in Nat \ {0}
    BY <2>3, LenProperties
  <2>5. CASE m # h
    <3>1. Relaxed(m, k)' <=> m \in settled
      BY <2>2, <2>5 DEF Relaxed
    <3>2. Relaxed(m, k) <=> m \in settled
      BY <2>2 DEF Relaxed
    <3> QED BY <3>1, <3>2
  <2>6. CASE m = h /\ h # Exit
    <3>1. pc' = "relax" /\ ei' = 1
      BY <1>1, <2>6 DEF TakeNode
    <3>2. ~(k < 1)
      BY <2>4
    <3>3. ~Relaxed(m, k)'
      BY <2>2, <2>6, <3>1, <3>2 DEF Relaxed
    <3>4. ~Relaxed(m, k)
      BY <2>1, <2>6 DEF Relaxed
    <3> QED BY <3>3, <3>4
  <2>7. CASE m = h /\ h = Exit
    BY <2>7 DEF EdgesInv
  <2> QED BY <2>5, <2>6, <2>7
<1>2. CASE NodeDone
  <2>1. /\ settled' = settled /\ pc = "relax" /\ pc' = "take" /\ node' = node
        /\ ei > Len(out[node]) /\ node \in settled /\ node \in Nodes
    BY <1>0, <1>2 DEF NodeDone, costVars, cursorVars, PhaseInv
  <2>2. CASE m = node
    <3>1. out[m] \in Seq(Nodes)
      BY DEF TypeOK
    <3>2. k \in 1..Len(out[m]) /\ Len(out[m]) \in Nat /\ ei \in Nat
      BY <3>1, LenProperties DEF TypeOK
    <3>3. k < ei
      BY <2>1, <2>2, <3>2
    <3> QED BY <2>1, <2>2, <3>3 DEF Relaxed
  <2>3. CASE m # node
    BY <2>1, <2>3 DEF Relaxed
  <2> QED BY <2>2, <2>3
<1>3. CASE settled' = settled /\ pc # "relax" /\ pc' # "relax"
  BY <1>3 DEF Relaxed
<1>4. CASE UNCHANGED vars
  BY <1>4 DEF Relaxed, vars
<1> QED BY <1>1, <1>2, <1>3, <1>4
        DEF Next, dagVars, costVars, NoBody, StartInit, VisitBlock, LinkSuccessor, VisitDone, PopBlock, InitDone, Return,
            Finished

LEMMA CountKept ==
  ASSUME IInv, [Next]_vars
  PROVE  CountInv'
<1> USE DEF IInv
<1>0. /\ Blocks' = Blocks /\ Nodes' = Nodes /\ Exit \notin Blocks /\ Exit \in Nodes /\ Nodes = Blocks \cup {Exit}
  BY InputKept, InputFacts
<1>1. ASSUME NEW b, NEW c, EdgeAdded(b, c), settled = {}, settled' = {}
      PROVE  CountInv'
  <2>1. c \in Nodes /\ in_cnt' = [in_cnt EXCEPT ![c] = @ + 1] /\ in_cnt \in [Nodes -> Nat]
    BY <1>1 DEF EdgeAdded, TypeOK
  <2>2. IsFiniteSet(Waiting(c)') /\ in_cnt'[c] = Cardinality(Waiting(c)')
    <3> DEFINE place == <<b, Len(out[b]) + 1>>
    <3>1. Waiting(c)' = Waiting(c) \cup {place} /\ place \notin Waiting(c)
      BY <1>0, <1>1, WaitingMore
    <3>2. IsFiniteSet(Waiting(c)) /\ in_cnt[c] = Cardinality(Waiting(c))
      BY <2>1 DEF CountInv
    <3> HIDE DEF place
    <3>3. IsFiniteSet(Waiting(c) \cup {place}) /\ Cardinality(Waiting(c) \cup {place}) = Cardinality(Waiting(c)) + 1
      BY <3>1, <3>2, FS_AddElement
    <3> QED BY <2>1, <3>1, <3>2, <3>3
  <2>3. ASSUME NEW n \in Nodes, n # c PROVE IsFiniteSet(Waiting(n)') /\ in_cnt'[n] = Cardinality(Waiting(n)')
    <3>1. Waiting(n)' = Waiting(n)
      BY <1>0, <1>1, <2>3, WaitingMore
    <3>2. in_cnt'[n] = in_cnt[n]
      BY <2>1, <2>3
    <3> QED BY <3>1, <3>2 DEF CountInv
  <2>4. \A n \in Nodes : IsFiniteSet(Waiting(n)') /\ in_cnt'[n] = Cardinality(Waiting(n)')
    BY <2>2, <2>3
  <2> QED BY <1>0, <2>4 DEF CountInv
<1>2. ASSUME out' = out, in_cnt' = in_cnt, ~RelaxEdge
      PROVE  CountInv'
  <2>1. \A n : Waiting(n)' = Waiting(n)
    BY <1>0, <1>2, RelaxedKept, WaitingSame
  <2>2. \A n \in Nodes : IsFiniteSet(Waiting(n)') /\ in_cnt'[n] = Cardinality(Waiting(n)')
    BY <1>2, <2>1 DEF CountInv
  <2> QED BY <1>0, <2>2 DEF CountInv
<1>3. CASE LinkSuccessor
  BY <1>1, <1>3, LinkAddsEdge DEF LinkSuccessor, PhaseInv, Walking, costVars
<1>4. CASE PopBlock
  <2>1. settled = {} /\ settled' = {}
    BY <1>4 DEF PopBlock, PhaseInv, Walking, costVars
  <2>2. CASE EndsFunction(Top)
    BY <1>1, <1>4, <2>1, <2>2, PopAddsEdge
  <2>3. CASE ~EndsFunction(Top)
    BY <1>2, <1>4, <2>3 DEF PopBlock, RelaxEdge
  <2> QED BY <2>2, <2>3
<1>5. CASE RelaxEdge
  <2>1. PICK c : c = out[node][ei]
    OBVIOUS
  <2>2. c \in Nodes
    BY <1>5, <2>1, RelaxFacts DEF RelaxEdge
  <2>3. /\ Waiting(c)' = Waiting(c) \ {<<node, ei>>}
        /\ <<node, ei>> \in Waiting(c)
        /\ \A n : n # c => Waiting(n)' = Waiting(n)
    BY <1>0, <1>5, <2>1, WaitingLess
  <2>4. in_cnt' = [in_cnt EXCEPT ![c] = IF @ = 0 THEN 0 ELSE @ - 1] /\ in_cnt \in [Nodes -> Nat]
    BY <1>5, <2>1 DEF RelaxEdge, TypeOK
  <2>5. IsFiniteSet(Waiting(c)') /\ in_cnt'[c] = Cardinality(Waiting(c)')
    <3>1. IsFiniteSet(Waiting(c)) /\ in_cnt[c] = Cardinality(Waiting(c))
      BY <2>2 DEF CountInv
    <3> DEFINE place == <<node, ei>>
    <3>2. place \in Waiting(c) /\ Waiting(c)' = Waiting(c) \ {place}
      BY <2>3
    <3> HIDE DEF place
    <3>3. IsFiniteSet(Waiting(c) \ {place}) /\ Cardinality(Waiting(c) \ {place}) = Cardinality(Waiting(c)) - 1
      BY <3>1, <3>2, FS_RemoveElement
    <3>4. in_cnt[c] # 0
      BY <2>2, <3>2, CountFacts
    <3>5. in_cnt'[c] = in_cnt[c] - 1
      BY <2>2, <2>4, <3>4
    <3> QED BY <3>1, <3>2, <3>3, <3>5
  <2>6. ASSUME NEW n \in Nodes, n # c PROVE IsFiniteSet(Waiting(n)') /\ in_cnt'[n] = Cardinality(Waiting(n)')
    BY <2>3, <2>4, <2>6 DEF CountInv
  <2>7. \A n \in Nodes : IsFiniteSet(Waiting(n)') /\ in_cnt'[n] = Cardinality(Waiting(n)')
    BY <2>5, <2>6
  <2> QED BY <1>0, <2>7 DEF CountInv
<1>6. CASE UNCHANGED <<out, in_cnt>> /\ ~RelaxEdge
  BY <1>2, <1>6
<1> QED BY <1>3, <1>4, <1>5, <1>6
        DEF Next, vars, dagVars, NoBody, StartInit, VisitBlock, VisitDone, InitDone, TakeNode, NodeDone, Return, Finished

LEMMA QueueKept ==
  ASSUME IInv, [Next]_vars
  PROVE  QueueInv'
<1> USE DEF IInv
<1>1. CASE UNCHANGED <<queue, settled, in_cnt>>
  BY <1>1 DEF QueueInv
<1>2. CASE LinkSuccessor \/ PopBlock
  BY <1>2 DEF LinkSuccessor, PopBlock, costVars, PhaseInv, Walking, QueueInv
<1>3. CASE InitDone
  <2>1. queue' = <<Entry>> /\ settled' = {} /\ in_cnt' = in_cnt /\ in_cnt[Entry] = 0
    BY <1>3, CountFacts DEF InitDone, PhaseInv, Walking, dagVars
  <2>2. DOMAIN queue' = {1} /\ queue'[1] = Entry
    BY <2>1
  <2> QED BY <2>1, <2>2 DEF QueueInv
<1>4. CASE TakeNode
  <2>1. queue' = Tail(queue) /\ settled' = settled \cup {Head(queue)} /\ in_cnt' = in_cnt
    BY <1>4 DEF TakeNode, QueueAfterTake, dagVars
  <2>2. /\ Head(queue) = queue[1] /\ 1 \in DOMAIN queue /\ DOMAIN queue = 1..Len(queue) /\ Len(queue) \in Nat
        /\ DOMAIN Tail(queue) = 1..(Len(queue) - 1)
        /\ \A k \in DOMAIN Tail(queue) : k + 1 \in DOMAIN queue /\ Tail(queue)[k] = queue[k + 1]
    BY <1>4, TakeFacts DEF TakeNode
  <2>3. \A k \in DOMAIN Tail(queue) : k \in Nat \ {0} /\ k + 1 # 1
    BY <2>2
  <2>4. \A n \in settled' : in_cnt'[n] = 0
    BY <2>1, <2>2 DEF QueueInv
  <2>5. ASSUME NEW k \in DOMAIN queue' PROVE queue'[k] \notin settled' /\ in_cnt'[queue'[k]] = 0
    BY <2>1, <2>2, <2>3 DEF QueueInv
  <2>6. ASSUME NEW j \in DOMAIN queue', NEW k \in DOMAIN queue', queue'[j] = queue'[k] PROVE j = k
    <3>1. j + 1 = k + 1
      BY <2>1, <2>2, <2>6 DEF QueueInv
    <3> QED BY <2>1, <2>3, <3>1
  <2> QED BY <2>4, <2>5, <2>6 DEF QueueInv
<1>5. CASE RelaxEdge
  <2>1. PICK c : c = out[node][ei]
    OBVIOUS
  <2>2. c \in Nodes
    BY <1>5, <2>1, RelaxFacts DEF RelaxEdge
  <2>3. in_cnt[c] \in Nat \ {0}
    <3>1. <<node, ei>> \in Waiting(c)
      BY <1>5, <2>1, WaitingLess, InputKept
    <3> QED BY <2>2, <3>1, CountFacts
  <2>4. /\ settled' = settled /\ in_cnt' = [in_cnt EXCEPT ![c] = IF @ = 0 THEN 0 ELSE @ - 1]
        /\ queue' = IF Ready(c) THEN Append(queue, c) ELSE queue
        /\ in_cnt \in [Nodes -> Nat] /\ queue \in Seq(Nodes)
    BY <1>5, <2>1 DEF RelaxEdge, TypeOK
  <2>5. c \notin settled /\ \A k \in DOMAIN queue : queue[k] # c
    BY <2>3 DEF QueueInv
  <2>6. \A n \in Nodes : n # c => in_cnt'[n] = in_cnt[n]
    BY <2>4
  <2>7. \A n \in settled' : in_cnt'[n] = 0
    BY <2>4, <2>5, <2>6 DEF QueueInv, TypeOK
  <2>8. \A k \in DOMAIN queue : queue[k] \in Nodes
    BY <2>4, ElementOfSeq, LenProperties
  <2>9. CASE ~Ready(c)
    BY <2>4, <2>5, <2>6, <2>7, <2>8, <2>9 DEF QueueInv
  <2>10. CASE Ready(c)
    <3>1. in_cnt'[c] = 0
      <4>1. in_cnt[c] = 1
        BY <2>3, <2>10 DEF Ready
      <4> QED BY <2>2, <2>4, <4>1
    <3>2. /\ Len(queue) \in Nat /\ DOMAIN queue = 1..Len(queue) /\ DOMAIN queue' = 1..(Len(queue) + 1)
          /\ \A n \in 1..Len(queue) : queue'[n] = queue[n]
          /\ queue'[Len(queue) + 1] = c
      BY <2>2, <2>4, <2>10, AppendOf
    <3>3. \A k \in DOMAIN queue' : k \in DOMAIN queue \/ k = Len(queue) + 1
      BY <3>2
    <3>4. ASSUME NEW k \in DOMAIN queue' PROVE queue'[k] \notin settled' /\ in_cnt'[queue'[k]] = 0
      BY <2>4, <2>5, <2>6, <2>8, <3>1, <3>2, <3>3 DEF QueueInv
    <3>5. ASSUME NEW j \in DOMAIN queue', NEW k \in DOMAIN queue', queue'[j] = queue'[k] PROVE j = k
      BY <2>5, <3>2, <3>3, <3>5 DEF QueueInv
    <3> QED BY <2>7, <3>4, <3>5 DEF QueueInv
  <2> QED BY <2>9, <2>10
<1> QED BY <1>1, <1>2, <1>3, <1>4, <1>5
        DEF Next, vars, dagVars, costVars, NoBody, StartInit, VisitBlock, VisitDone, NodeDone, Return, Finished

-----------------------------------------------------------------------------
(* The path of the walk *)

\* The path is told from the stack and the colors alone.
LEMMA PathSame ==
  ASSUME PathInv, UNCHANGED <<cfg, color, stack>>, pc' # "edges"
  PROVE  PathInv'
BY DEF PathInv, OnPath, GrayBlocks, Blocks

\* The places of the path, when the places up to K stay as they were.
LEMMA PathShrinks ==
  ASSUME PathInv, cfg' = cfg, NEW K \in Nat,
         DOMAIN stack' = 1..K, 1..K \subseteq DOMAIN stack, DOMAIN stack \subseteq Nat,
         \A k \in 1..K : stack'[k] = stack[k],
         \A k \in 1..K : OnPath(k)' <=> OnPath(k) \/ (k = K /\ OnPath(K)')
  PROVE  \A k, j \in DOMAIN stack' :
           /\ OnPath(k)' /\ k < j
           /\ \A i \in DOMAIN stack' : k < i /\ i < j => ~OnPath(i)'
           => stack'[j] \in ToSet(cfg'[stack'[k]])
<1> SUFFICES ASSUME NEW k \in 1..K, NEW j \in 1..K, OnPath(k)', k < j,
                    \A i \in 1..K : k < i /\ i < j => ~OnPath(i)'
             PROVE  stack[j] \in ToSet(cfg[stack[k]])
  OBVIOUS
<1>1. k # K
  OBVIOUS
<1>2. OnPath(k)
  BY <1>1
<1>3. \A i \in DOMAIN stack : k < i /\ i < j => i \in 1..K
  OBVIOUS
<1>4. \A i \in DOMAIN stack : k < i /\ i < j => ~OnPath(i)
  BY <1>3
<1> QED BY <1>2, <1>4 DEF PathInv

\* Visiting the block on top makes its place one of the path, and leaves the others.
LEMMA VisitPlaces ==
  ASSUME TypeOK, VisitBlock, NEW L, L = Len(stack)
  PROVE  /\ L \in Nat \ {0} /\ DOMAIN stack = 1..L /\ stack' = stack
         /\ Top \in Blocks /\ stack[L] = Top /\ node' = Top /\ color[Top] = "WHITE" /\ color'[Top] = "GRAY"
         /\ \A b \in Blocks : b # Top => color'[b] = color[b]
         /\ OnPath(L)'
         /\ \A k \in 1..L : OnPath(k)' <=> OnPath(k) \/ k = L
<1>0. color \in [Blocks -> {"WHITE", "GRAY", "BLACK"}]
  BY DEF TypeOK
<1>1. /\ L \in Nat \ {0} /\ DOMAIN stack = 1..L /\ stack[L] = Top /\ Top \in Blocks
      /\ \A k \in 1..L : stack[k] \in Blocks
  BY TopFacts, ElementOfSeq DEF VisitBlock, TypeOK
<1>2. /\ stack' = stack /\ color[Top] = "WHITE" /\ color' = [color EXCEPT ![Top] = "GRAY"] /\ node' = Top
  BY DEF VisitBlock
<1>3. color'[Top] = "GRAY" /\ \A b \in Blocks : b # Top => color'[b] = color[b]
  BY <1>0, <1>1, <1>2
<1>4. OnPath(L)'
  BY <1>1, <1>2, <1>3 DEF OnPath
<1>5. ASSUME NEW k \in 1..L PROVE OnPath(k)' <=> OnPath(k) \/ k = L
  <2>1. CASE k = L
    BY <1>4, <2>1
  <2>2. CASE k # L
    <3>1. k < L /\ L \in DOMAIN stack
      BY <1>1, <2>2
    <3>2. CASE stack[k] = Top
      <4>1. ~OnPath(k)
        BY <1>2, <3>2 DEF OnPath
      <4>2. ~OnPath(k)'
        BY <1>1, <1>2, <3>1, <3>2 DEF OnPath
      <4> QED BY <2>2, <4>1, <4>2
    <3>3. CASE stack[k] # Top
      BY <1>1, <1>2, <1>3, <2>2, <3>3 DEF OnPath
    <3> QED BY <3>2, <3>3
  <2> QED BY <2>1, <2>2
<1> QED BY <1>1, <1>2, <1>3, <1>4, <1>5

\* A push leaves the path as it is: what is pushed is white.
LEMMA LinkPlaces ==
  ASSUME TypeOK, InputInv, PhaseInv, LinkSuccessor, NEW L, L = Len(stack), NEW c, c = cfg[node][ei]
  PROVE  /\ L \in Nat /\ DOMAIN stack = 1..L /\ color' = color /\ node' = node
         /\ c \in Blocks /\ c \in ToSet(cfg[node]) /\ c # Entry
         /\ \A k \in 1..L : k \in DOMAIN stack' /\ stack'[k] = stack[k] /\ (OnPath(k)' <=> OnPath(k))
         /\ \A k \in DOMAIN stack' :
              k \in 1..L \/ (k = L + 1 /\ stack'[k] = c /\ color[c] = "WHITE" /\ ~OnPath(k)')
         /\ color[c] = "WHITE" => L + 1 \in DOMAIN stack' /\ stack'[L + 1] = c
<1>0. stack \in Seq(Blocks)
  BY DEF TypeOK
<1>1. L \in Nat /\ DOMAIN stack = 1..L
  BY <1>0, LenProperties
<1>2. c \in Blocks /\ c \in ToSet(cfg[node]) /\ c # Entry
  BY LinkFacts DEF LinkSuccessor, ToSet
<1>3. stack' = IF color[c] = "WHITE" THEN Append(stack, c) ELSE stack
  BY <1>0, <1>2, PushedOn DEF LinkSuccessor
<1>4. color' = color /\ node' = node
  BY DEF LinkSuccessor
<1>5. CASE color[c] # "WHITE"
  <2>1. \A k \in 1..L : OnPath(k)' <=> OnPath(k)
    BY <1>3, <1>4, <1>5 DEF OnPath
  <2> QED BY <1>1, <1>2, <1>3, <1>4, <1>5, <2>1
<1>6. CASE color[c] = "WHITE"
  <2>1. DOMAIN stack' = 1..(L + 1) /\ stack'[L + 1] = c /\ \A k \in 1..L : stack'[k] = stack[k]
    BY <1>0, <1>2, <1>3, <1>6, AppendOf
  <2>2. \A k \in 1..(L + 1) : k \in 1..L \/ k = L + 1
    BY <1>1
  <2>3. \A k \in 1..L : k \in 1..(L + 1) /\ L + 1 > k /\ k # L + 1
    BY <1>1
  <2>4. ~OnPath(L + 1)'
    <3>1. stack'[L + 1] = c /\ color'[c] # "GRAY"
      BY <1>4, <1>6, <2>1
    <3> QED BY <3>1 DEF OnPath
  <2>5. ASSUME NEW k \in 1..L PROVE OnPath(k)' <=> OnPath(k)
    <3>1. CASE color[stack[k]] = "GRAY"
      <4>1. stack[k] # c
        BY <1>6, <3>1
      <4>2. (\A j \in 1..(L + 1) : j > k => stack'[j] # stack'[k]) <=> (\A j \in 1..L : j > k => stack[j] # stack[k])
        BY <2>1, <2>2, <2>3, <4>1
      <4> QED BY <1>1, <1>4, <2>1, <4>2 DEF OnPath
    <3>2. CASE color[stack[k]] # "GRAY"
      BY <1>4, <2>1, <3>2 DEF OnPath
    <3> QED BY <3>1, <3>2
  <2>6. L + 1 \in 1..(L + 1)
    BY <1>1
  <2> QED BY <1>1, <1>2, <1>4, <1>6, <2>1, <2>2, <2>3, <2>4, <2>5, <2>6
<1> QED BY <1>5, <1>6

\* A pop takes the place on top from the path, and leaves the others.
LEMMA PopPlaces ==
  ASSUME TypeOK, PopBlock, NEW L, L = Len(stack)
  PROVE  /\ L \in Nat \ {0} /\ DOMAIN stack = 1..L /\ DOMAIN stack' = 1..(L - 1)
         /\ Top \in Blocks /\ stack[L] = Top /\ color[Top] # "WHITE" /\ color'[Top] = "BLACK"
         /\ \A b \in Blocks : b # Top => color'[b] = color[b]
         /\ \A k \in 1..(L - 1) : k \in 1..L /\ k < L /\ stack'[k] = stack[k] /\ (OnPath(k)' <=> OnPath(k))
<1>0. color \in [Blocks -> {"WHITE", "GRAY", "BLACK"}]
  BY DEF TypeOK
<1>1. /\ L \in Nat \ {0} /\ DOMAIN stack = 1..L /\ stack[L] = Top /\ Top \in Blocks
      /\ \A k \in 1..L : stack[k] \in Blocks
      /\ DOMAIN stack' = 1..(L - 1) /\ \A k \in 1..(L - 1) : stack'[k] = stack[k]
  BY TopFacts, ElementOfSeq DEF PopBlock, TypeOK
<1>2. color[Top] # "WHITE" /\ color' = [color EXCEPT ![Top] = "BLACK"]
  BY DEF PopBlock, PoppedColor
<1>3. color'[Top] = "BLACK" /\ \A b \in Blocks : b # Top => color'[b] = color[b]
  BY <1>0, <1>1, <1>2
<1>4. \A k \in 1..L : k \in 1..(L - 1) \/ k = L
  BY <1>1
<1>5. \A k \in 1..(L - 1) : k \in 1..L /\ L > k /\ k < L /\ L \in 1..L
  BY <1>1
<1>6. ASSUME NEW k \in 1..(L - 1) PROVE OnPath(k)' <=> OnPath(k)
  <2>1. CASE stack[k] = Top
    <3>1. ~OnPath(k)
      BY <1>1, <1>5, <2>1 DEF OnPath
    <3>2. ~OnPath(k)'
      BY <1>1, <1>3, <2>1 DEF OnPath
    <3> QED BY <3>1, <3>2
  <2>2. CASE stack[k] # Top
    <3>1. color'[stack'[k]] = color[stack[k]]
      BY <1>1, <1>3, <1>5, <2>2
    <3>2. (\A j \in 1..(L - 1) : j > k => stack'[j] # stack'[k]) <=> (\A j \in 1..L : j > k => stack[j] # stack[k])
      BY <1>1, <1>4, <1>5, <2>2
    <3> QED BY <1>1, <3>1, <3>2 DEF OnPath
  <2> QED BY <2>1, <2>2
<1> QED BY <1>1, <1>2, <1>3, <1>5, <1>6

LEMMA PathKept ==
  ASSUME TypeOK, InputInv, PhaseInv, PathInv, [Next]_vars
  PROVE  PathInv'
<1>0. Blocks' = Blocks /\ cfg' = cfg
  BY InputKept
<1>1. PICK L : L = Len(stack)
  OBVIOUS
<1>2. CASE StartInit
  <2>1. color' = color /\ \A b \in Blocks : color[b] = "WHITE"
    BY <1>2 DEF StartInit, PhaseInv
  <2>2. stack' = <<Entry>> /\ pc' = "dfs" /\ Entry \in Blocks
    BY <1>2, InputFacts DEF StartInit
  <2>3. \A k \in DOMAIN stack' : stack'[k] = Entry
    BY <2>2
  <2>4. \A k \in DOMAIN stack' : ~OnPath(k)'
    BY <1>0, <2>1, <2>2, <2>3 DEF OnPath
  <2>5. GrayBlocks' = {}
    BY <1>0, <2>1 DEF GrayBlocks
  <2> QED BY <2>2, <2>4, <2>5 DEF PathInv
<1>3. CASE VisitBlock
  <2>1. /\ L \in Nat \ {0} /\ DOMAIN stack = 1..L /\ stack' = stack
        /\ Top \in Blocks /\ stack[L] = Top /\ node' = Top /\ color[Top] = "WHITE" /\ color'[Top] = "GRAY"
        /\ \A b \in Blocks : b # Top => color'[b] = color[b]
        /\ OnPath(L)'
        /\ \A k \in 1..L : OnPath(k)' <=> OnPath(k) \/ k = L
    BY <1>1, <1>3, VisitPlaces
  <2>2. \A b \in GrayBlocks' : \E k \in DOMAIN stack' : stack'[k] = b
    <3>1. \A b \in GrayBlocks' : b = Top \/ b \in GrayBlocks
      BY <1>0, <2>1 DEF GrayBlocks
    <3>2. L \in DOMAIN stack' /\ stack'[L] = Top
      BY <2>1
    <3>3. ASSUME NEW b \in GrayBlocks PROVE \E k \in DOMAIN stack' : stack'[k] = b
      BY <2>1 DEF PathInv
    <3> QED BY <3>1, <3>2, <3>3
  <2>3. \A k, j \in DOMAIN stack' :
           /\ OnPath(k)' /\ k < j
           /\ \A i \in DOMAIN stack' : k < i /\ i < j => ~OnPath(i)'
           => stack'[j] \in ToSet(cfg'[stack'[k]])
    <3>1. L \in Nat /\ DOMAIN stack' = 1..L /\ 1..L \subseteq DOMAIN stack /\ DOMAIN stack \subseteq Nat
      BY <2>1
    <3>2. \A k \in 1..L : OnPath(k)' <=> OnPath(k) \/ (k = L /\ OnPath(L)')
      BY <2>1
    <3>3. \A k \in 1..L : stack'[k] = stack[k]
      BY <2>1
    <3> QED BY <1>0, <3>1, <3>2, <3>3, PathShrinks
  <2>4. \E k \in DOMAIN stack' : /\ stack'[k] = node' /\ OnPath(k)'
                                 /\ \A j \in DOMAIN stack' : OnPath(j)' => j <= k
    BY <2>1
  <2> QED BY <2>2, <2>3, <2>4 DEF PathInv
<1>4. CASE LinkSuccessor
  <2>1. PICK c : c = cfg[node][ei]
    OBVIOUS
  <2>2. /\ L \in Nat /\ DOMAIN stack = 1..L /\ color' = color /\ node' = node
        /\ c \in ToSet(cfg[node])
        /\ \A k \in 1..L : k \in DOMAIN stack' /\ stack'[k] = stack[k] /\ (OnPath(k)' <=> OnPath(k))
        /\ \A k \in DOMAIN stack' : k \in 1..L \/ (k = L + 1 /\ stack'[k] = c /\ ~OnPath(k)')
    BY <1>1, <1>4, <2>1, LinkPlaces
  <2>3. PICK p \in 1..L : stack[p] = node /\ OnPath(p) /\ \A j \in 1..L : OnPath(j) => j <= p
    BY <1>4, <2>2 DEF PathInv, LinkSuccessor
  <2>4. ASSUME NEW k \in DOMAIN stack', NEW j \in DOMAIN stack', OnPath(k)', k < j,
               \A i \in DOMAIN stack' : k < i /\ i < j => ~OnPath(i)'
        PROVE  stack'[j] \in ToSet(cfg'[stack'[k]])
    <3>1. k \in 1..L /\ OnPath(k)
      BY <2>2, <2>4
    <3>2. CASE j \in 1..L
      <4>1. \A i \in 1..L : k < i /\ i < j => ~OnPath(i)
        BY <2>2, <2>4
      <4>2. stack[j] \in ToSet(cfg[stack[k]])
        BY <2>2, <2>4, <3>1, <3>2, <4>1 DEF PathInv
      <4> QED BY <1>0, <2>2, <3>1, <3>2, <4>2
    <3>3. CASE j = L + 1 /\ stack'[j] = c
      <4>1. k <= p
        BY <2>3, <3>1
      <4>2. p < j
        BY <2>2, <3>3
      <4>3. ~(k < p)
        BY <2>2, <2>3, <2>4, <4>2
      <4>4. k = p
        BY <2>2, <3>1, <4>1, <4>3
      <4> QED BY <1>0, <2>2, <2>3, <3>1, <3>3, <4>4
    <3> QED BY <2>2, <3>2, <3>3
  <2>5. \A b \in GrayBlocks' : \E k \in DOMAIN stack' : stack'[k] = b
    BY <1>0, <2>2 DEF PathInv, GrayBlocks
  <2>6. \E k \in DOMAIN stack' : /\ stack'[k] = node' /\ OnPath(k)'
                                 /\ \A j \in DOMAIN stack' : OnPath(j)' => j <= k
    <3>1. p \in DOMAIN stack' /\ stack'[p] = node' /\ OnPath(p)'
      BY <2>2, <2>3
    <3>2. ASSUME NEW j \in DOMAIN stack', OnPath(j)' PROVE j <= p
      <4>1. j \in 1..L /\ OnPath(j)
        BY <2>2, <3>2
      <4> QED BY <2>3, <4>1
    <3> QED BY <3>1, <3>2
  <2> QED BY <2>4, <2>5, <2>6 DEF PathInv
<1>5. CASE PopBlock
  <2>1. /\ L \in Nat \ {0} /\ DOMAIN stack = 1..L /\ DOMAIN stack' = 1..(L - 1)
        /\ Top \in Blocks /\ stack[L] = Top /\ color'[Top] = "BLACK"
        /\ \A b \in Blocks : b # Top => color'[b] = color[b]
        /\ \A k \in 1..(L - 1) : k \in 1..L /\ k < L /\ stack'[k] = stack[k] /\ (OnPath(k)' <=> OnPath(k))
    BY <1>1, <1>5, PopPlaces
  <2>2. \A k, j \in DOMAIN stack' :
           /\ OnPath(k)' /\ k < j
           /\ \A i \in DOMAIN stack' : k < i /\ i < j => ~OnPath(i)'
           => stack'[j] \in ToSet(cfg'[stack'[k]])
    <3>1. L - 1 \in Nat /\ 1..(L - 1) \subseteq DOMAIN stack /\ DOMAIN stack \subseteq Nat
      BY <2>1
    <3>2. \A k \in 1..(L - 1) : OnPath(k)' <=> OnPath(k) \/ (k = L - 1 /\ OnPath(L - 1)')
      BY <2>1
    <3> QED BY <1>0, <2>1, <3>1, <3>2, PathShrinks
  <2>3. ASSUME NEW b \in GrayBlocks' PROVE \E k \in DOMAIN stack' : stack'[k] = b
    <3>1. b # Top /\ b \in GrayBlocks
      BY <1>0, <2>1 DEF GrayBlocks
    <3>2. PICK k \in 1..L : stack[k] = b
      BY <2>1, <3>1 DEF PathInv
    <3>3. k \in 1..(L - 1)
      BY <2>1, <3>1, <3>2
    <3> QED BY <2>1, <3>2, <3>3
  <2>4. pc' # "edges"
    BY <1>5 DEF PopBlock
  <2> QED BY <2>2, <2>3, <2>4 DEF PathInv
<1>6. CASE UNCHANGED <<cfg, color, stack>> /\ pc' # "edges"
  BY <1>6, PathSame
<1>7. CASE UNCHANGED vars
  BY <1>7 DEF vars, inputVars, PathInv, OnPath, GrayBlocks, Blocks
<1> QED BY <1>0, <1>2, <1>3, <1>4, <1>5, <1>6, <1>7
        DEF Next, dagVars, NoBody, VisitDone, InitDone, TakeNode, RelaxEdge, NodeDone, Return, Finished

\* A gray block has a last place, which is its place on the path.
LEMMA LastPlace ==
  ASSUME TypeOK, PathInv, NEW b \in GrayBlocks
  PROVE  /\ LastOn(b) \in DOMAIN stack /\ stack[LastOn(b)] = b /\ OnPath(LastOn(b))
         /\ \A k \in DOMAIN stack : OnPath(k) /\ stack[k] = b => k = LastOn(b)
<1>1. stack \in Seq(Blocks)
  BY DEF TypeOK
<1>2. PICK L : L = Len(stack)
  OBVIOUS
<1>3. L \in Nat /\ DOMAIN stack = 1..L
  BY <1>1, <1>2, LenProperties
<1>4. PICK k0 \in 1..L : stack[k0] = b
  BY <1>3 DEF PathInv
<1> DEFINE T == {L - k : k \in {j \in 1..L : stack[j] = b}}
<1>5. T \subseteq Nat /\ T # {}
  BY <1>3, <1>4
<1> HIDE DEF T
<1>6. PICK m \in T : \A n \in T : m <= n
  BY <1>5, LeastNatural
<1>7. PICK p \in 1..L : stack[p] = b /\ m = L - p
  BY <1>6 DEF T
<1>8. ASSUME NEW j \in 1..L, stack[j] = b PROVE j <= p
  <2>1. L - j \in T
    BY <1>8 DEF T
  <2>2. L - p <= L - j
    BY <1>6, <1>7, <2>1
  <2> QED BY <1>3, <2>2
<1>9. \A j \in (p + 1)..Len(stack) : stack[j] # b
  <2> SUFFICES ASSUME NEW j \in (p + 1)..L, stack[j] = b PROVE FALSE
    BY <1>2
  <2>1. j \in 1..L /\ ~(j <= p)
    BY <1>3
  <2> QED BY <1>8, <2>1
<1> DEFINE k == LastOn(b)
<1>10. k \in DOMAIN stack /\ stack[k] = b /\ \A j \in (k + 1)..Len(stack) : stack[j] # b
  BY <1>3, <1>7, <1>9 DEF LastOn
<1> HIDE DEF k
<1>11. \A j \in DOMAIN stack : j > k => j \in (k + 1)..Len(stack)
  BY <1>2, <1>3, <1>10
<1>12. OnPath(k)
  BY <1>10, <1>11 DEF OnPath, GrayBlocks
<1>13. ASSUME NEW j \in DOMAIN stack, OnPath(j), stack[j] = b PROVE j = k
  <2>1. ~(k > j) /\ ~(j > k)
    BY <1>10, <1>12, <1>13 DEF OnPath
  <2> QED BY <1>3, <1>10, <2>1
<1> QED BY <1>10, <1>12, <1>13 DEF k

LEMMA PathIsGray ==
  ASSUME TypeOK, PathInv
  PROVE  GrayIsPath
<1>1. GrayBlocks \subseteq ToSet(stack)
  BY DEF PathInv, ToSet
<1>2. ASSUME NEW b \in GrayBlocks, NEW c \in GrayBlocks, LastOn(b) < LastOn(c),
             \A d \in GrayBlocks : ~(LastOn(b) < LastOn(d) /\ LastOn(d) < LastOn(c))
      PROVE  c \in ToSet(cfg[b])
  <2>1. ASSUME NEW i \in DOMAIN stack, LastOn(b) < i, i < LastOn(c) PROVE ~OnPath(i)
    <3>1. stack \in Seq(Blocks)
      BY DEF TypeOK
    <3>2. stack[i] \in Blocks
      BY <3>1, LenProperties, ElementOfSeq
    <3>3. OnPath(i) => stack[i] \in GrayBlocks
      BY <3>2 DEF OnPath, GrayBlocks
    <3> QED BY <1>2, <2>1, <3>3, LastPlace
  <2>2. stack[LastOn(c)] \in ToSet(cfg[stack[LastOn(b)]])
    BY <1>2, <2>1, LastPlace DEF PathInv
  <2> QED BY <2>2, LastPlace
<1> QED BY <1>1, <1>2 DEF GrayIsPath

-----------------------------------------------------------------------------
(* Simple paths *)

LEMMA PathsSame ==
  ASSUME cfg' = cfg
  PROVE  SimplePaths' = SimplePaths /\ Reachable' = Reachable /\ \A b, c : ClosesCycle(b, c)' <=> ClosesCycle(b, c)
<1>1. SimplePaths' = SimplePaths
  BY DEF SimplePaths, Blocks
<1> QED BY <1>1 DEF Reachable, ClosesCycle

LEMMA SimpleFacts ==
  ASSUME InputInv, NEW p \in SimplePaths
  PROVE  /\ p \in Seq(Blocks) /\ Len(p) \in Nat \ {0} /\ DOMAIN p = 1..Len(p) /\ Len(p) <= Len(cfg)
         /\ p[1] = Entry /\ Last(p) = p[Len(p)] /\ Last(p) \in Blocks
         /\ \A k \in 2..Len(p) : p[k] \in ToSet(cfg[p[k - 1]])
         /\ \A j, k \in 1..Len(p) : p[j] = p[k] => j = k
<1>1. PICK m \in 0..Len(cfg) : p \in [1..m -> Blocks]
  BY DEF SimplePaths, SeqOf
<1>2. Len(cfg) \in Nat
  BY InputFacts
<1>3. p \in Seq(Blocks) /\ Len(p) = m
  <2>1. p \in Seq(Blocks)
    BY <1>1, <1>2, SeqDef
  <2>2. DOMAIN p = 1..m /\ DOMAIN p = 1..Len(p) /\ Len(p) \in Nat
    BY <1>1, <2>1, LenProperties
  <2> QED BY <1>1, <1>2, <2>1, <2>2
<1>4. /\ p # <<>> /\ p[1] = Entry /\ \A k \in 2..Len(p) : p[k] \in ToSet(cfg[p[k - 1]])
      /\ \A j, k \in DOMAIN p : p[j] = p[k] => j = k
  BY DEF SimplePaths, IsInjective
<1>5. Len(p) \in Nat \ {0} /\ DOMAIN p = 1..Len(p)
  BY <1>3, <1>4, EmptySeq, LenProperties
<1>6. Last(p) = p[Len(p)] /\ Last(p) \in Blocks
  BY <1>3, <1>5, ElementOfSeq DEF Last
<1> QED BY <1>1, <1>2, <1>3, <1>4, <1>5, <1>6

\* A sequence of different blocks is no longer than the function.
LEMMA SimpleIs ==
  ASSUME InputInv, NEW p \in Seq(Blocks), p # <<>>, p[1] = Entry,
         \A k \in 2..Len(p) : p[k] \in ToSet(cfg[p[k - 1]]),
         \A j, k \in 1..Len(p) : p[j] = p[k] => j = k
  PROVE  p \in SimplePaths
<1>1. Len(p) \in Nat /\ DOMAIN p = 1..Len(p) /\ p \in [1..Len(p) -> Blocks]
  BY LenProperties
<1>2. Len(cfg) \in Nat /\ Blocks = 1..Len(cfg)
  BY InputFacts
<1>3. IsFiniteSet(Blocks) /\ Cardinality(Blocks) = Len(cfg)
  <2>1. PICK n \in Nat : n = Len(cfg)
    BY <1>2
  <2>2. IsFiniteSet(1..n) /\ Cardinality(1..n) = IF 1 > n THEN 0 ELSE n - 1 + 1
    BY FS_Interval
  <2>3. Cardinality(1..n) = n
    BY <2>2
  <2> QED BY <1>2, <2>1, <2>2, <2>3
<1>4. Cardinality(1..Len(p)) = Len(p)
  BY <1>1, FS_Interval
<1>5. IsInjective(p)
  BY <1>1 DEF IsInjective
<1>6. p \in Injection(1..Len(p), Blocks)
  BY <1>1, <1>5 DEF Injection
<1>7. Len(p) <= Len(cfg)
  BY <1>3, <1>4, <1>6, FS_Injection
<1>8. p \in SeqOf(Blocks, Len(cfg))
  BY <1>1, <1>2, <1>7 DEF SeqOf
<1> QED BY <1>5, <1>8 DEF SimplePaths

LEMMA EntryPath ==
  ASSUME InputInv, Entry \in Blocks
  PROVE  <<Entry>> \in SimplePaths /\ Last(<<Entry>>) = Entry /\ ToSet(<<Entry>>) = {Entry}
<1>1. <<Entry>> \in Seq(Blocks) /\ Len(<<Entry>>) = 1 /\ <<Entry>> # <<>> /\ <<Entry>>[1] = Entry
  OBVIOUS
<1>2. \A k \in 2..1 : FALSE
  OBVIOUS
<1>3. \A j, k \in 1..1 : j = k
  OBVIOUS
<1>4. <<Entry>> \in SimplePaths
  BY <1>1, <1>2, <1>3, SimpleIs
<1>5. DOMAIN <<Entry>> = {1}
  OBVIOUS
<1> QED BY <1>1, <1>4, <1>5 DEF Last, ToSet

LEMMA SimpleAppend ==
  ASSUME InputInv, NEW p \in SimplePaths, NEW c \in Blocks, c \in ToSet(cfg[Last(p)]), c \notin ToSet(p)
  PROVE  /\ Append(p, c) \in SimplePaths /\ Last(Append(p, c)) = c
         /\ ToSet(Append(p, c)) = ToSet(p) \cup {c}
<1> DEFINE q == Append(p, c)
<1>1. PICK n : n = Len(p)
  OBVIOUS
<1>2. /\ p \in Seq(Blocks) /\ n \in Nat \ {0} /\ DOMAIN p = 1..n /\ p[1] = Entry /\ Last(p) = p[n]
      /\ \A k \in 2..n : p[k] \in ToSet(cfg[p[k - 1]])
      /\ \A j, k \in 1..n : p[j] = p[k] => j = k
  BY <1>1, SimpleFacts
<1>3. /\ q \in Seq(Blocks) /\ Len(q) = n + 1 /\ DOMAIN q = 1..(n + 1)
      /\ \A k \in 1..n : q[k] = p[k]
      /\ q[n + 1] = c
  BY <1>1, <1>2, AppendOf
<1>4. \A k \in 1..n : p[k] # c
  BY <1>2 DEF ToSet
<1> HIDE DEF q
<1>5. q # <<>> /\ q[1] = Entry
  BY <1>2, <1>3
<1>6. ASSUME NEW k \in 2..(n + 1) PROVE q[k] \in ToSet(cfg[q[k - 1]])
  <2>1. CASE k \in 2..n
    <3>1. k \in 1..n /\ k - 1 \in 1..n
      BY <1>2, <2>1
    <3> QED BY <1>2, <1>3, <2>1, <3>1
  <2>2. CASE k = n + 1
    <3>1. k - 1 = n /\ n \in 1..n
      BY <1>2, <2>2
    <3> QED BY <1>2, <1>3, <2>2, <3>1
  <2> QED BY <1>2, <2>1, <2>2
<1>7. ASSUME NEW j \in 1..(n + 1), NEW k \in 1..(n + 1), q[j] = q[k] PROVE j = k
  <2>1. \A i \in 1..(n + 1) : i \in 1..n \/ i = n + 1
    BY <1>2
  <2> QED BY <1>2, <1>3, <1>4, <1>7, <2>1
<1>8. q \in SimplePaths
  BY <1>3, <1>5, <1>6, <1>7, SimpleIs
<1>9. Last(q) = c
  BY <1>3 DEF Last
<1>10. ToSet(q) = ToSet(p) \cup {c}
  <2>1. \A i \in 1..(n + 1) : i \in 1..n \/ i = n + 1
    BY <1>2
  <2>2. \A i \in 1..n : i \in 1..(n + 1)
    BY <1>2
  <2>3. n + 1 \in 1..(n + 1)
    BY <1>2
  <2>4. ASSUME NEW x \in ToSet(q) PROVE x \in ToSet(p) \cup {c}
    BY <1>2, <1>3, <2>1 DEF ToSet
  <2>5. ASSUME NEW x \in ToSet(p) PROVE x \in ToSet(q)
    BY <1>2, <1>3, <2>2 DEF ToSet
  <2>6. c \in ToSet(q)
    BY <1>3, <2>3 DEF ToSet
  <2> QED BY <2>4, <2>5, <2>6
<1> QED BY <1>8, <1>9, <1>10 DEF q

-----------------------------------------------------------------------------
(* What the walk leaves behind *)

LEMMA StackKept ==
  ASSUME IInv, StackInv, [Next]_vars
  PROVE  StackInv'
<1> USE DEF IInv
<1>0. Blocks' = Blocks /\ cfg' = cfg
  BY InputKept
<1>1. PICK L : L = Len(stack)
  OBVIOUS
<1>2. CASE StartInit
  <2>1. stack' = <<Entry>>
    BY <1>2 DEF StartInit
  <2>2. DOMAIN stack' = {1} /\ stack'[1] = Entry /\ stack' # <<>>
    BY <2>1
  <2> QED BY <2>2 DEF StackInv
<1>3. CASE VisitBlock
  <2>1. /\ L \in Nat \ {0} /\ DOMAIN stack = 1..L /\ stack' = stack /\ stack # <<>>
        /\ \A k \in 1..L : OnPath(k)' <=> OnPath(k) \/ k = L
    BY <1>1, <1>3, VisitPlaces DEF VisitBlock
  <2> QED BY <2>1 DEF StackInv
<1>4. CASE LinkSuccessor
  <2>1. PICK c : c = cfg[node][ei]
    OBVIOUS
  <2>2. /\ L \in Nat /\ DOMAIN stack = 1..L
        /\ \A k \in 1..L : k \in DOMAIN stack' /\ stack'[k] = stack[k] /\ (OnPath(k)' <=> OnPath(k))
        /\ \A k \in DOMAIN stack' : k \in 1..L \/ k = L + 1
    BY <1>1, <1>4, <2>1, LinkPlaces
  <2>3. PICK q \in 1..L : OnPath(q)
    BY <1>4, <2>2 DEF PathInv, LinkSuccessor
  <2>4. 1 \in 1..L /\ q < L + 1 /\ stack # <<>>
    BY <2>2, <2>3
  <2>5. stack'[1] = Entry /\ 1 \in DOMAIN stack'
    BY <2>2, <2>4 DEF StackInv
  <2>6. stack' # <<>>
    BY <2>5
  <2>7. ASSUME NEW j \in DOMAIN stack', j > 1 PROVE \E n \in DOMAIN stack' : n < j /\ OnPath(n)'
    <3>1. CASE j \in 1..L
      BY <2>2, <2>7, <3>1 DEF StackInv
    <3>2. CASE j = L + 1
      BY <2>2, <2>3, <2>4, <3>2
    <3> QED BY <2>2, <3>1, <3>2
  <2> QED BY <2>5, <2>6, <2>7 DEF StackInv
<1>5. CASE PopBlock
  <2>1. /\ L \in Nat \ {0} /\ DOMAIN stack = 1..L /\ DOMAIN stack' = 1..(L - 1) /\ stack # <<>>
        /\ stack[L] = Top /\ color'[Top] = "BLACK"
        /\ \A k \in 1..(L - 1) : k \in 1..L /\ k < L /\ stack'[k] = stack[k] /\ (OnPath(k)' <=> OnPath(k))
    BY <1>1, <1>5, PopPlaces DEF PopBlock
  <2>2. ASSUME NEW j \in DOMAIN stack', j > 1 PROVE \E n \in DOMAIN stack' : n < j /\ OnPath(n)'
    <3>1. PICK n \in 1..L : n < j /\ OnPath(n)
      BY <2>1, <2>2 DEF StackInv
    <3>2. n \in 1..(L - 1)
      BY <2>1, <3>1
    <3> QED BY <2>1, <3>1, <3>2
  <2>3. CASE L = 1
    <3>1. Top = Entry
      BY <2>1, <2>3 DEF StackInv
    <3>2. DOMAIN stack' = {}
      BY <2>1, <2>3
    <3>3. stack' \in Seq(Blocks)
      BY <1>5, TopFacts DEF PopBlock
    <3>4. stack' = <<>>
      BY <3>2, <3>3, EmptySeq, LenProperties
    <3> QED BY <2>1, <2>2, <3>1, <3>4 DEF StackInv
  <2>4. CASE L # 1
    <3>1. 1 \in 1..(L - 1)
      BY <2>1, <2>4
    <3>2. stack'[1] = Entry /\ 1 \in DOMAIN stack'
      BY <2>1, <3>1 DEF StackInv
    <3>3. stack' # <<>>
      BY <3>2
    <3> QED BY <2>2, <3>2, <3>3 DEF StackInv
  <2> QED BY <2>3, <2>4
<1>6. CASE UNCHANGED <<color, stack>> /\ (pc' # "begin" /\ cfg # <<>> => pc # "begin")
  BY <1>0, <1>6 DEF StackInv, OnPath
<1> QED BY <1>0, <1>2, <1>3, <1>4, <1>5, <1>6
        DEF Next, vars, dagVars, NoBody, VisitDone, InitDone, TakeNode, RelaxEdge, NodeDone, Return, Finished

\* A part of the path that a step leaves alone is still one of a simple path.
LEMMA RouteCarried ==
  ASSUME RouteInv, cfg' = cfg, NEW k \in DOMAIN stack, OnPath(k), stack'[k] = stack[k],
         \A n : n \in DOMAIN stack' /\ n <= k /\ OnPath(n)' <=> n \in DOMAIN stack /\ n <= k /\ OnPath(n),
         \A n \in DOMAIN stack : n <= k => stack'[n] = stack[n]
  PROVE  \E p \in SimplePaths' : Last(p) = stack'[k] /\ ToSet(p) = OnPathUpTo(k)'
<1>1. PICK p \in SimplePaths : Last(p) = stack[k] /\ ToSet(p) = OnPathUpTo(k)
  BY DEF RouteInv
<1>2. OnPathUpTo(k)' = OnPathUpTo(k)
  BY DEF OnPathUpTo
<1> QED BY <1>1, <1>2, PathsSame

\* The block visited goes on the path that was gone so far.
LEMMA RouteVisited ==
  ASSUME IInv, StackInv, RouteInv, VisitBlock, cfg' = cfg, NEW L, L = Len(stack)
  PROVE  \E p \in SimplePaths : Last(p) = Top /\ ToSet(p) = OnPathUpTo(L)'
<1> USE DEF IInv
<1>1. /\ L \in Nat \ {0} /\ DOMAIN stack = 1..L /\ stack' = stack
      /\ Top \in Blocks /\ stack[L] = Top /\ color[Top] = "WHITE"
      /\ \A k \in 1..L : OnPath(k)' <=> OnPath(k) \/ k = L
  BY VisitPlaces
<1>2. CASE \A n \in 1..L : n < L => ~OnPath(n)
  <2>1. L = 1
    BY <1>1, <1>2 DEF StackInv
  <2>2. Top = Entry
    BY <1>1, <2>1 DEF StackInv, VisitBlock
  <2>3. OnPathUpTo(L)' = {Entry}
    <3>1. \A n \in 1..L : n <= L /\ OnPath(n)' <=> n = L
      BY <1>1, <2>1
    <3>2. L \in 1..L
      BY <1>1
    <3> QED BY <1>1, <2>2, <3>1, <3>2 DEF OnPathUpTo
  <2> QED BY <1>1, <2>2, <2>3, EntryPath
<1>3. ASSUME NEW m \in 1..L, m < L, OnPath(m)
      PROVE  \E i \in 1..L : i < L /\ OnPath(i) /\ \A n \in 1..L : i < n /\ n < L => ~OnPath(n)
  <2> DEFINE T == {L - n : n \in {j \in 1..L : j < L /\ OnPath(j)}}
  <2>1. T \subseteq Nat /\ T # {}
    BY <1>1, <1>3
  <2> HIDE DEF T
  <2>2. PICK d \in T : \A e \in T : d <= e
    BY <2>1, LeastNatural
  <2>3. PICK i \in 1..L : i < L /\ OnPath(i) /\ d = L - i
    BY <2>2 DEF T
  <2>4. ASSUME NEW n \in 1..L, i < n, n < L, OnPath(n) PROVE FALSE
    <3>1. L - n \in T
      BY <2>4 DEF T
    <3>2. L - i <= L - n
      BY <2>2, <2>3, <3>1
    <3> QED BY <1>1, <2>4, <3>2
  <2> QED BY <2>3, <2>4
<1>4. CASE \E m \in 1..L : m < L /\ OnPath(m)
  <2>1. PICK i \in 1..L : i < L /\ OnPath(i) /\ \A n \in 1..L : i < n /\ n < L => ~OnPath(n)
    BY <1>3, <1>4
  <2>2. PICK p \in SimplePaths : Last(p) = stack[i] /\ ToSet(p) = OnPathUpTo(i)
    BY <1>1, <2>1 DEF RouteInv
  <2>3. Top \in ToSet(cfg[Last(p)])
    <3>1. L \in DOMAIN stack
      BY <1>1
    <3> QED BY <1>1, <2>1, <2>2, <3>1 DEF PathInv
  <2>4. Top \notin ToSet(p)
    BY <1>1, <2>2 DEF OnPathUpTo, OnPath
  <2>5. OnPathUpTo(L)' = OnPathUpTo(i) \cup {Top}
    <3>1. ASSUME NEW n \in 1..L PROVE n <= L /\ OnPath(n)' <=> (n <= i /\ OnPath(n)) \/ n = L
      <4>1. CASE n = L
        BY <1>1, <4>1
      <4>2. CASE n # L
        <5>1. n < L
          BY <1>1, <4>2
        <5>2. OnPath(n) => n <= i
          BY <1>1, <2>1, <5>1
        <5> QED BY <1>1, <4>2, <5>1, <5>2
      <4> QED BY <4>1, <4>2
    <3>2. OnPathUpTo(L)' = {stack[n] : n \in {j \in 1..L : j <= L /\ OnPath(j)'}}
      BY <1>1 DEF OnPathUpTo
    <3>3. OnPathUpTo(i) = {stack[n] : n \in {j \in 1..L : j <= i /\ OnPath(j)}}
      BY <1>1 DEF OnPathUpTo
    <3>4. L \in 1..L /\ stack[L] = Top
      BY <1>1
    <3>5. {j \in 1..L : j <= L /\ OnPath(j)'} = {j \in 1..L : j <= i /\ OnPath(j)} \cup {L}
      BY <3>1, <3>4
    <3> QED BY <3>2, <3>3, <3>4, <3>5
  <2>6. /\ Append(p, Top) \in SimplePaths /\ Last(Append(p, Top)) = Top
        /\ ToSet(Append(p, Top)) = ToSet(p) \cup {Top}
    BY <1>1, <2>3, <2>4, SimpleAppend
  <2> QED BY <2>2, <2>5, <2>6
<1> QED BY <1>2, <1>4

LEMMA RouteKept ==
  ASSUME IInv, StackInv, RouteInv, [Next]_vars
  PROVE  RouteInv'
<1> USE DEF IInv
<1>0. Blocks' = Blocks /\ cfg' = cfg
  BY InputKept
<1>1. PICK L : L = Len(stack)
  OBVIOUS
<1>2. CASE StartInit
  <2>1. color' = color /\ stack' = <<Entry>> /\ Entry \in Blocks /\ color[Entry] = "WHITE"
    BY <1>2, InputFacts DEF StartInit, PhaseInv
  <2>2. \A k \in DOMAIN stack' : stack'[k] = Entry
    BY <2>1
  <2>3. \A k \in DOMAIN stack' : ~OnPath(k)'
    BY <2>1, <2>2 DEF OnPath
  <2> QED BY <2>3 DEF RouteInv
<1>3. CASE VisitBlock
  <2>1. /\ L \in Nat \ {0} /\ DOMAIN stack = 1..L /\ stack' = stack /\ stack[L] = Top
        /\ \A k \in 1..L : OnPath(k)' <=> OnPath(k) \/ k = L
    BY <1>1, <1>3, VisitPlaces
  <2>2. ASSUME NEW k \in DOMAIN stack', OnPath(k)'
        PROVE  \E p \in SimplePaths' : Last(p) = stack'[k] /\ ToSet(p) = OnPathUpTo(k)'
    <3>1. CASE k = L
      BY <1>0, <1>1, <1>3, <2>1, <3>1, RouteVisited, PathsSame
    <3>2. CASE k # L
      <4>1. OnPath(k) /\ k < L
        BY <2>1, <2>2, <3>2
      <4>2. \A n : n \in DOMAIN stack' /\ n <= k /\ OnPath(n)' <=> n \in DOMAIN stack /\ n <= k /\ OnPath(n)
        BY <2>1, <4>1
      <4> QED BY <1>0, <2>1, <4>1, <4>2, RouteCarried
    <3> QED BY <3>1, <3>2
  <2> QED BY <2>2 DEF RouteInv
<1>4. CASE LinkSuccessor
  <2>1. PICK c : c = cfg[node][ei]
    OBVIOUS
  <2>2. /\ L \in Nat /\ DOMAIN stack = 1..L
        /\ \A k \in 1..L : k \in DOMAIN stack' /\ stack'[k] = stack[k] /\ (OnPath(k)' <=> OnPath(k))
        /\ \A k \in DOMAIN stack' : k \in 1..L \/ (k = L + 1 /\ ~OnPath(k)')
    BY <1>1, <1>4, <2>1, LinkPlaces
  <2>3. ASSUME NEW k \in DOMAIN stack', OnPath(k)'
        PROVE  \E p \in SimplePaths' : Last(p) = stack'[k] /\ ToSet(p) = OnPathUpTo(k)'
    <3>1. k \in DOMAIN stack /\ OnPath(k) /\ stack'[k] = stack[k]
      BY <2>2, <2>3
    <3>2. \A n : n \in DOMAIN stack' /\ n <= k /\ OnPath(n)' <=> n \in DOMAIN stack /\ n <= k /\ OnPath(n)
      BY <2>2
    <3> QED BY <1>0, <2>2, <3>1, <3>2, RouteCarried
  <2> QED BY <2>3 DEF RouteInv
<1>5. CASE PopBlock
  <2>1. /\ L \in Nat \ {0} /\ DOMAIN stack = 1..L /\ DOMAIN stack' = 1..(L - 1)
        /\ \A k \in 1..(L - 1) : k \in 1..L /\ k < L /\ stack'[k] = stack[k] /\ (OnPath(k)' <=> OnPath(k))
    BY <1>1, <1>5, PopPlaces
  <2>2. ASSUME NEW k \in DOMAIN stack', OnPath(k)'
        PROVE  \E p \in SimplePaths' : Last(p) = stack'[k] /\ ToSet(p) = OnPathUpTo(k)'
    <3>1. k \in DOMAIN stack /\ OnPath(k) /\ stack'[k] = stack[k]
      BY <2>1, <2>2
    <3>2. \A n \in 1..L : n <= k => n \in 1..(L - 1)
      BY <2>1, <2>2
    <3>3. \A n : n \in DOMAIN stack' /\ n <= k /\ OnPath(n)' <=> n \in DOMAIN stack /\ n <= k /\ OnPath(n)
      BY <2>1, <3>2
    <3> QED BY <1>0, <2>1, <3>1, <3>2, <3>3, RouteCarried
  <2> QED BY <2>2 DEF RouteInv
<1>6. CASE UNCHANGED <<color, stack>>
  BY <1>0, <1>6, PathsSame DEF RouteInv, OnPath, OnPathUpTo
<1> QED BY <1>2, <1>3, <1>4, <1>5, <1>6
        DEF Next, vars, dagVars, NoBody, VisitDone, InitDone, TakeNode, RelaxEdge, NodeDone, Return, Finished

LEMMA ReachedKept ==
  ASSUME IInv, StackInv, RouteInv, ReachedInv, [Next]_vars
  PROVE  ReachedInv'
<1> USE DEF IInv
<1>0. Blocks' = Blocks /\ cfg' = cfg /\ Reachable' = Reachable
  BY InputKept, PathsSame
<1>1. PICK L : L = Len(stack)
  OBVIOUS
<1>2. CASE VisitBlock
  <2>1. \A b \in Blocks : b # Top => color'[b] = color[b]
    BY <1>1, <1>2, VisitPlaces
  <2>2. Top \in Reachable
    BY <1>0, <1>1, <1>2, RouteVisited DEF Reachable
  <2> QED BY <1>0, <2>1, <2>2 DEF ReachedInv
<1>3. CASE PopBlock
  <2>1. color[Top] # "WHITE" /\ \A b \in Blocks : b # Top => color'[b] = color[b]
    BY <1>1, <1>3, PopPlaces
  <2> QED BY <1>0, <2>1 DEF ReachedInv
<1>4. CASE color' = color
  BY <1>0, <1>4 DEF ReachedInv
<1> QED BY <1>2, <1>3, <1>4
        DEF Next, vars, dagVars, NoBody, StartInit, LinkSuccessor, VisitDone, InitDone, TakeNode, RelaxEdge, NodeDone,
            Return, Finished

\* A gray successor lies on the path that leads to the block visited.
LEMMA GrayCloses ==
  ASSUME IInv, RouteInv, pc = "edges", NEW c \in GrayBlocks
  PROVE  ClosesCycle(node, c)
<1> USE DEF IInv
<1>1. PICK k \in DOMAIN stack : stack[k] = node /\ OnPath(k) /\ \A j \in DOMAIN stack : OnPath(j) => j <= k
  BY DEF PathInv
<1>2. PICK p \in SimplePaths : Last(p) = node /\ ToSet(p) = OnPathUpTo(k)
  BY <1>1 DEF RouteInv
<1>3. PICK j \in DOMAIN stack : stack[j] = c /\ OnPath(j)
  BY LastPlace
<1>4. c \in OnPathUpTo(k)
  BY <1>1, <1>3 DEF OnPathUpTo
<1> QED BY <1>2, <1>4 DEF ClosesCycle

LEMMA OutKept ==
  ASSUME IInv, RouteInv, OutInv, [Next]_vars
  PROVE  OutInv'
<1> USE DEF IInv
<1>0. Blocks' = Blocks /\ cfg' = cfg /\ \A b, c : ClosesCycle(b, c)' <=> ClosesCycle(b, c)
  BY InputKept, PathsSame
<1>1. /\ Exit \notin Blocks /\ Blocks \subseteq Nodes /\ out \in [Nodes -> Seq(Nodes)]
      /\ \A b \in Blocks : Len(out[b]) \in Nat /\ DOMAIN out[b] = 1..Len(out[b])
      /\ \A b \in Blocks : Len(cfg[b]) \in Nat /\ DOMAIN cfg[b] = 1..Len(cfg[b])
      /\ \A b \in Blocks : \A k \in DOMAIN cfg[b] : cfg[b][k] \in Blocks
  <2>1. out \in [Nodes -> Seq(Nodes)] /\ Blocks \subseteq Nodes
    BY InputFacts DEF TypeOK
  <2>2. \A b \in Blocks : Len(out[b]) \in Nat /\ DOMAIN out[b] = 1..Len(out[b])
    BY <2>1, LenProperties
  <2> QED BY <2>1, <2>2, InputFacts
<1>2. CASE VisitBlock
  <2>1. /\ Top \in Blocks /\ node' = Top /\ color[Top] = "WHITE" /\ color'[Top] = "GRAY"
        /\ \A b \in Blocks : b # Top => color'[b] = color[b]
    BY <1>2, VisitPlaces
  <2>2. out' = out /\ ei' = 1 /\ pc = "dfs"
    BY <1>2 DEF VisitBlock
  <2>3. \A b \in Blocks : color[b] # "WHITE" => color'[b] # "WHITE"
    BY <2>1
  <2>4. Len(out'[node']) = ei' - 1
    <3>1. out[Top] = <<>>
      BY <2>1 DEF EdgesInv
    <3> QED BY <2>1, <2>2, <3>1
  <2>5. ASSUME NEW b \in Blocks, NEW k \in DOMAIN out'[b]
        PROVE  \/ k \in DOMAIN cfg[b] /\ out'[b][k] = cfg[b][k]
               \/ /\ out'[b][k] = Exit
                  /\ k \in DOMAIN cfg[b] => ClosesCycle(b, cfg[b][k]) /\ color'[cfg[b][k]] # "WHITE"
    BY <1>1, <2>2, <2>3 DEF OutInv
  <2>6. \A b \in Blocks : color'[b] # "WHITE" /\ b # Top => DOMAIN cfg[b] \subseteq DOMAIN out'[b]
    BY <2>1, <2>2 DEF OutInv
  <2>7. \A b \in Blocks : color'[b] = "BLACK" => out'[b] # <<>>
    BY <2>1, <2>2 DEF OutInv
  <2>8. pc' = "edges"
    BY <1>2 DEF VisitBlock
  <2> QED BY <1>0, <2>1, <2>4, <2>5, <2>6, <2>7, <2>8 DEF OutInv
<1>3. CASE LinkSuccessor
  <2>1. PICK c, d : c = cfg[node][ei] /\ d = EdgeTarget(c)
    OBVIOUS
  <2>2. EdgeAdded(node, d) /\ node \in Blocks /\ color' = color /\ node' = node /\ pc = "edges" /\ pc' = "edges"
        /\ ei' = ei + 1 /\ ei \in Nat /\ ei \in DOMAIN cfg[node] /\ c \in Blocks
    <3>1. EdgeAdded(node, d)
      BY <1>3, <2>1, LinkAddsEdge
    <3> QED BY <1>3, <2>1, <3>1, LinkFacts DEF LinkSuccessor, TypeOK
  <2>3. Len(out[node]) = ei - 1
    BY <2>2 DEF OutInv
  <2>4. /\ \A n \in Nodes : n # node => out'[n] = out[n]
        /\ DOMAIN out[node] = 1..(ei - 1) /\ DOMAIN out'[node] = 1..ei
        /\ \A k \in 1..(ei - 1) : out'[node][k] = out[node][k]
        /\ out'[node][ei] = d
    <3>1. ei - 1 + 1 = ei
      BY <2>2
    <3> QED BY <2>2, <2>3, <3>1, AddedFacts
  <2>5. \/ d = c
        \/ d = Exit /\ ClosesCycle(node, c) /\ color[c] # "WHITE"
    <3>1. color[c] = "GRAY" => c \in GrayBlocks
      BY <2>2 DEF GrayBlocks
    <3> QED BY <2>1, <2>2, <3>1, GrayCloses DEF EdgeTarget
  <2>6. ASSUME NEW b \in Blocks, NEW k \in DOMAIN out'[b]
        PROVE  \/ k \in DOMAIN cfg[b] /\ out'[b][k] = cfg[b][k]
               \/ /\ out'[b][k] = Exit
                  /\ k \in DOMAIN cfg[b] => ClosesCycle(b, cfg[b][k]) /\ color'[cfg[b][k]] # "WHITE"
    <3>1. CASE k \in DOMAIN out[b] /\ out'[b][k] = out[b][k]
      BY <2>2, <3>1 DEF OutInv
    <3>2. b # node \/ k \in 1..(ei - 1) => k \in DOMAIN out[b] /\ out'[b][k] = out[b][k]
      BY <1>1, <2>4
    <3>3. CASE b = node /\ k = ei
      BY <2>1, <2>2, <2>4, <2>5, <3>3
    <3>4. b = node => k \in 1..(ei - 1) \/ k = ei
      BY <2>2, <2>4
    <3> QED BY <3>1, <3>2, <3>3, <3>4
  <2>7. Len(out'[node]) = ei' - 1
    <3>1. out'[node] = Append(out[node], d) /\ out[node] \in Seq(Nodes) /\ d \in Nodes
      BY <1>1, <2>2 DEF EdgeAdded
    <3>2. Len(out'[node]) = Len(out[node]) + 1
      BY <3>1, AppendOf
    <3> QED BY <2>2, <2>3, <3>2
  <2>8. \A b \in Blocks : color[b] # "WHITE" /\ b # node => DOMAIN cfg[b] \subseteq DOMAIN out'[b]
    BY <1>1, <2>4 DEF OutInv
  <2>9. \A b \in Blocks : color[b] = "BLACK" => out'[b] # <<>>
    <3>1. color[node] = "GRAY"
      BY <2>2 DEF PhaseInv
    <3> QED BY <1>1, <2>4, <3>1 DEF OutInv
  <2> QED BY <1>0, <2>2, <2>6, <2>7, <2>8, <2>9 DEF OutInv
<1>4. CASE VisitDone
  <2>1. /\ out' = out /\ color' = color /\ pc = "edges" /\ pc' = "dfs" /\ ei > Len(cfg[node]) /\ node \in Blocks
        /\ ei \in Nat
    BY <1>4 DEF VisitDone, dagVars, PhaseInv, TypeOK
  <2>2. DOMAIN cfg[node] \subseteq DOMAIN out[node]
    BY <1>1, <2>1 DEF OutInv
  <2> QED BY <1>0, <2>1, <2>2 DEF OutInv
<1>5. CASE PopBlock
  <2>1. /\ Top \in Blocks /\ color[Top] # "WHITE" /\ color'[Top] = "BLACK"
        /\ \A b \in Blocks : b # Top => color'[b] = color[b]
    <3>1. PICK L : L = Len(stack)
      OBVIOUS
    <3> QED BY <1>5, <3>1, PopPlaces
  <2>2. pc = "dfs" /\ pc' = "dfs"
    BY <1>5 DEF PopBlock
  <2>3. \A b \in Blocks : color'[b] # "WHITE" <=> color[b] # "WHITE"
    BY <2>1
  <2>4. CASE EndsFunction(Top)
    <3>1. EdgeAdded(Top, Exit)
      BY <1>5, <2>4, PopAddsEdge
    <3>2. PICK n : n = Len(out[Top])
      OBVIOUS
    <3>3. /\ \A b \in Nodes : b # Top => out'[b] = out[b]
          /\ n \in Nat /\ DOMAIN out[Top] = 1..n /\ DOMAIN out'[Top] = 1..(n + 1)
          /\ \A k \in 1..n : out'[Top][k] = out[Top][k]
          /\ out'[Top][n + 1] = Exit
      BY <3>1, <3>2, AddedFacts
    <3>4. DOMAIN cfg[Top] = {}
      BY <2>4 DEF EndsFunction
    <3>5. ASSUME NEW b \in Blocks, NEW k \in DOMAIN out'[b]
          PROVE  \/ k \in DOMAIN cfg[b] /\ out'[b][k] = cfg[b][k]
                 \/ /\ out'[b][k] = Exit
                    /\ k \in DOMAIN cfg[b] => ClosesCycle(b, cfg[b][k]) /\ color'[cfg[b][k]] # "WHITE"
      <4>1. CASE k \in DOMAIN out[b] /\ out'[b][k] = out[b][k]
        <5>1. k \in DOMAIN cfg[b] => (color'[cfg[b][k]] # "WHITE" <=> color[cfg[b][k]] # "WHITE")
          BY <1>1, <2>3
        <5> QED BY <4>1, <5>1 DEF OutInv
      <4>2. b # Top \/ k \in 1..n => k \in DOMAIN out[b] /\ out'[b][k] = out[b][k]
        BY <1>1, <3>3
      <4>3. CASE b = Top /\ k = n + 1
        BY <3>3, <3>4, <4>3
      <4>4. b = Top => k \in 1..n \/ k = n + 1
        BY <3>3
      <4> QED BY <4>1, <4>2, <4>3, <4>4
    <3>6. \A b \in Blocks : color'[b] # "WHITE" => DOMAIN cfg[b] \subseteq DOMAIN out'[b]
      BY <1>1, <2>2, <2>3, <3>3, <3>4 DEF OutInv
    <3>7. \A b \in Blocks : color'[b] = "BLACK" => out'[b] # <<>>
      <4>1. n + 1 \in DOMAIN out'[Top]
        BY <3>3
      <4>2. out'[Top] # <<>>
        BY <4>1
      <4> QED BY <1>1, <2>1, <3>3, <4>2 DEF OutInv
    <3> QED BY <1>0, <2>2, <3>5, <3>6, <3>7 DEF OutInv
  <2>5. CASE ~EndsFunction(Top)
    <3>1. out' = out
      BY <1>5, <2>5 DEF PopBlock
    <3>2. DOMAIN cfg[Top] \subseteq DOMAIN out[Top]
      BY <2>1, <2>2 DEF OutInv
    <3>3. Len(cfg[Top]) # 0
      <4>1. cfg[Top] \in Seq(Blocks) /\ cfg[Top] # <<>>
        BY <2>1, <2>5, InputFacts DEF EndsFunction
      <4> QED BY <4>1, EmptySeq
    <3>4. 1 \in DOMAIN cfg[Top]
      BY <1>1, <2>1, <3>3
    <3>5. out[Top] # <<>>
      BY <3>2, <3>4
    <3>6. \A b \in Blocks : color'[b] = "BLACK" => out'[b] # <<>>
      BY <2>1, <3>1, <3>5 DEF OutInv
    <3>7. ASSUME NEW b \in Blocks, NEW k \in DOMAIN out'[b]
          PROVE  \/ k \in DOMAIN cfg[b] /\ out'[b][k] = cfg[b][k]
                 \/ /\ out'[b][k] = Exit
                    /\ k \in DOMAIN cfg[b] => ClosesCycle(b, cfg[b][k]) /\ color'[cfg[b][k]] # "WHITE"
      BY <1>1, <2>3, <3>1 DEF OutInv
    <3>8. \A b \in Blocks : color'[b] # "WHITE" => DOMAIN cfg[b] \subseteq DOMAIN out'[b]
      BY <2>2, <2>3, <3>1 DEF OutInv
    <3> QED BY <1>0, <2>2, <3>6, <3>7, <3>8 DEF OutInv
  <2> QED BY <2>4, <2>5
<1>6. CASE UNCHANGED <<color, out>> /\ pc # "edges" /\ pc' # "edges"
  BY <1>0, <1>6 DEF OutInv
<1>7. CASE UNCHANGED vars
  BY <1>0, <1>7 DEF vars, OutInv
<1> QED BY <1>2, <1>3, <1>4, <1>5, <1>6, <1>7
        DEF Next, dagVars, NoBody, StartInit, InitDone, TakeNode, RelaxEdge, NodeDone, Return, Finished

LEMMA ChildKept ==
  ASSUME IInv, ChildInv, [Next]_vars
  PROVE  ChildInv'
<1> USE DEF IInv
<1>0. Blocks' = Blocks /\ Blocks \subseteq Nodes /\ \A k \in DOMAIN stack : stack[k] \in Blocks
  <2>1. stack \in Seq(Blocks)
    BY DEF TypeOK
  <2> QED BY <2>1, InputKept, InputFacts, LenProperties, ElementOfSeq
<1>1. PICK L : L = Len(stack)
  OBVIOUS
<1>2. CASE StartInit
  <2>1. color' = color /\ stack' = <<Entry>> /\ Entry \in Blocks /\ color[Entry] = "WHITE"
    BY <1>2, InputFacts DEF StartInit, PhaseInv
  <2>2. \A k \in DOMAIN stack' : stack'[k] = Entry
    BY <2>1
  <2>3. \A k \in DOMAIN stack' : ~OnPath(k)'
    BY <2>1, <2>2 DEF OnPath
  <2> QED BY <2>3 DEF ChildInv
<1>3. CASE VisitBlock
  <2>1. /\ L \in Nat \ {0} /\ DOMAIN stack = 1..L /\ stack' = stack
        /\ Top \in Blocks /\ stack[L] = Top /\ color[Top] = "WHITE"
        /\ \A b \in Blocks : b # Top => color'[b] = color[b]
        /\ \A k \in 1..L : OnPath(k)' <=> OnPath(k) \/ k = L
    BY <1>1, <1>3, VisitPlaces
  <2>2. out' = out /\ out \in [Nodes -> Seq(Nodes)]
    BY <1>3 DEF VisitBlock, TypeOK
  <2>3. ASSUME NEW k \in 1..L, OnPath(k)', NEW e \in DOMAIN out[stack[k]], NEW c, c = out[stack[k]][e]
        PROVE  c = Exit \/ color'[c] = "BLACK" \/ \E j \in 1..L : j > k /\ stack[j] = c
    <3>1. k # L
      BY <2>1, <2>3 DEF EdgesInv
    <3>2. c = Exit \/ color[c] = "BLACK" \/ \E j \in 1..L : j > k /\ stack[j] = c
      BY <2>1, <2>3, <3>1 DEF ChildInv
    <3>3. c = Exit \/ c \in Blocks
      <4>1. stack[k] \in Nodes
        BY <1>0, <2>1
      <4>2. out[stack[k]] \in Seq(Nodes)
        BY <2>2, <4>1
      <4>3. c \in Nodes
        BY <2>3, <4>2, LenProperties, ElementOfSeq
      <4> QED BY <4>3 DEF Nodes
    <3> QED BY <2>1, <3>2, <3>3
  <2>4. ASSUME NEW k \in DOMAIN stack', OnPath(k)', NEW e \in DOMAIN out'[stack'[k]], NEW x, x = out'[stack'[k]][e]
        PROVE  x = Exit \/ color'[x] = "BLACK" \/ \E j \in DOMAIN stack' : j > k /\ stack'[j] = x
    <3>1. k \in 1..L /\ e \in DOMAIN out[stack[k]] /\ x = out[stack[k]][e]
      BY <2>1, <2>2, <2>4
    <3>2. x = Exit \/ color'[x] = "BLACK" \/ \E j \in 1..L : j > k /\ stack[j] = x
      BY <2>3, <2>4, <3>1
    <3> QED BY <2>1, <3>2
  <2> QED BY <2>4 DEF ChildInv
<1>4. CASE LinkSuccessor
  <2>1. PICK c, d : c = cfg[node][ei] /\ d = EdgeTarget(c)
    OBVIOUS
  <2>2. /\ L \in Nat /\ DOMAIN stack = 1..L /\ color' = color /\ c \in Blocks
        /\ \A k \in 1..L : k \in DOMAIN stack' /\ stack'[k] = stack[k] /\ (OnPath(k)' <=> OnPath(k))
        /\ \A k \in DOMAIN stack' : k \in 1..L \/ (k = L + 1 /\ ~OnPath(k)')
        /\ color[c] = "WHITE" => L + 1 \in DOMAIN stack' /\ stack'[L + 1] = c
    BY <1>1, <1>4, <2>1, LinkPlaces
  <2>3. EdgeAdded(node, d)
    BY <1>4, <2>1, LinkAddsEdge
  <2>4. ASSUME NEW k \in DOMAIN stack', OnPath(k)', NEW e \in DOMAIN out'[stack'[k]], NEW x, x = out'[stack'[k]][e]
        PROVE  x = Exit \/ color'[x] = "BLACK" \/ \E j \in DOMAIN stack' : j > k /\ stack'[j] = x
    <3>1. k \in 1..L /\ OnPath(k) /\ stack'[k] = stack[k] /\ stack[k] \in Nodes
      BY <1>0, <2>2, <2>4
    <3>2. CASE e \in DOMAIN out[stack[k]] /\ x = out[stack[k]][e]
      <4>1. x = Exit \/ color[x] = "BLACK" \/ \E j \in 1..L : j > k /\ stack[j] = x
        BY <2>2, <3>1, <3>2 DEF ChildInv
      <4> QED BY <2>2, <4>1
    <3>3. CASE x = d
      <4>1. CASE color[c] = "GRAY"
        BY <2>1, <3>3, <4>1 DEF EdgeTarget
      <4>2. CASE color[c] = "BLACK"
        BY <2>1, <2>2, <3>3, <4>2 DEF EdgeTarget
      <4>3. CASE color[c] = "WHITE"
        <5>1. d = c
          BY <2>1, <4>3 DEF EdgeTarget
        <5>2. L + 1 > k
          BY <2>2, <3>1
        <5> QED BY <2>2, <3>3, <4>3, <5>1, <5>2
      <4> QED BY <2>2, <4>1, <4>2, <4>3 DEF TypeOK
    <3>4. (e \in DOMAIN out[stack[k]] /\ x = out[stack[k]][e]) \/ x = d
      <4>1. CASE stack[k] # node
        BY <2>3, <2>4, <3>1, <4>1, AddedFacts
      <4>2. CASE stack[k] = node
        <5>1. PICK n : n = Len(out[node])
          OBVIOUS
        <5>2. /\ n \in Nat /\ DOMAIN out[node] = 1..n /\ DOMAIN out'[node] = 1..(n + 1)
              /\ \A i \in 1..n : out'[node][i] = out[node][i]
              /\ out'[node][n + 1] = d
          BY <2>3, <5>1, AddedFacts
        <5>3. e \in 1..n \/ e = n + 1
          BY <2>4, <3>1, <4>2, <5>2
        <5> QED BY <2>4, <3>1, <4>2, <5>2, <5>3
      <4> QED BY <4>1, <4>2
    <3> QED BY <3>2, <3>3, <3>4
  <2> QED BY <2>4 DEF ChildInv
<1>5. CASE PopBlock
  <2>1. /\ L \in Nat \ {0} /\ DOMAIN stack = 1..L /\ DOMAIN stack' = 1..(L - 1)
        /\ Top \in Blocks /\ stack[L] = Top /\ color'[Top] = "BLACK"
        /\ \A b \in Blocks : b # Top => color'[b] = color[b]
        /\ \A k \in 1..(L - 1) : k \in 1..L /\ k < L /\ stack'[k] = stack[k] /\ (OnPath(k)' <=> OnPath(k))
    BY <1>1, <1>5, PopPlaces
  <2>2. ASSUME NEW k \in DOMAIN stack', OnPath(k)', NEW e \in DOMAIN out'[stack'[k]], NEW x, x = out'[stack'[k]][e]
        PROVE  x = Exit \/ color'[x] = "BLACK" \/ \E j \in DOMAIN stack' : j > k /\ stack'[j] = x
    <3>1. k \in 1..L /\ k < L /\ stack'[k] = stack[k] /\ OnPath(k) /\ stack[k] \in Nodes /\ L \in 1..L
      BY <1>0, <2>1, <2>2
    <3>2. stack[k] # Top
      BY <2>1, <3>1 DEF OnPath
    <3>3. out'[stack[k]] = out[stack[k]]
      <4>1. CASE EndsFunction(Top)
        BY <1>5, <3>1, <3>2, <4>1, PopAddsEdge, AddedFacts
      <4>2. CASE ~EndsFunction(Top)
        BY <1>5, <4>2 DEF PopBlock
      <4> QED BY <4>1, <4>2
    <3>4. x = Exit \/ color[x] = "BLACK" \/ \E j \in 1..L : j > k /\ stack[j] = x
      BY <2>1, <2>2, <3>1, <3>3 DEF ChildInv
    <3>5. x = Exit \/ x \in Blocks
      <4>1. out[stack[k]] \in Seq(Nodes)
        BY <3>1 DEF TypeOK
      <4>2. x \in Nodes
        BY <2>2, <3>1, <3>3, <4>1, LenProperties, ElementOfSeq
      <4> QED BY <4>2 DEF Nodes
    <3>6. CASE x = Top
      BY <2>1, <3>6
    <3>7. CASE x # Top
      <4>1. ASSUME NEW j \in 1..L, j > k, stack[j] = x PROVE j \in DOMAIN stack' /\ stack'[j] = x
        <5>1. j # L
          BY <2>1, <3>7, <4>1
        <5>2. j \in 1..(L - 1)
          BY <2>1, <5>1
        <5> QED BY <2>1, <4>1, <5>2
      <4> QED BY <2>1, <3>4, <3>5, <3>7, <4>1
    <3> QED BY <3>6, <3>7
  <2> QED BY <2>2 DEF ChildInv
<1>6. CASE UNCHANGED <<color, stack, out>>
  BY <1>6 DEF ChildInv, OnPath
<1> QED BY <1>2, <1>3, <1>4, <1>5, <1>6
        DEF Next, vars, dagVars, NoBody, VisitDone, InitDone, TakeNode, RelaxEdge, NodeDone, Return, Finished

LEMMA RankKept ==
  ASSUME IInv, ChildInv, RankInv, [Next]_vars
  PROVE  RankInv'
<1> USE DEF IInv
<1>0. Blocks' = Blocks /\ Blocks \subseteq Nodes /\ Exit \notin Blocks
  BY InputKept, InputFacts
<1>1. PICK r \in [Blocks -> Nat], t \in Nat : Ranked(r, t)
  BY DEF RankInv
<1>2. ASSUME \A b \in Blocks : color[b] = "BLACK" <=> color'[b] = "BLACK",
             \A b \in Blocks : color[b] = "BLACK" => \A k \in DOMAIN out'[b] :
               out'[b][k] = Exit \/ (k \in DOMAIN out[b] /\ out'[b][k] = out[b][k])
      PROVE  RankInv'
  <2>1. ASSUME NEW b \in Blocks, color'[b] = "BLACK", NEW k \in DOMAIN out'[b], out'[b][k] # Exit
        PROVE  color'[out'[b][k]] = "BLACK" /\ r[out'[b][k]] < r[b]
    <3>1. color[b] = "BLACK" /\ k \in DOMAIN out[b] /\ out'[b][k] = out[b][k]
      BY <1>2, <2>1
    <3>2. out[b][k] \in Blocks
      <4>1. out[b] \in Seq(Nodes)
        BY <1>0 DEF TypeOK
      <4>2. out[b][k] \in Nodes
        BY <3>1, <4>1, LenProperties, ElementOfSeq
      <4> QED BY <2>1, <3>1, <4>2 DEF Nodes
    <3> QED BY <1>1, <1>2, <2>1, <3>1, <3>2 DEF Ranked
  <2>2. Ranked(r, t)'
    BY <1>0, <1>1, <1>2, <2>1 DEF Ranked
  <2> QED BY <1>0, <1>1, <2>2 DEF RankInv
<1>3. CASE VisitBlock
  <2>1. /\ Top \in Blocks /\ color[Top] = "WHITE" /\ color'[Top] = "GRAY"
        /\ \A b \in Blocks : b # Top => color'[b] = color[b]
    BY <1>3, VisitPlaces
  <2>2. out' = out
    BY <1>3 DEF VisitBlock
  <2> QED BY <1>2, <2>1, <2>2
<1>4. CASE LinkSuccessor
  <2>1. PICK d : d = EdgeTarget(cfg[node][ei])
    OBVIOUS
  <2>2. EdgeAdded(node, d) /\ color' = color /\ color[node] = "GRAY"
    <3>1. EdgeAdded(node, d)
      BY <1>4, <2>1, LinkAddsEdge
    <3> QED BY <1>4, <3>1 DEF LinkSuccessor, PhaseInv
  <2>3. \A b \in Blocks : color[b] = "BLACK" => out'[b] = out[b]
    BY <1>0, <2>2, AddedFacts
  <2> QED BY <1>2, <2>2, <2>3
<1>5. CASE PopBlock
  <2>1. PICK L : L = Len(stack)
    OBVIOUS
  <2>2. /\ L \in Nat \ {0} /\ DOMAIN stack = 1..L /\ L \in 1..L
        /\ Top \in Blocks /\ stack[L] = Top /\ color[Top] # "WHITE" /\ color'[Top] = "BLACK"
        /\ \A b \in Blocks : b # Top => color'[b] = color[b]
    BY <1>5, <2>1, PopPlaces
  <2>3. /\ \A b \in Blocks : b # Top => out'[b] = out[b]
        /\ \A k \in DOMAIN out'[Top] : out'[Top][k] = Exit \/ (k \in DOMAIN out[Top] /\ out'[Top][k] = out[Top][k])
    <3>1. CASE EndsFunction(Top)
      <4>1. EdgeAdded(Top, Exit)
        BY <1>5, <3>1, PopAddsEdge
      <4>2. PICK n : n = Len(out[Top])
        OBVIOUS
      <4>3. /\ \A b \in Nodes : b # Top => out'[b] = out[b]
            /\ n \in Nat /\ DOMAIN out[Top] = 1..n /\ DOMAIN out'[Top] = 1..(n + 1)
            /\ \A k \in 1..n : out'[Top][k] = out[Top][k]
            /\ out'[Top][n + 1] = Exit
        BY <4>1, <4>2, AddedFacts
      <4>4. \A k \in 1..(n + 1) : k \in 1..n \/ k = n + 1
        BY <4>3
      <4> QED BY <1>0, <4>3, <4>4
    <3>2. CASE ~EndsFunction(Top)
      BY <1>5, <3>2 DEF PopBlock
    <3> QED BY <3>1, <3>2
  <2>4. CASE color[Top] = "BLACK"
    BY <1>2, <2>2, <2>3, <2>4
  <2>5. CASE color[Top] = "GRAY"
    <3>1. PICK s \in [Blocks -> Nat] : s[Top] = t /\ \A b \in Blocks : b # Top => s[b] = r[b]
      <4>1. [r EXCEPT ![Top] = t] \in [Blocks -> Nat]
        OBVIOUS
      <4>2. [r EXCEPT ![Top] = t][Top] = t /\ \A b \in Blocks : b # Top => [r EXCEPT ![Top] = t][b] = r[b]
        BY <2>2
      <4> QED BY <4>1, <4>2
    <3>2. ASSUME NEW b \in Blocks, color[b] = "BLACK"
          PROVE  color'[b] = "BLACK" /\ b # Top /\ s[b] = r[b] /\ r[b] < t
      BY <1>1, <2>2, <2>5, <3>1, <3>2 DEF Ranked
    <3>3. ASSUME NEW b \in Blocks, NEW k \in DOMAIN out[b], out[b][k] # Exit PROVE out[b][k] \in Blocks
      <4>1. out[b] \in Seq(Nodes)
        BY <1>0 DEF TypeOK
      <4>2. out[b][k] \in Nodes
        BY <4>1, LenProperties, ElementOfSeq
      <4> QED BY <3>3, <4>2 DEF Nodes
    <3>4. ASSUME NEW k \in DOMAIN out'[Top], out'[Top][k] # Exit
          PROVE  color'[out'[Top][k]] = "BLACK" /\ s[out'[Top][k]] < s[Top]
      <4>1. PICK c : c = out[Top][k]
        OBVIOUS
      <4>2. k \in DOMAIN out[Top] /\ out'[Top][k] = c /\ c # Exit
        BY <2>3, <3>4, <4>1
      <4>3. OnPath(L)
        BY <2>2, <2>5 DEF OnPath
      <4>4. ~\E j \in 1..L : j > L
        BY <2>2
      <4>5. color[c] = "BLACK"
        <5>1. L \in DOMAIN stack /\ k \in DOMAIN out[stack[L]] /\ c = out[stack[L]][k]
          BY <2>2, <4>1, <4>2
        <5>2. c = Exit \/ color[c] = "BLACK" \/ \E j \in DOMAIN stack : j > L /\ stack[j] = c
          BY <4>3, <5>1 DEF ChildInv
        <5> QED BY <2>2, <4>2, <4>4, <5>2
      <4>6. c \in Blocks
        BY <2>2, <3>3, <4>1, <4>2
      <4> QED BY <3>1, <3>2, <4>2, <4>5, <4>6
    <3>5. ASSUME NEW b \in Blocks, b # Top, color'[b] = "BLACK", NEW k \in DOMAIN out'[b], out'[b][k] # Exit
          PROVE  color'[out'[b][k]] = "BLACK" /\ s[out'[b][k]] < s[b]
      <4>1. PICK c : c = out[b][k]
        OBVIOUS
      <4>2. k \in DOMAIN out[b] /\ out'[b][k] = c /\ c # Exit /\ color[b] = "BLACK"
        BY <2>2, <2>3, <3>5, <4>1
      <4>3. c \in Blocks
        BY <3>3, <4>1, <4>2
      <4>4. color[c] = "BLACK" /\ r[c] < r[b]
        BY <1>1, <4>1, <4>2 DEF Ranked
      <4> QED BY <3>2, <4>2, <4>3, <4>4
    <3>6. ASSUME NEW b \in Blocks, color'[b] = "BLACK" PROVE s[b] < t + 1
      BY <2>2, <3>1, <3>2, <3>6
    <3>7. Ranked(s, t + 1)'
      BY <1>0, <3>4, <3>5, <3>6 DEF Ranked
    <3> QED BY <1>0, <3>7 DEF RankInv
  <2> QED BY <2>2, <2>4, <2>5 DEF TypeOK
<1>6. CASE UNCHANGED <<color, out>>
  BY <1>2, <1>6
<1> QED BY <1>3, <1>4, <1>5, <1>6
        DEF Next, vars, dagVars, NoBody, StartInit, VisitDone, InitDone, TakeNode, RelaxEdge, NodeDone, Return, Finished

LEMMA HasEdgeKept ==
  ASSUME TypeOK, InputInv, Nodes' = Nodes, NEW b, NEW c, EdgeAdded(b, c)
  PROVE  HasEdge(c)' /\ \A n : HasEdge(n) => HasEdge(n)'
<1>1. PICK i : i = Len(out[b])
  OBVIOUS
<1>2. /\ \A m \in Nodes : m # b => out'[m] = out[m]
      /\ i \in Nat /\ DOMAIN out[b] = 1..i /\ DOMAIN out'[b] = 1..(i + 1)
      /\ \A k \in 1..i : out'[b][k] = out[b][k]
      /\ out'[b][i + 1] = c
  BY <1>1, AddedFacts
<1>3. b \in Nodes /\ i + 1 \in DOMAIN out'[b] /\ 1..i \subseteq 1..(i + 1)
  BY <1>2 DEF EdgeAdded, Nodes
<1>4. ASSUME NEW n, HasEdge(n) PROVE HasEdge(n)'
  <2>1. PICK m \in Nodes : \E k \in DOMAIN out[m] : out[m][k] = n
    BY <1>4 DEF HasEdge
  <2> PICK k \in DOMAIN out[m] : out[m][k] = n
    BY <2>1
  <2>2. k \in DOMAIN out'[m] /\ out'[m][k] = n
    BY <1>2, <1>3, <2>1
  <2> QED BY <2>1, <2>2 DEF HasEdge
<1> QED BY <1>2, <1>3, <1>4 DEF HasEdge

LEMMA EnteredKept ==
  ASSUME IInv, EnteredInv, [Next]_vars
  PROVE  EnteredInv'
<1> USE DEF IInv
<1>0. Blocks' = Blocks /\ Nodes' = Nodes
  BY InputKept
<1>1. PICK L : L = Len(stack)
  OBVIOUS
<1>2. CASE StartInit
  <2>1. stack' = <<Entry>> /\ color' = color /\ out' = out
    BY <1>2 DEF StartInit
  <2>2. \A k \in DOMAIN stack' : stack'[k] = Entry
    BY <2>1
  <2> QED BY <1>0, <2>1, <2>2 DEF EnteredInv, HasEdge
<1>3. CASE VisitBlock
  <2>1. /\ L \in DOMAIN stack /\ stack' = stack /\ stack[L] = Top
        /\ \A b \in Blocks : b # Top => color'[b] = color[b]
    BY <1>1, <1>3, VisitPlaces
  <2>2. \A n : HasEdge(n)' <=> HasEdge(n)
    BY <1>0, <1>3 DEF VisitBlock, HasEdge
  <2> QED BY <1>0, <2>1, <2>2 DEF EnteredInv
<1>4. CASE LinkSuccessor
  <2>1. PICK c, d : c = cfg[node][ei] /\ d = EdgeTarget(c)
    OBVIOUS
  <2>2. /\ L \in Nat /\ DOMAIN stack = 1..L /\ color' = color
        /\ \A k \in 1..L : stack'[k] = stack[k]
        /\ \A k \in DOMAIN stack' : k \in 1..L \/ (k = L + 1 /\ stack'[k] = c /\ color[c] = "WHITE")
    BY <1>1, <1>4, <2>1, LinkPlaces
  <2>3. HasEdge(d)' /\ \A n : HasEdge(n) => HasEdge(n)'
    BY <1>0, <1>4, <2>1, LinkAddsEdge, HasEdgeKept
  <2>4. color[c] = "WHITE" => d = c
    BY <2>1 DEF EdgeTarget
  <2> QED BY <1>0, <2>2, <2>3, <2>4 DEF EnteredInv
<1>5. CASE PopBlock
  <2>1. /\ DOMAIN stack = 1..L /\ DOMAIN stack' = 1..(L - 1)
        /\ Top \in Blocks /\ color[Top] # "WHITE"
        /\ \A b \in Blocks : b # Top => color'[b] = color[b]
        /\ \A k \in 1..(L - 1) : k \in 1..L /\ stack'[k] = stack[k]
    BY <1>1, <1>5, PopPlaces
  <2>2. \A n : HasEdge(n) => HasEdge(n)'
    <3>1. CASE EndsFunction(Top)
      BY <1>0, <1>5, <3>1, PopAddsEdge, HasEdgeKept
    <3>2. CASE ~EndsFunction(Top)
      BY <1>0, <1>5, <3>2 DEF PopBlock, HasEdge
    <3> QED BY <3>1, <3>2
  <2> QED BY <1>0, <2>1, <2>2 DEF EnteredInv
<1>6. CASE UNCHANGED <<color, stack, out>>
  BY <1>0, <1>6 DEF EnteredInv, HasEdge
<1> QED BY <1>2, <1>3, <1>4, <1>5, <1>6
        DEF Next, vars, dagVars, NoBody, VisitDone, InitDone, TakeNode, RelaxEdge, NodeDone, Return, Finished

LEMMA WalkKept ==
  ASSUME IInv, WInv, [Next]_vars
  PROVE  WInv'
BY StackKept, RouteKept, ReachedKept, OutKept, ChildKept, RankKept, EnteredKept DEF WInv

-----------------------------------------------------------------------------
(* What the search keeps *)

\* An edge of a finished block leads to the exit or to a finished block.
LEMMA EndsFinished ==
  ASSUME IInv, WInv, NEW b \in Blocks, color[b] = "BLACK", NEW k \in DOMAIN out[b]
  PROVE  out[b][k] = Exit \/ (out[b][k] \in Blocks /\ color[out[b][k]] = "BLACK")
<1> USE DEF IInv, WInv
<1>1. out[b] \in Seq(Nodes)
  BY InputFacts DEF TypeOK
<1>2. out[b][k] \in Nodes
  BY <1>1, LenProperties, ElementOfSeq
<1>3. out[b][k] # Exit => color[out[b][k]] = "BLACK"
  BY DEF RankInv, Ranked
<1> QED BY <1>2, <1>3 DEF Nodes

LEMMA ServedKept ==
  ASSUME IInv, WInv, ServedInv, [Next]_vars
  PROVE  ServedInv'
<1> USE DEF IInv
<1>0. cfg' = cfg /\ Nodes' = Nodes
  BY InputKept
<1>1. CASE InitDone
  <2>1. /\ queue' = <<Entry>> /\ settled = {} /\ settled' = {} /\ color' = color /\ out' = out /\ in_cnt' = in_cnt
        /\ pc # "relax" /\ stack = <<>> /\ cfg # <<>>
    BY <1>1 DEF InitDone, PhaseInv, Walking, dagVars
  <2>2. ToSet(queue') = {Entry}
    BY <2>1 DEF ToSet
  <2>3. color[Entry] = "BLACK"
    BY <1>1, <2>1 DEF WInv, StackInv, InitDone
  <2>4. ASSUME NEW n \in Nodes, HasEdge(n) PROVE in_cnt[n] # 0
    <3>1. PICK m \in Nodes : \E k \in DOMAIN out[m] : out[m][k] = n
      BY <2>4 DEF HasEdge
    <3>2. PICK k \in DOMAIN out[m] : out[m][k] = n
      BY <3>1
    <3>3. out[m] \in Seq(Nodes)
      BY DEF TypeOK
    <3>4. k \in Nat
      BY <3>3, LenProperties
    <3>5. <<m, k>> \in Waiting(n)
      BY <2>1, <3>2, <3>4 DEF Waiting, Relaxed
    <3> QED BY <3>5, CountFacts
  <2>5. \A n \in Nodes : HasEdge(n)' <=> HasEdge(n)
    BY <1>0, <2>1 DEF HasEdge
  <2>6. \A n \in Nodes : ~(HasEdge(n)' /\ in_cnt'[n] = 0)
    BY <2>1, <2>4, <2>5
  <2> QED BY <1>0, <2>1, <2>2, <2>3, <2>6 DEF ServedInv
<1>2. CASE TakeNode
  <2>1. /\ queue' = Tail(queue) /\ settled' = settled \cup {Head(queue)} /\ color' = color /\ out' = out
        /\ in_cnt' = in_cnt /\ pc = "take"
    BY <1>2 DEF TakeNode, QueueAfterTake, dagVars
  <2>2. /\ Head(queue) = queue[1] /\ 1 \in DOMAIN queue /\ DOMAIN queue = 1..Len(queue) /\ Len(queue) \in Nat
        /\ DOMAIN Tail(queue) = 1..(Len(queue) - 1)
        /\ \A k \in DOMAIN Tail(queue) : k + 1 \in DOMAIN queue /\ Tail(queue)[k] = queue[k + 1]
    BY <1>2, TakeFacts DEF TakeNode
  <2>3. \A k \in DOMAIN queue : k = 1 \/ (k - 1 \in DOMAIN Tail(queue) /\ k - 1 + 1 = k)
    BY <2>2
  <2>4. ToSet(queue) = {Head(queue)} \cup ToSet(Tail(queue))
    <3>1. ASSUME NEW x \in ToSet(queue) PROVE x \in {Head(queue)} \cup ToSet(Tail(queue))
      <4>1. PICK k \in DOMAIN queue : x = queue[k]
        BY DEF ToSet
      <4>2. CASE k # 1
        <5>1. k - 1 \in DOMAIN Tail(queue) /\ Tail(queue)[k - 1] = queue[k]
          BY <2>2, <2>3, <4>2
        <5> QED BY <4>1, <5>1 DEF ToSet
      <4> QED BY <2>2, <4>1, <4>2
    <3>2. ASSUME NEW x \in ToSet(Tail(queue)) PROVE x \in ToSet(queue)
      BY <2>2 DEF ToSet
    <3>3. Head(queue) \in ToSet(queue)
      BY <2>2 DEF ToSet
    <3> QED BY <3>1, <3>2, <3>3
  <2>5. settled' \cup ToSet(queue') = settled \cup ToSet(queue)
    BY <2>1, <2>4
  <2>6. Searching' => Searching
    BY <1>0, <2>1 DEF Searching
  <2>7. \A n \in Nodes : HasEdge(n)' <=> HasEdge(n)
    BY <1>0, <2>1 DEF HasEdge
  <2> QED BY <1>0, <2>1, <2>5, <2>6, <2>7 DEF ServedInv
<1>3. CASE RelaxEdge
  <2>1. PICK c : c = out[node][ei]
    OBVIOUS
  <2>2. c \in Nodes /\ node \in Blocks /\ ei \in DOMAIN out[node]
    BY <1>3, <2>1, RelaxFacts DEF RelaxEdge
  <2>3. /\ settled' = settled /\ color' = color /\ out' = out /\ pc = "relax"
        /\ in_cnt' = [in_cnt EXCEPT ![c] = IF @ = 0 THEN 0 ELSE @ - 1]
        /\ queue' = IF Ready(c) THEN Append(queue, c) ELSE queue
        /\ in_cnt \in [Nodes -> Nat] /\ queue \in Seq(Nodes)
    BY <1>3, <2>1 DEF RelaxEdge, TypeOK
  <2>4. Searching
    BY <2>3 DEF PhaseInv, Searching
  <2>5. node \in settled /\ color[node] = "BLACK"
    <3>1. node \in settled /\ node # Exit
      BY <2>2, <2>3, InputFacts DEF PhaseInv
    <3> QED BY <2>4, <3>1 DEF ServedInv
  <2>6. c = Exit \/ color[c] = "BLACK"
    BY <2>1, <2>2, <2>5, EndsFinished
  <2>7. Ready(c) => ToSet(queue') = ToSet(queue) \cup {c}
    <3>1. SUFFICES ASSUME Ready(c) PROVE ToSet(queue') = ToSet(queue) \cup {c}
      OBVIOUS
    <3>2. PICK n : n = Len(queue)
      OBVIOUS
    <3>3. /\ n \in Nat /\ DOMAIN queue = 1..n /\ DOMAIN queue' = 1..(n + 1)
          /\ \A i \in 1..n : queue'[i] = queue[i]
          /\ queue'[n + 1] = c
      BY <2>2, <2>3, <3>1, <3>2, AppendOf
    <3>4. (\A i \in 1..(n + 1) : i \in 1..n \/ i = n + 1) /\ 1..n \subseteq 1..(n + 1) /\ n + 1 \in 1..(n + 1)
      BY <3>3
    <3> QED BY <3>3, <3>4 DEF ToSet
  <2>8. ASSUME NEW n \in Nodes, HasEdge(n), in_cnt'[n] = 0 PROVE n \in settled' \cup ToSet(queue')
    <3>1. CASE n # c
      <4>1. in_cnt[n] = 0
        BY <2>3, <2>8, <3>1
      <4> QED BY <2>3, <2>4, <2>7, <2>8, <4>1 DEF ServedInv
    <3>2. CASE n = c
      <4>1. in_cnt[c] \in Nat /\ (IF in_cnt[c] = 0 THEN 0 ELSE in_cnt[c] - 1) = 0
        BY <2>2, <2>3, <2>8, <3>2
      <4>2. Ready(c)
        BY <4>1 DEF Ready
      <4> QED BY <2>7, <3>2, <4>2
    <3> QED BY <3>1, <3>2
  <2>9. settled \cup ToSet(queue) \subseteq settled' \cup ToSet(queue')
    BY <2>3, <2>7
  <2>10. \A n \in settled' \cup ToSet(queue') : n = Exit \/ color'[n] = "BLACK"
    BY <2>3, <2>4, <2>6, <2>7 DEF ServedInv
  <2>11. \A n \in Nodes : HasEdge(n)' <=> HasEdge(n)
    BY <1>0, <2>3 DEF HasEdge
  <2> QED BY <1>0, <2>4, <2>8, <2>9, <2>10, <2>11 DEF ServedInv
<1>4. CASE UNCHANGED <<color, out, in_cnt, queue, settled>> /\ (Searching' => Searching)
  <2>1. \A n \in Nodes : HasEdge(n)' <=> HasEdge(n)
    BY <1>0, <1>4 DEF HasEdge
  <2> QED BY <1>0, <1>4, <2>1 DEF ServedInv
<1>5. CASE ~Searching'
  BY <1>5 DEF ServedInv
<1> QED BY <1>0, <1>1, <1>2, <1>3, <1>4, <1>5
        DEF Next, vars, dagVars, costVars, Searching, NoBody, StartInit, VisitBlock, LinkSuccessor, VisitDone, PopBlock,
            NodeDone, Return, Finished

\* What was brought to a node changes as its edges are counted down, and only then.
LEMMA BroughtKept ==
  ASSUME IInv, [Next]_vars, ~RelaxEdge, out' = out
  PROVE  \A n : BroughtTo(n)' = BroughtTo(n)
<1> USE DEF IInv
<1>1. settled \subseteq Nodes /\ settled' \subseteq Nodes
  BY TypesKept, InputKept DEF TypeOK
<1>2. ASSUME NEW n, NEW m PROVE m \in BroughtTo(n)' <=> m \in BroughtTo(n)
  <2>1. m \in BroughtTo(n) <=> m \in Nodes /\ \E k \in DOMAIN out[m] : out[m][k] = n /\ Relaxed(m, k)
    BY <1>1 DEF BroughtTo, Relaxed
  <2>2. m \in BroughtTo(n)' <=> m \in Nodes /\ \E k \in DOMAIN out[m] : out[m][k] = n /\ Relaxed(m, k)'
    BY <1>1 DEF BroughtTo, Relaxed
  <2> QED BY <2>1, <2>2, RelaxedKept
<1> QED BY <1>2

LEMMA BroughtMore ==
  ASSUME IInv, RelaxEdge, NEW c, c = out[node][ei]
  PROVE  /\ BroughtTo(c)' = BroughtTo(c) \cup {node}
         /\ \A n : n # c => BroughtTo(n)' = BroughtTo(n)
<1> USE DEF IInv
<1>1. /\ settled \subseteq Nodes /\ settled' = settled /\ out' = out /\ node \in settled
      /\ \A m \in Nodes : \A k \in DOMAIN out[m] : k \in Nat
  <2>1. settled \subseteq Nodes /\ settled' = settled /\ out' = out /\ node \in settled
    BY DEF TypeOK, RelaxEdge, PhaseInv
  <2>2. \A m \in Nodes : out[m] \in Seq(Nodes)
    BY DEF TypeOK
  <2> QED BY <2>1, <2>2, LenProperties
<1>2. ei \in DOMAIN out[node]
  BY RelaxFacts DEF RelaxEdge
<1>3. ASSUME NEW n, NEW m PROVE m \in BroughtTo(n)' <=> m \in BroughtTo(n) \/ (n = c /\ m = node)
  <2>1. m \in BroughtTo(n) <=> m \in settled /\ \E k \in DOMAIN out[m] : out[m][k] = n /\ Relaxed(m, k)
    BY DEF BroughtTo
  <2>2. m \in BroughtTo(n)' <=> m \in settled /\ \E k \in DOMAIN out[m] : out[m][k] = n /\ Relaxed(m, k)'
    BY <1>1 DEF BroughtTo
  <2>3. m \in settled => \A k \in DOMAIN out[m] : Relaxed(m, k)' <=> Relaxed(m, k) \/ (m = node /\ k = ei)
    BY <1>1, EdgeRelaxed
  <2> QED BY <1>1, <1>2, <2>1, <2>2, <2>3
<1>4. BroughtTo(c)' = BroughtTo(c) \cup {node}
  BY <1>3
<1>5. ASSUME NEW n, n # c PROVE BroughtTo(n)' = BroughtTo(n)
  BY <1>3, <1>5
<1> QED BY <1>4, <1>5

\* The cost of n, told from what was brought to it.
CostOf(n, c) ==
  /\ cost[n] = IF n \in settled \ {Exit} THEN c + BlockCost(n) ELSE c
  /\ \A m \in BroughtTo(n) : cost[m] <= c
  /\ (c = 0 /\ BroughtTo(n) = {}) \/ \E m \in BroughtTo(n) : c = cost[m]

LEMMA CostKept ==
  ASSUME IInv, CostInv, [Next]_vars
  PROVE  CostInv'
<1> USE DEF IInv
<1>0. Nodes' = Nodes /\ \A n : BlockCost(n)' = BlockCost(n)
  BY InputKept DEF BlockCost
<1>1. \A n \in Nodes : \E c \in Nat : CostOf(n, c)
  BY DEF CostInv, CostOf
<1>2. SUFFICES /\ Walking' => \A n \in Nodes : cost'[n] = 0
               /\ \A n \in Nodes : \E c \in Nat : CostOf(n, c)'
  BY <1>0 DEF CostInv, CostOf
<1>3. CASE Walking'
  <2>1. Walking /\ cost' = cost /\ settled' = {}
    BY <1>3, PhaseKept
       DEF PhaseInv, Walking, Next, vars, dagVars, costVars, cursorVars, NoBody, StartInit, VisitBlock, LinkSuccessor, VisitDone,
           PopBlock, InitDone, TakeNode, RelaxEdge, NodeDone, Return, Finished
  <2>2. \A n \in Nodes : cost'[n] = 0
    BY <2>1 DEF CostInv
  <2>3. ASSUME NEW n \in Nodes PROVE CostOf(n, 0)'
    <3>1. BroughtTo(n)' = {}
      BY <2>1 DEF BroughtTo
    <3> QED BY <2>1, <2>2, <3>1 DEF CostOf
  <2> QED BY <2>2, <2>3
<1>4. CASE UNCHANGED <<out, cost, settled>> /\ ~Walking' /\ ~RelaxEdge
  <2>1. \A n : BroughtTo(n)' = BroughtTo(n)
    BY <1>4, BroughtKept
  <2>2. \A n \in Nodes : \A c \in Nat : CostOf(n, c) => CostOf(n, c)'
    BY <1>0, <1>4, <2>1 DEF CostOf
  <2> QED BY <1>1, <1>4, <2>2
<1>5. CASE TakeNode
  <2>1. PICK h : h = Head(queue)
    OBVIOUS
  <2>2. h \in Nodes /\ h \notin settled
    BY <1>5, <2>1, TakeFacts DEF TakeNode, QueueInv
  <2>3. /\ out' = out /\ settled' = settled \cup {h} /\ ~RelaxEdge /\ ~Walking'
        /\ h = Exit => cost' = cost
        /\ h # Exit => cost' = [cost EXCEPT ![h] = @ + BlockCost(h)]
    BY <1>5, <2>1 DEF TakeNode, dagVars, RelaxEdge, Walking
  <2>4. \A n : BroughtTo(n)' = BroughtTo(n)
    BY <2>3, BroughtKept
  <2>5. cost \in [Nodes -> Nat] /\ settled \subseteq Nodes /\ \A n : BroughtTo(n) \subseteq settled
    BY DEF TypeOK, BroughtTo
  <2>6. \A n \in Nodes : n # h \/ h = Exit => cost'[n] = cost[n]
    BY <2>3, <2>5
  <2>8. ASSUME NEW n \in Nodes, NEW c \in Nat, CostOf(n, c) PROVE CostOf(n, c)'
    <3>1. \A m \in BroughtTo(n) : cost'[m] = cost[m]
      BY <2>2, <2>5, <2>6
    <3>2. cost'[n] = IF n \in settled' \ {Exit} THEN c + BlockCost(n) ELSE c
      <4>1. CASE n # h \/ h = Exit
        BY <2>3, <2>6, <2>8, <4>1 DEF CostOf
      <4>2. CASE n = h /\ h # Exit
        <5>1. cost[h] = c
          BY <2>2, <2>8, <4>2 DEF CostOf
        <5>2. cost'[h] = cost[h] + BlockCost(h)
          BY <2>2, <2>3, <2>5, <4>2
        <5> QED BY <2>3, <4>2, <5>1, <5>2
      <4> QED BY <4>1, <4>2
    <3> QED BY <1>0, <2>4, <2>8, <3>1, <3>2 DEF CostOf
  <2> QED BY <1>1, <2>3, <2>8
<1>6. CASE RelaxEdge
  <2>1. PICK x : x = out[node][ei]
    OBVIOUS
  <2>2. x \in Nodes /\ node \in Nodes
    BY <1>6, <2>1, RelaxFacts DEF RelaxEdge
  <2>3. x \notin settled
    <3>1. <<node, ei>> \in Waiting(x)
      BY <1>6, <2>1, WaitingLess, InputKept
    <3> QED BY <2>2, <3>1, CountFacts DEF QueueInv
  <2>4. /\ settled' = settled /\ ~Walking' /\ node \in settled
        /\ cost' = [cost EXCEPT ![x] = IF cost[x] < cost[node] THEN cost[node] ELSE cost[x]]
    BY <1>6, <2>1 DEF RelaxEdge, Dearer, Walking, PhaseInv
  <2>5. /\ cost \in [Nodes -> Nat] /\ \A n : BroughtTo(n) \subseteq settled
        /\ settled \subseteq Nodes
    BY DEF TypeOK, BroughtTo
  <2>6. /\ cost'[x] = IF cost[x] < cost[node] THEN cost[node] ELSE cost[x]
        /\ \A n \in Nodes : n # x => cost'[n] = cost[n]
    BY <2>2, <2>4, <2>5
  <2>7. \A m \in settled : cost'[m] = cost[m]
    BY <2>3, <2>5, <2>6
  <2>8. /\ BroughtTo(x)' = BroughtTo(x) \cup {node}
        /\ \A n : n # x => BroughtTo(n)' = BroughtTo(n)
    BY <1>6, <2>1, BroughtMore
  <2>9. ASSUME NEW n \in Nodes, n # x, NEW c \in Nat, CostOf(n, c) PROVE CostOf(n, c)'
    <3>1. \A m \in BroughtTo(n) : cost'[m] = cost[m]
      BY <2>5, <2>7
    <3> QED BY <1>0, <2>4, <2>6, <2>8, <2>9, <3>1 DEF CostOf
  <2>10. \E c \in Nat : CostOf(x, c)'
    <3>1. cost[x] \in Nat /\ cost[node] \in Nat /\ cost'[node] = cost[node]
      BY <2>2, <2>4, <2>5, <2>7
    <3>2. /\ \A m \in BroughtTo(x) : cost'[m] = cost[m] /\ cost[m] \in Nat /\ cost[m] <= cost[x]
          /\ (cost[x] = 0 /\ BroughtTo(x) = {}) \/ \E m \in BroughtTo(x) : cost[x] = cost'[m]
      <4>1. PICK c \in Nat : CostOf(x, c)
        BY <1>1, <2>2
      <4>2. c = cost[x]
        BY <2>3, <4>1 DEF CostOf
      <4>3. \A m \in BroughtTo(x) : cost'[m] = cost[m] /\ cost[m] \in Nat
        BY <2>5, <2>7
      <4> QED BY <4>1, <4>2, <4>3 DEF CostOf
    <3>3. cost'[x] \in Nat /\ cost[x] <= cost'[x] /\ cost[node] <= cost'[x]
      BY <2>6, <3>1
    <3>4. \A m \in BroughtTo(x) \cup {node} : cost'[m] <= cost'[x]
      BY <3>1, <3>2, <3>3
    <3>5. \E m \in BroughtTo(x) \cup {node} : cost'[x] = cost'[m]
      <4>1. CASE cost[x] < cost[node]
        BY <2>6, <3>1, <4>1
      <4>2. CASE ~(cost[x] < cost[node]) /\ BroughtTo(x) # {}
        BY <2>6, <3>2, <4>2
      <4>3. CASE ~(cost[x] < cost[node]) /\ BroughtTo(x) = {}
        <5>1. cost'[x] = 0 /\ cost[node] = 0
          BY <2>6, <3>1, <3>2, <4>3
        <5> QED BY <3>1, <5>1
      <4> QED BY <4>1, <4>2, <4>3
    <3>6. PICK c \in Nat : c = cost'[x]
      BY <3>3
    <3>7. CostOf(x, c)'
      BY <2>3, <2>4, <2>8, <3>4, <3>5, <3>6 DEF CostOf
    <3> QED BY <3>7
  <2> QED BY <1>1, <2>4, <2>9, <2>10
<1> QED BY <1>3, <1>4, <1>5, <1>6
        DEF Next, vars, dagVars, costVars, cursorVars, Walking, RelaxEdge, NoBody, StartInit, VisitBlock, LinkSuccessor, VisitDone,
            PopBlock, InitDone, NodeDone, Return, Finished

-----------------------------------------------------------------------------
(* Costs of paths *)

\* The recursion that adds up has a solution, put together from finite ones.
LEMMA SumsExist ==
  ASSUME NEW K
  PROVE  \E g : g = [n \in Nat |-> IF n = 0 THEN 0 ELSE g[n - 1] + K[n]]
<1> DEFINE Sums(f, m) == f[0] = 0 /\ \A n \in 1..m : f[n] = f[n - 1] + K[n]
           Unsummed == {m \in Nat : ~\E f : Sums(f, m)}
<1>1. ASSUME NEW m \in Nat, NEW f, Sums(f, m) PROVE \E h : Sums(h, m + 1)
  <2> DEFINE h == [n \in 0..(m + 1) |-> IF n <= m THEN f[n] ELSE f[m] + K[m + 1]]
  <2>1. h[0] = f[0]
    OBVIOUS
  <2>2. ASSUME NEW n \in 1..(m + 1) PROVE h[n] = h[n - 1] + K[n]
    <3>1. CASE n \in 1..m
      <4>1. n \in 0..(m + 1) /\ n - 1 \in 0..(m + 1) /\ n <= m /\ n - 1 <= m
        BY <3>1
      <4>2. h[n] = f[n] /\ h[n - 1] = f[n - 1]
        BY <4>1
      <4> HIDE DEF h
      <4> QED BY <1>1, <3>1, <4>2
    <3>2. CASE n = m + 1
      <4>1. n \in 0..(m + 1) /\ n - 1 \in 0..(m + 1) /\ ~(n <= m) /\ n - 1 <= m /\ n - 1 = m
        BY <3>2
      <4>2. h[n] = f[m] + K[m + 1] /\ h[n - 1] = f[m]
        BY <4>1
      <4> HIDE DEF h
      <4> QED BY <3>2, <4>2
    <3> QED BY <3>1, <3>2
  <2> HIDE DEF h
  <2> QED BY <1>1, <2>1, <2>2
<1>2. \A m \in Nat : \E f : Sums(f, m)
  <2> SUFFICES ASSUME Unsummed # {} PROVE FALSE
    OBVIOUS
  <2>1. PICK m \in Unsummed : \A k \in Unsummed : m <= k
    BY LeastNatural
  <2>2. CASE m = 0
    <3>1. [n \in {0} |-> 0][0] = 0 /\ 1..0 = {}
      OBVIOUS
    <3>2. Sums([n \in {0} |-> 0], 0)
      BY <3>1
    <3> QED BY <2>1, <2>2, <3>2
  <2>3. CASE m # 0
    <3>1. m - 1 \in Nat /\ m - 1 + 1 = m /\ ~(m <= m - 1)
      BY <2>1, <2>3
    <3>2. m - 1 \notin Unsummed
      BY <2>1, <3>1
    <3> HIDE DEF Sums
    <3>3. PICK f : Sums(f, m - 1)
      BY <3>1, <3>2
    <3>4. \E h : Sums(h, m)
      <4> PICK k \in Nat : k = m - 1
        BY <3>1
      <4>1. \E h : Sums(h, k + 1)
        BY <1>1, <3>3
      <4> QED BY <3>1, <4>1
    <3> QED BY <2>1, <3>4
  <2> QED BY <2>2, <2>3
<1>3. ASSUME NEW f, NEW h, NEW m \in Nat, Sums(f, m), Sums(h, m) PROVE f[m] = h[m]
  <2> DEFINE Differ == {n \in 0..m : f[n] # h[n]}
  <2> SUFFICES ASSUME Differ # {} PROVE FALSE
    OBVIOUS
  <2>1. PICK n \in Differ : \A k \in Differ : n <= k
    <3>1. Differ \subseteq Nat
      OBVIOUS
    <3> HIDE DEF Differ
    <3> QED BY <3>1, LeastNatural
  <2>2. n # 0
    BY <1>3, <2>1
  <2>3. n \in 1..m /\ n - 1 \in 0..m /\ ~(n <= n - 1)
    BY <2>1, <2>2
  <2>4. f[n - 1] = h[n - 1]
    BY <2>1, <2>3
  <2>5. f[n] = f[n - 1] + K[n] /\ h[n] = h[n - 1] + K[n]
    BY <1>3, <2>3
  <2> QED BY <2>1, <2>4, <2>5
<1> DEFINE F(m) == CHOOSE f : Sums(f, m)
           g == [n \in Nat |-> F(n)[n]]
<1>4. ASSUME NEW m \in Nat PROVE Sums(F(m), m)
  <2> HIDE DEF Sums
  <2> QED BY <1>2
<1> HIDE DEF F
<1>5. ASSUME NEW n \in Nat PROVE g[n] = IF n = 0 THEN 0 ELSE g[n - 1] + K[n]
  <2>1. CASE n = 0
    BY <1>4, <2>1
  <2>2. CASE n # 0
    <3>1. PICK k \in Nat : k = n - 1 /\ n = k + 1
      BY <2>2
    <3>2. n \in 1..n /\ 1..k \subseteq 1..n
      BY <3>1
    <3>3. F(n)[n] = F(n)[k] + K[n]
      BY <1>4, <3>1, <3>2
    <3>4. Sums(F(n), k) /\ Sums(F(k), k)
      BY <1>4, <3>2
    <3>5. F(n)[k] = F(k)[k]
      <4> HIDE DEF Sums
      <4> QED BY <1>3, <3>4
    <3> QED BY <2>2, <3>1, <3>3, <3>5
  <2> QED BY <2>1, <2>2
<1>6. g = [n \in Nat |-> IF n = 0 THEN 0 ELSE g[n - 1] + K[n]]
  <2>1. g = [n \in Nat |-> g[n]]
    OBVIOUS
  <2> HIDE DEF g
  <2> QED BY <1>5, <2>1
<1> HIDE DEF g
<1> QED BY <1>6

LEMMA CostsSummed ==
  ASSUME NEW p
  PROVE  /\ CostsUpTo(p)[0] = 0
         /\ \A n \in Nat \ {0} : CostsUpTo(p)[n] = CostsUpTo(p)[n - 1] + KnownCosts(p[n])
<1> DEFINE K == [n \in Nat |-> KnownCosts(p[n])]
           S == CostsUpTo(p)
<1>1. PICK g : g = [n \in Nat |-> IF n = 0 THEN 0 ELSE g[n - 1] + K[n]]
  <2> HIDE DEF K
  <2> QED BY SumsExist
<1>2. g = [n \in Nat |-> IF n = 0 THEN 0 ELSE g[n - 1] + KnownCosts(p[n])]
  BY <1>1
<1>3. S = [n \in Nat |-> IF n = 0 THEN 0 ELSE S[n - 1] + KnownCosts(p[n])]
  BY <1>2 DEF CostsUpTo
<1> HIDE DEF S
<1>4. \A n \in Nat : S[n] = IF n = 0 THEN 0 ELSE S[n - 1] + KnownCosts(p[n])
  BY <1>3
<1>5. S[0] = 0 /\ \A n \in Nat \ {0} : S[n] = S[n - 1] + KnownCosts(p[n])
  BY <1>4
<1> QED BY <1>5 DEF S

\* Paths that begin alike cost the same up to there.
LEMMA CostsAlike ==
  ASSUME NEW p, NEW q, NEW m \in Nat, \A k \in 1..m : p[k] = q[k]
  PROVE  CostsUpTo(p)[m] = CostsUpTo(q)[m]
<1> DEFINE Differ == {n \in 0..m : CostsUpTo(p)[n] # CostsUpTo(q)[n]}
<1> SUFFICES ASSUME Differ # {} PROVE FALSE
  OBVIOUS
<1>1. PICK n \in Differ : \A k \in Differ : n <= k
  <2>1. Differ \subseteq Nat
    OBVIOUS
  <2> HIDE DEF Differ
  <2> QED BY <2>1, LeastNatural
<1>2. n # 0
  BY <1>1, CostsSummed
<1>3. n \in 1..m /\ n - 1 \in 0..m /\ ~(n <= n - 1) /\ n \in Nat \ {0}
  BY <1>1, <1>2
<1>4. CostsUpTo(p)[n - 1] = CostsUpTo(q)[n - 1]
  BY <1>1, <1>3
<1>5. p[n] = q[n]
  BY <1>3
<1> QED BY <1>1, <1>3, <1>4, <1>5, CostsSummed

LEMMA KnownIsCost == \A b : KnownCosts(b) = BlockCost(b)
BY DEF KnownCosts, KnownCost, BlockCost, getBasicBlockCost, Added, InstCost, FoldLeft, MapThenFoldSet

-----------------------------------------------------------------------------
(* What the search has found when it ends *)

Ended == IInv /\ WInv /\ SInv /\ pc = "done" /\ cfg # <<>>

LEMMA EndFacts ==
  ASSUME Ended
  PROVE  /\ TypeOK /\ InputInv /\ IInv /\ WInv /\ SInv
         /\ queue = <<>> /\ max = cost[Exit] /\ Entry \in Blocks
         /\ color[Entry] = "BLACK" /\ \A b \in Blocks : color[b] # "WHITE" => color[b] = "BLACK"
         /\ Entry \in settled
         /\ \A n \in Nodes : HasEdge(n) /\ in_cnt[n] = 0 => n \in settled
         /\ \A n \in settled : n \in Nodes /\ (n = Exit \/ color[n] = "BLACK") /\ in_cnt[n] = 0
         /\ \A m, k : Relaxed(m, k) <=> m \in settled
<1> USE DEF Ended, IInv
<1>1. queue = <<>> /\ max = cost[Exit] /\ stack = <<>> /\ Entry \in Blocks
  BY InputFacts DEF PhaseInv
<1>2. ASSUME NEW b \in Blocks, color[b] # "WHITE" PROVE color[b] = "BLACK"
  <2>1. DOMAIN stack = {}
    BY <1>1
  <2>2. color[b] # "GRAY"
    BY <2>1 DEF PathInv, GrayBlocks
  <2> QED BY <1>2, <2>2 DEF TypeOK
<1>3. color[Entry] = "BLACK"
  BY <1>1 DEF WInv, StackInv
<1>4. ToSet(queue) = {}
  BY <1>1 DEF ToSet
<1>5. /\ Entry \in settled
      /\ \A n \in Nodes : HasEdge(n) /\ in_cnt[n] = 0 => n \in settled
      /\ \A n \in settled : n = Exit \/ color[n] = "BLACK"
  BY <1>4 DEF SInv, ServedInv, Searching
<1>6. \A n \in settled : n \in Nodes /\ in_cnt[n] = 0
  BY DEF TypeOK, QueueInv
<1>7. \A m, k : Relaxed(m, k) <=> m \in settled
  BY DEF Relaxed
<1> QED BY <1>1, <1>2, <1>3, <1>5, <1>6, <1>7

\* The source of an edge is a finished block.
LEMMA SourceFinished ==
  ASSUME Ended, NEW m \in Nodes, NEW k \in DOMAIN out[m]
  PROVE  m \in Blocks /\ color[m] = "BLACK" /\ k \in Nat
<1> USE DEF IInv
<1>0. IInv
  BY DEF Ended
<1>1. out[m] \in Seq(Nodes)
  BY <1>0 DEF TypeOK
<1>2. k \in 1..Len(out[m]) /\ Len(out[m]) \in Nat
  BY <1>1, LenProperties
<1>3. out[m] # <<>>
  BY <1>2
<1>4. m # Exit /\ m \in Blocks
  BY <1>0, <1>3 DEF EdgesInv, Nodes
<1>5. color[m] # "WHITE"
  BY <1>0, <1>3, <1>4 DEF EdgesInv
<1> QED BY <1>2, <1>4, <1>5, EndFacts

\* The topological order takes every finished block: one that it did not take
\* would wait for one of higher rank.
LEMMA FinishedTaken ==
  ASSUME Ended, NEW b \in Blocks, color[b] = "BLACK"
  PROVE  b \in settled
<1>1. PICK r \in [Blocks -> Nat], t \in Nat : Ranked(r, t)
  BY EndFacts DEF WInv, RankInv
<1> DEFINE Left == {t - r[d] : d \in {c \in Blocks : color[c] = "BLACK" /\ c \notin settled}}
<1> SUFFICES ASSUME b \notin settled PROVE FALSE
  OBVIOUS
<1>2. Left \subseteq Nat /\ Left # {}
  <2>1. ASSUME NEW d \in Blocks, color[d] = "BLACK" PROVE t - r[d] \in Nat
    <3>1. r[d] < t /\ r[d] \in Nat
      BY <1>1, <2>1 DEF Ranked
    <3> QED BY <3>1
  <2> QED BY <2>1
<1>3. PICK least \in Left : \A x \in Left : least <= x
  <2> HIDE DEF Left
  <2> QED BY <1>2, LeastNatural
<1>4. PICK d \in Blocks : color[d] = "BLACK" /\ d \notin settled /\ least = t - r[d]
  BY <1>3
<1>5. d # Entry /\ d # Exit /\ d \in Nodes
  BY <1>4, EndFacts, InputFacts
<1>6. HasEdge(d)
  BY <1>4, <1>5, EndFacts DEF WInv, EnteredInv
<1>7. in_cnt[d] # 0
  BY <1>4, <1>5, <1>6, EndFacts
<1>8. Waiting(d) # {}
  BY <1>5, <1>7, CountFacts, EndFacts DEF IInv
<1>9. PICK p \in Nodes \X Nat : p[2] \in DOMAIN out[p[1]] /\ out[p[1]][p[2]] = d /\ ~Relaxed(p[1], p[2])
  BY <1>8 DEF Waiting
<1>10. PICK m \in Nodes, k \in Nat : p = <<m, k>>
  OBVIOUS
<1>11. k \in DOMAIN out[m] /\ out[m][k] = d /\ m \notin settled
  BY <1>9, <1>10, EndFacts
<1>12. m \in Blocks /\ color[m] = "BLACK"
  BY <1>11, SourceFinished
<1>13. r[d] < r[m] /\ r[d] \in Nat /\ r[m] \in Nat
  BY <1>1, <1>5, <1>11, <1>12 DEF Ranked
<1>14. t - r[m] \in Left
  BY <1>11, <1>12
<1>15. t - r[d] <= t - r[m]
  BY <1>3, <1>4, <1>14
<1> QED BY <1>1, <1>13, <1>15

\* No count is left above zero.
LEMMA CountsZero ==
  ASSUME Ended, NEW n \in Nodes
  PROVE  in_cnt[n] = 0
<1> SUFFICES ASSUME in_cnt[n] # 0 PROVE FALSE
  OBVIOUS
<1>1. Waiting(n) # {}
  BY CountFacts, EndFacts DEF IInv
<1>2. PICK p \in Nodes \X Nat : p[2] \in DOMAIN out[p[1]] /\ out[p[1]][p[2]] = n /\ ~Relaxed(p[1], p[2])
  BY <1>1 DEF Waiting
<1>3. PICK m \in Nodes, k \in Nat : p = <<m, k>>
  OBVIOUS
<1>4. k \in DOMAIN out[m] /\ m \notin settled
  BY <1>2, <1>3, EndFacts
<1> QED BY <1>4, SourceFinished, FinishedTaken

\* From a finished block edges lead down the ranks to the exit, and no block on
\* the way costs more than the exit.
LEMMA ExitDearest ==
  ASSUME Ended
  PROVE  /\ Exit \in settled /\ HasEdge(Exit)
         /\ \A b \in Blocks : color[b] = "BLACK" => cost[b] <= cost[Exit]
<1>0. cost \in [Nodes -> Nat] /\ Exit \in Nodes /\ Blocks \subseteq Nodes /\ Exit \notin Blocks
  BY EndFacts, InputFacts DEF TypeOK
<1>1. PICK r \in [Blocks -> Nat], t \in Nat : Ranked(r, t)
  BY EndFacts DEF WInv, RankInv
<1>2. ASSUME NEW b \in Blocks, color[b] = "BLACK"
      PROVE  1 \in DOMAIN out[b]
  <2>1. out[b] \in Seq(Nodes) /\ out[b] # <<>>
    BY <1>0, <1>2, EndFacts DEF TypeOK, WInv, OutInv
  <2>2. Len(out[b]) \in Nat \ {0} /\ DOMAIN out[b] = 1..Len(out[b])
    BY <2>1, EmptySeq, LenProperties
  <2> QED BY <2>2
<1>3. ASSUME NEW m \in Blocks, color[m] = "BLACK", NEW k \in DOMAIN out[m], NEW n \in Nodes, n = out[m][k]
      PROVE  cost[m] <= cost[n]
  <2>1. m \in BroughtTo(n)
    BY <1>3, FinishedTaken, EndFacts DEF BroughtTo
  <2>2. PICK c \in Nat : /\ cost[n] = IF n \in settled \ {Exit} THEN c + BlockCost(n) ELSE c
                         /\ \A x \in BroughtTo(n) : cost[x] <= c
    BY EndFacts DEF SInv, CostInv
  <2>3. n \in settled \ {Exit} => BlockCost(n) \in Nat
    <3>1. n # Exit => n \in Blocks
      BY DEF Nodes
    <3> QED BY <3>1, InputFacts, EndFacts
  <2>4. cost[m] <= c /\ cost[m] \in Nat
    BY <1>0, <2>1, <2>2
  <2>5. c <= cost[n] /\ cost[n] \in Nat
    <3>1. CASE n \in settled \ {Exit}
      BY <2>2, <2>3, <3>1
    <3>2. CASE n \notin settled \ {Exit}
      BY <2>2, <3>2
    <3> QED BY <3>1, <3>2
  <2> QED BY <2>4, <2>5
<1> DEFINE Dear == {r[b] : b \in {x \in Blocks : color[x] = "BLACK" /\ ~(cost[x] <= cost[Exit])}}
           Black == {r[b] : b \in {x \in Blocks : color[x] = "BLACK"}}
<1>4. Dear \subseteq Nat /\ Black \subseteq Nat
  OBVIOUS
<1>5. HasEdge(Exit)
  <2>1. Black # {}
    BY EndFacts
  <2>2. PICK least \in Black : \A x \in Black : least <= x
    <3> HIDE DEF Black
    <3> QED BY <1>4, <2>1, LeastNatural
  <2>3. PICK b \in Blocks : color[b] = "BLACK" /\ least = r[b]
    BY <2>2
  <2>4. PICK n : n = out[b][1]
    OBVIOUS
  <2>5. CASE n = Exit
    BY <1>0, <1>2, <2>3, <2>4, <2>5 DEF HasEdge
  <2>6. CASE n # Exit
    <3>1. n \in Blocks /\ color[n] = "BLACK"
      BY <1>2, <2>3, <2>4, <2>6, EndsFinished, EndFacts
    <3>2. r[n] < r[b]
      BY <1>1, <1>2, <2>3, <2>4, <2>6 DEF Ranked
    <3>3. r[b] <= r[n]
      BY <2>2, <2>3, <3>1
    <3> QED BY <3>1, <3>2, <3>3
  <2> QED BY <2>5, <2>6
<1>6. Exit \in settled
  BY <1>0, <1>5, CountsZero, EndFacts
<1>7. Dear = {}
  <2> SUFFICES ASSUME Dear # {} PROVE FALSE
    OBVIOUS
  <2>1. PICK least \in Dear : \A x \in Dear : least <= x
    <3> HIDE DEF Dear
    <3> QED BY <1>4, LeastNatural
  <2>2. PICK b \in Blocks : color[b] = "BLACK" /\ ~(cost[b] <= cost[Exit]) /\ least = r[b]
    BY <2>1
  <2>3. PICK n : n = out[b][1]
    OBVIOUS
  <2>4. n = Exit \/ (n \in Blocks /\ color[n] = "BLACK")
    BY <1>2, <2>2, <2>3, EndsFinished, EndFacts
  <2>5. cost[b] <= cost[n] /\ cost[b] \in Nat /\ cost[n] \in Nat /\ cost[Exit] \in Nat
    <3>1. n \in Nodes
      BY <1>0, <2>4
    <3> QED BY <1>0, <1>2, <1>3, <2>2, <2>3, <3>1
  <2>6. n # Exit
    BY <2>2, <2>5
  <2>7. ~(cost[n] <= cost[Exit])
    BY <2>2, <2>5
  <2>8. r[n] < r[b] /\ r[n] \in Nat /\ r[b] \in Nat
    BY <1>1, <1>2, <2>2, <2>3, <2>4, <2>6 DEF Ranked
  <2>9. r[n] \in Dear
    BY <2>4, <2>6, <2>7
  <2>10. r[b] <= r[n]
    BY <2>1, <2>2, <2>9
  <2> QED BY <2>8, <2>10
<1> QED BY <1>5, <1>6, <1>7

\* A successor of a finished block is finished.
LEMMA SuccessorFinished ==
  ASSUME Ended, NEW b \in Blocks, color[b] = "BLACK", NEW c \in ToSet(cfg[b])
  PROVE  /\ c \in Blocks /\ color[c] = "BLACK"
         /\ (\E k \in DOMAIN out[b] : out[b][k] = c) \/ ClosesCycle(b, c)
<1>1. PICK k \in DOMAIN cfg[b] : c = cfg[b][k]
  BY DEF ToSet
<1>2. c \in Blocks /\ c # Exit
  BY <1>1, InputFacts, EndFacts
<1>3. k \in DOMAIN out[b]
  BY <1>1, EndFacts DEF WInv, OutInv, Ended
<1>4. CASE out[b][k] = cfg[b][k]
  BY <1>1, <1>2, <1>3, <1>4, EndsFinished, EndFacts
<1>5. CASE ClosesCycle(b, cfg[b][k]) /\ color[cfg[b][k]] # "WHITE"
  BY <1>1, <1>2, <1>5, EndFacts
<1>6. \/ out[b][k] = cfg[b][k]
      \/ ClosesCycle(b, cfg[b][k]) /\ color[cfg[b][k]] # "WHITE"
  BY <1>1, <1>3, EndFacts DEF WInv, OutInv
<1> QED BY <1>4, <1>5, <1>6

\* Every block a simple path leads through is finished.
LEMMA PathFinished ==
  ASSUME Ended, NEW p \in SimplePaths, NEW k \in 1..Len(p)
  PROVE  p[k] \in Blocks /\ color[p[k]] = "BLACK"
<1> DEFINE Not == {n \in 1..Len(p) : ~(p[n] \in Blocks /\ color[p[n]] = "BLACK")}
<1> SUFFICES ASSUME Not # {} PROVE FALSE
  OBVIOUS
<1>1. Len(p) \in Nat /\ p[1] = Entry /\ \A n \in 2..Len(p) : p[n] \in ToSet(cfg[p[n - 1]])
  BY SimpleFacts, EndFacts
<1>2. PICK n \in Not : \A j \in Not : n <= j
  <2>1. Not \subseteq Nat
    BY <1>1
  <2> HIDE DEF Not
  <2> QED BY <2>1, LeastNatural
<1>3. n # 1
  BY <1>1, <1>2, EndFacts
<1>4. n \in 2..Len(p) /\ n - 1 \in 1..Len(p) /\ ~(n <= n - 1)
  BY <1>1, <1>2, <1>3
<1>5. p[n - 1] \in Blocks /\ color[p[n - 1]] = "BLACK"
  BY <1>2, <1>4
<1>6. p[n] \in Blocks /\ color[p[n]] = "BLACK"
  BY <1>1, <1>4, <1>5, SuccessorFinished
<1> QED BY <1>2, <1>6

LEMMA AllTaken ==
  ASSUME Ended
  PROVE  settled = Reachable \cup {Exit} /\ \A n \in Nodes : in_cnt[n] = 0
<1>1. ASSUME NEW n \in settled PROVE n \in Reachable \cup {Exit}
  <2>1. n # Exit => n \in Blocks /\ color[n] = "BLACK"
    BY EndFacts DEF Nodes
  <2>2. \A b \in Blocks : color[b] = "BLACK" => b \in Reachable
    BY EndFacts DEF WInv, ReachedInv
  <2> QED BY <2>1, <2>2
<1>2. ASSUME NEW n \in Reachable PROVE n \in settled
  <2>1. PICK p \in SimplePaths : n = Last(p)
    BY DEF Reachable
  <2>2. Last(p) = p[Len(p)] /\ Len(p) \in 1..Len(p)
    BY SimpleFacts, EndFacts
  <2> QED BY <2>1, <2>2, PathFinished, FinishedTaken
<1> QED BY <1>1, <1>2, ExitDearest, CountsZero

\* The part of a simple path up to a place on it is one.
LEMMA SimplePrefix ==
  ASSUME InputInv, NEW p \in SimplePaths, NEW n \in 1..Len(p)
  PROVE  \E q \in SimplePaths : Last(q) = p[n] /\ ToSet(q) = {p[i] : i \in 1..n}
<1> DEFINE q == [i \in 1..n |-> p[i]]
<1>1. /\ p \in Seq(Blocks) /\ Len(p) \in Nat \ {0} /\ p[1] = Entry
      /\ \A k \in 2..Len(p) : p[k] \in ToSet(cfg[p[k - 1]])
      /\ \A j, k \in 1..Len(p) : p[j] = p[k] => j = k
  BY SimpleFacts
<1>2. n \in Nat \ {0} /\ 1 \in 1..n /\ n \in 1..n /\ 1..n \subseteq 1..Len(p)
  BY <1>1
<1>3. q \in Seq(Blocks) /\ DOMAIN q = 1..n /\ Len(q) = n
  <2>1. \A i \in 1..n : p[i] \in Blocks
    BY <1>1, <1>2, ElementOfSeq
  <2>2. q \in Seq(Blocks)
    BY <1>2, <2>1, SeqDef
  <2>3. DOMAIN q = 1..n /\ DOMAIN q = 1..Len(q) /\ Len(q) \in Nat
    BY <2>2, LenProperties
  <2> QED BY <1>2, <2>2, <2>3
<1>4. \A i \in 1..n : q[i] = p[i]
  OBVIOUS
<1> HIDE DEF q
<1>5. q # <<>> /\ q[1] = Entry
  BY <1>1, <1>2, <1>3, <1>4
<1>6. ASSUME NEW k \in 2..Len(q) PROVE q[k] \in ToSet(cfg[q[k - 1]])
  <2>1. k \in 2..Len(p) /\ k \in 1..n /\ k - 1 \in 1..n
    BY <1>1, <1>2, <1>3
  <2> QED BY <1>1, <1>4, <2>1
<1>7. \A j, k \in 1..Len(q) : q[j] = q[k] => j = k
  BY <1>1, <1>2, <1>3, <1>4
<1>8. q \in SimplePaths
  BY <1>3, <1>5, <1>6, <1>7, SimpleIs
<1>9. Last(q) = p[n]
  BY <1>2, <1>3, <1>4 DEF Last
<1>10. ToSet(q) = {p[i] : i \in 1..n}
  BY <1>3, <1>4 DEF ToSet
<1> QED BY <1>8, <1>9, <1>10

\* The cost of a path is that of its part before the last block, and the block's.
LEMMA PathCostAppend ==
  ASSUME InputInv, NEW p \in SimplePaths, NEW c \in Blocks
  PROVE  PathCost(Append(p, c)) = PathCost(p) + BlockCost(c)
<1> PICK q : q = Append(p, c)
  OBVIOUS
<1> PICK n : n = Len(p)
  OBVIOUS
<1>1. n \in Nat /\ Len(q) = n + 1 /\ q[n + 1] = c /\ \A k \in 1..n : q[k] = p[k]
  BY SimpleFacts, AppendOf
<1>2. CostsUpTo(q)[n] = CostsUpTo(p)[n]
  BY <1>1, CostsAlike
<1>3. PICK j \in Nat \ {0} : j = n + 1 /\ j - 1 = n
  BY <1>1
<1>4. CostsUpTo(q)[j] = CostsUpTo(q)[j - 1] + KnownCosts(q[j])
  BY CostsSummed
<1> QED BY <1>1, <1>2, <1>3, <1>4, KnownIsCost DEF PathCost

\* The cost found for a block is that of some path to it.
LEMMA CostAttained ==
  ASSUME Ended, NEW r \in [Blocks -> Nat], NEW t \in Nat, Ranked(r, t), NEW b \in Blocks, color[b] = "BLACK"
  PROVE  \E p \in SimplePaths : /\ Last(p) = b /\ PathCost(p) = cost[b]
                                /\ \A k \in 1..Len(p) : r[p[k]] >= r[b]
<1> DEFINE Reached(d) == \E p \in SimplePaths : /\ Last(p) = d /\ PathCost(p) = cost[d]
                                                /\ \A k \in 1..Len(p) : r[p[k]] >= r[d]
           Left == {t - r[d] : d \in {c \in Blocks : color[c] = "BLACK" /\ ~Reached(c)}}
<1> SUFFICES ASSUME ~Reached(b) PROVE FALSE
  OBVIOUS
<1>1. Left \subseteq Nat /\ Left # {}
  <2>1. ASSUME NEW d \in Blocks, color[d] = "BLACK" PROVE t - r[d] \in Nat
    <3>1. r[d] < t /\ r[d] \in Nat
      BY <2>1 DEF Ranked
    <3> QED BY <3>1
  <2> HIDE DEF Reached
  <2> QED BY <2>1
<1>2. PICK least \in Left : \A x \in Left : least <= x
  <2> HIDE DEF Left
  <2> QED BY <1>1, LeastNatural
<1>3. PICK d \in Blocks : color[d] = "BLACK" /\ ~Reached(d) /\ least = t - r[d]
  <2> HIDE DEF Reached
  <2> QED BY <1>2
<1>4. d \in settled /\ d # Exit /\ d \in Nodes
  BY <1>3, FinishedTaken, EndFacts, InputFacts
<1>5. PICK c \in Nat : /\ cost[d] = c + BlockCost(d)
                       /\ (c = 0 /\ BroughtTo(d) = {}) \/ \E m \in BroughtTo(d) : c = cost[m]
  BY <1>4, EndFacts DEF SInv, CostInv
<1>6. CASE d = Entry
  <2>1. BroughtTo(d) = {}
    BY <1>6, EndFacts DEF BroughtTo, IInv, EdgesInv
  <2>2. cost[d] = BlockCost(d)
    <3>1. c = 0 /\ BlockCost(d) \in Nat
      BY <1>5, <2>1, InputFacts, EndFacts
    <3> QED BY <1>5, <3>1
  <2>3. <<Entry>> \in SimplePaths /\ Last(<<Entry>>) = Entry
    BY EntryPath, EndFacts, InputFacts
  <2>4. PathCost(<<Entry>>) = BlockCost(Entry)
    <3>1. PICK q : q = <<Entry>>
      OBVIOUS
    <3>2. Len(q) = 1 /\ q[1] = Entry /\ BlockCost(Entry) \in Nat
      BY <3>1, InputFacts, EndFacts
    <3>3. CostsUpTo(q)[1] = CostsUpTo(q)[0] + KnownCosts(Entry) /\ CostsUpTo(q)[0] = 0
      BY <3>2, CostsSummed
    <3>4. CostsUpTo(q)[1] = BlockCost(Entry)
      BY <3>2, <3>3, KnownIsCost
    <3> QED BY <3>1, <3>2, <3>4 DEF PathCost
  <2>5. \A k \in 1..Len(<<Entry>>) : r[<<Entry>>[k]] >= r[Entry]
    <3>1. r[Entry] \in Nat
      BY EndFacts
    <3>2. \A k \in 1..Len(<<Entry>>) : <<Entry>>[k] = Entry
      OBVIOUS
    <3> QED BY <3>1, <3>2
  <2> QED BY <1>3, <1>6, <2>2, <2>3, <2>4, <2>5
<1>7. CASE d # Entry
  <2>1. BroughtTo(d) # {}
    <3>1. HasEdge(d)
      BY <1>3, <1>7, EndFacts DEF WInv, EnteredInv
    <3>2. PICK m \in Nodes : \E k \in DOMAIN out[m] : out[m][k] = d
      BY <3>1 DEF HasEdge
    <3>3. m \in settled
      BY <3>2, SourceFinished, FinishedTaken
    <3> QED BY <3>2, <3>3, EndFacts DEF BroughtTo
  <2>2. PICK m \in BroughtTo(d) : c = cost[m]
    BY <1>5, <2>1
  <2>3. PICK k \in DOMAIN out[m] : out[m][k] = d
    BY DEF BroughtTo
  <2>4. m \in Blocks /\ color[m] = "BLACK" /\ k \in Nat
    <3>1. m \in Nodes
      BY EndFacts DEF BroughtTo
    <3> QED BY <2>3, <3>1, SourceFinished
  <2>5. r[d] < r[m] /\ r[d] \in Nat /\ r[m] \in Nat /\ r[m] < t
    BY <1>4, <2>3, <2>4 DEF Ranked
  <2>6. Reached(m)
    <3> SUFFICES ASSUME ~Reached(m) PROVE FALSE
      OBVIOUS
    <3>1. t - r[m] \in Left
      <4> HIDE DEF Reached
      <4> QED BY <2>4
    <3>2. t - r[d] <= t - r[m]
      BY <1>2, <1>3, <3>1
    <3> QED BY <2>5, <3>2
  <2>7. PICK p \in SimplePaths : Last(p) = m /\ PathCost(p) = cost[m] /\ \A i \in 1..Len(p) : r[p[i]] >= r[m]
    BY <2>6
  <2>8. d \notin ToSet(p)
    <3>1. DOMAIN p = 1..Len(p)
      BY SimpleFacts, EndFacts
    <3>2. \A i \in 1..Len(p) : p[i] # d
      BY <2>5, <2>7
    <3> QED BY <3>1, <3>2 DEF ToSet
  <2>9. d \in ToSet(cfg[m])
    <3>1. k \in DOMAIN cfg[m] /\ out[m][k] = cfg[m][k]
      BY <1>4, <2>3, <2>4, EndFacts DEF WInv, OutInv
    <3> QED BY <2>3, <3>1 DEF ToSet
  <2>10. PICK q : q = Append(p, d)
    OBVIOUS
  <2>11. q \in SimplePaths /\ Last(q) = d
    BY <2>7, <2>8, <2>9, <2>10, SimpleAppend, EndFacts
  <2>12. PathCost(q) = cost[d]
    BY <1>5, <2>2, <2>7, <2>10, PathCostAppend, EndFacts
  <2>13. ASSUME NEW i \in 1..Len(q) PROVE r[q[i]] >= r[d]
    <3>1. /\ Len(p) \in Nat /\ Len(q) = Len(p) + 1 /\ q[Len(p) + 1] = d
          /\ \A j \in 1..Len(p) : q[j] = p[j] /\ p[j] \in Blocks
      BY <2>10, SimpleFacts, AppendOf, ElementOfSeq, EndFacts
    <3>2. CASE i = Len(p) + 1
      BY <2>5, <3>1, <3>2
    <3>3. CASE i \in 1..Len(p)
      <4>1. r[p[i]] >= r[m] /\ r[p[i]] \in Nat /\ q[i] = p[i]
        BY <2>7, <3>1, <3>3
      <4> QED BY <2>5, <4>1
    <3> QED BY <3>1, <3>2, <3>3
  <2> QED BY <1>3, <2>11, <2>12, <2>13
<1> QED BY <1>6, <1>7

\* What was brought to a taken block over an edge is in its cost.
LEMMA CostCarried ==
  ASSUME Ended, NEW m \in Blocks, color[m] = "BLACK", NEW k \in DOMAIN out[m], NEW n \in Blocks, n = out[m][k],
         color[n] = "BLACK"
  PROVE  cost[m] + BlockCost(n) <= cost[n]
<1>1. m \in settled /\ n \in settled /\ n # Exit /\ n \in Nodes /\ m \in Nodes /\ BlockCost(n) \in Nat
  BY FinishedTaken, EndFacts, InputFacts
<1>2. m \in BroughtTo(n)
  BY <1>1, EndFacts DEF BroughtTo
<1>3. PICK c \in Nat : cost[n] = c + BlockCost(n) /\ \A x \in BroughtTo(n) : cost[x] <= c
  BY <1>1, EndFacts DEF SInv, CostInv
<1>4. cost[m] <= c /\ cost[m] \in Nat
  BY <1>1, <1>2, <1>3, EndFacts DEF TypeOK
<1> QED BY <1>1, <1>3, <1>4

\* When every back edge leads to a dominator no edge of a simple path was cut, and
\* the cost found for its last block is no less than the path's.
LEMMA CostBounds ==
  ASSUME Ended, Reducible, NEW p \in SimplePaths
  PROVE  PathCost(p) \in Nat /\ PathCost(p) <= cost[Last(p)]
<1> DEFINE Over == {n \in 1..Len(p) : ~(CostsUpTo(p)[n] \in Nat /\ CostsUpTo(p)[n] <= cost[p[n]])}
<1>1. /\ p \in Seq(Blocks) /\ Len(p) \in Nat \ {0} /\ p[1] = Entry /\ Last(p) = p[Len(p)]
      /\ \A k \in 2..Len(p) : p[k] \in ToSet(cfg[p[k - 1]])
      /\ \A j, k \in 1..Len(p) : p[j] = p[k] => j = k
  BY SimpleFacts, EndFacts
<1>2. \A n \in 1..Len(p) : p[n] \in Blocks /\ color[p[n]] = "BLACK" /\ p[n] \in Nodes
  BY PathFinished, InputFacts, EndFacts
<1>3. Over = {}
  <2> SUFFICES ASSUME Over # {} PROVE FALSE
    OBVIOUS
  <2>1. PICK n \in Over : \A j \in Over : n <= j
    <3>1. Over \subseteq Nat
      BY <1>1
    <3> HIDE DEF Over
    <3> QED BY <3>1, LeastNatural
  <2>2. n \in Nat \ {0} /\ CostsUpTo(p)[n] = CostsUpTo(p)[n - 1] + BlockCost(p[n]) /\ BlockCost(p[n]) \in Nat
        /\ cost[p[n]] \in Nat
    <3>1. n \in Nat \ {0}
      BY <1>1, <2>1
    <3>2. CostsUpTo(p)[n] = CostsUpTo(p)[n - 1] + KnownCosts(p[n])
      BY <3>1, CostsSummed
    <3>3. BlockCost(p[n]) \in Nat /\ cost[p[n]] \in Nat
      BY <1>2, <2>1, InputFacts, EndFacts DEF TypeOK
    <3> QED BY <3>1, <3>2, <3>3, KnownIsCost
  <2>3. CASE n = 1
    <3>1. CostsUpTo(p)[n] = BlockCost(p[n])
      <4>1. CostsUpTo(p)[0] = 0
        BY CostsSummed
      <4> QED BY <2>2, <2>3, <4>1
    <3>2. p[n] \in settled \ {Exit} /\ p[n] \in Nodes
      BY <1>2, <2>1, FinishedTaken, InputFacts, EndFacts
    <3>3. PICK c \in Nat : cost[p[n]] = c + BlockCost(p[n])
      BY <3>2, EndFacts DEF SInv, CostInv
    <3>4. CostsUpTo(p)[n] \in Nat /\ CostsUpTo(p)[n] <= cost[p[n]]
      BY <2>2, <3>1, <3>3
    <3> QED BY <2>1, <3>4
  <2>4. CASE n # 1
    <3>1. n \in 2..Len(p) /\ n - 1 \in 1..Len(p) /\ ~(n <= n - 1) /\ n \in 1..Len(p)
      BY <1>1, <2>1, <2>4
    <3>2. CostsUpTo(p)[n - 1] \in Nat /\ CostsUpTo(p)[n - 1] <= cost[p[n - 1]] /\ cost[p[n - 1]] \in Nat
      <4>1. n - 1 \notin Over
        BY <2>1, <3>1
      <4> QED BY <1>2, <3>1, <4>1, EndFacts DEF TypeOK
    <3>3. PICK b, c : b = p[n - 1] /\ c = p[n]
      OBVIOUS
    <3>4. c \in ToSet(cfg[b]) /\ b \in Blocks /\ c \in Blocks /\ color[b] = "BLACK" /\ color[c] = "BLACK"
      BY <1>1, <1>2, <3>1, <3>3
    <3>5. ~ClosesCycle(b, c)
      <4> SUFFICES ASSUME ClosesCycle(b, c) PROVE FALSE
        OBVIOUS
      <4>1. Dominates(c, b)
        BY <3>4 DEF ClosesCycle, Reducible
      <4>2. PICK q \in SimplePaths : Last(q) = b /\ ToSet(q) = {p[i] : i \in 1..(n - 1)}
        BY <3>1, <3>3, SimplePrefix, EndFacts
      <4>3. c \in ToSet(q)
        BY <4>1, <4>2 DEF Dominates
      <4>4. PICK i \in 1..(n - 1) : c = p[i]
        BY <4>2, <4>3
      <4>5. i \in 1..Len(p) /\ i # n
        BY <1>1, <3>1
      <4> QED BY <1>1, <3>1, <3>3, <4>4, <4>5
    <3>6. PICK k \in DOMAIN out[b] : out[b][k] = c
      BY <3>4, <3>5, SuccessorFinished
    <3>7. cost[b] + BlockCost(c) <= cost[c]
      BY <3>4, <3>6, CostCarried
    <3>8. CostsUpTo(p)[n] \in Nat /\ CostsUpTo(p)[n] <= cost[p[n]]
      BY <2>2, <3>2, <3>3, <3>7
    <3> QED BY <2>1, <3>8
  <2> QED BY <2>3, <2>4
<1>4. Len(p) \in 1..Len(p) /\ Len(p) \notin Over
  BY <1>1, <1>3
<1> QED BY <1>1, <1>4 DEF PathCost

LEMMA DearestFound ==
  ASSUME Ended
  PROVE  /\ \E p \in SimplePaths : max = PathCost(p)
         /\ Reducible => \A p \in SimplePaths : PathCost(p) <= max
<1>1. \E p \in SimplePaths : max = PathCost(p)
  <2>1. Exit \in settled /\ Exit \in Nodes /\ HasEdge(Exit)
    BY ExitDearest, InputFacts, EndFacts
  <2>2. PICK m \in Nodes : \E k \in DOMAIN out[m] : out[m][k] = Exit
    BY <2>1 DEF HasEdge
  <2>3. m \in settled
    BY <2>2, SourceFinished, FinishedTaken
  <2>4. BroughtTo(Exit) # {}
    BY <2>2, <2>3, EndFacts DEF BroughtTo
  <2>5. PICK b \in BroughtTo(Exit) : cost[Exit] = cost[b]
    BY <2>1, <2>4, EndFacts DEF SInv, CostInv
  <2>6. b \in Blocks /\ color[b] = "BLACK"
    <3>1. b \in Nodes /\ \E k \in DOMAIN out[b] : TRUE
      BY EndFacts DEF BroughtTo
    <3> QED BY <3>1, SourceFinished
  <2>7. PICK r \in [Blocks -> Nat], t \in Nat : Ranked(r, t)
    BY EndFacts DEF WInv, RankInv
  <2>8. PICK p \in SimplePaths : PathCost(p) = cost[b]
    BY <2>6, <2>7, CostAttained
  <2> QED BY <2>5, <2>8, EndFacts
<1>2. ASSUME Reducible, NEW p \in SimplePaths PROVE PathCost(p) <= max
  <2>1. PathCost(p) \in Nat /\ PathCost(p) <= cost[Last(p)]
    BY <1>2, CostBounds
  <2>2. PICK n : n = Len(p)
    OBVIOUS
  <2>3. Last(p) = p[n] /\ n \in 1..n /\ p[n] \in Blocks /\ color[p[n]] = "BLACK"
    <3>1. Last(p) = p[n] /\ n \in 1..Len(p)
      BY <2>2, SimpleFacts, EndFacts
    <3> QED BY <2>2, <3>1, PathFinished
  <2>4. cost[p[n]] <= cost[Exit] /\ cost[p[n]] \in Nat /\ cost[Exit] \in Nat
    BY <2>3, ExitDearest, InputFacts, EndFacts DEF TypeOK
  <2> QED BY <2>1, <2>3, <2>4, EndFacts
<1> QED BY <1>1, <1>2

-----------------------------------------------------------------------------
(* The invariant, and what follows from it *)

Inv == IInv /\ WInv /\ SInv

LEMMA InvariantKept ==
  ASSUME Inv, [Next]_vars
  PROVE  Inv'
<1>1. IInv'
  BY InputKept, TypesKept, PhaseKept, EdgesKept, PathKept, CountKept, QueueKept DEF Inv, IInv
<1> QED BY <1>1, WalkKept, ServedKept, CostKept DEF Inv, SInv

LEMMA InitInvariant ==
  ASSUME Init
  PROVE  Inv
<1>1. InputInv
  BY DEF Init, InputInv
<1>2. Exit \in Nodes /\ Nodes = Blocks \cup {Exit}
  BY <1>1, InputFacts
<1>3. TypeOK
  BY <1>2 DEF Init, TypeOK
<1>4. PhaseInv
  BY DEF Init, PhaseInv, Walking
<1>5. EdgesInv
  BY <1>2 DEF Init, EdgesInv
<1>6. PathInv
  BY DEF Init, PathInv, GrayBlocks
<1>7. CountInv
  <2>1. ASSUME NEW n \in Nodes PROVE Waiting(n) = {} /\ in_cnt[n] = 0
    BY DEF Init, Waiting
  <2> QED BY <2>1, FS_EmptySet DEF CountInv
<1>8. QueueInv
  BY DEF Init, QueueInv
<1>9. IInv
  BY <1>1, <1>3, <1>4, <1>5, <1>6, <1>7, <1>8 DEF IInv
<1>10. /\ stack = <<>> /\ DOMAIN stack = {} /\ pc = "begin" /\ settled = {} /\ \A n \in Nodes : cost[n] = 0
       /\ \A b \in Blocks : color[b] = "WHITE" /\ out[b] = <<>> /\ DOMAIN out[b] = {}
  BY <1>2 DEF Init
<1>11. WInv
  <2>1. StackInv /\ RouteInv /\ ChildInv
    BY <1>10 DEF StackInv, RouteInv, ChildInv
  <2>2. ReachedInv /\ OutInv /\ EnteredInv
    BY <1>10 DEF ReachedInv, OutInv, EnteredInv
  <2>3. RankInv
    <3>1. [b \in Blocks |-> 0] \in [Blocks -> Nat]
      OBVIOUS
    <3>2. Ranked([b \in Blocks |-> 0], 0)
      BY <1>10 DEF Ranked
    <3> QED BY <3>1, <3>2 DEF RankInv
  <2> QED BY <2>1, <2>2, <2>3 DEF WInv
<1>12. SInv
  <2>1. ServedInv
    BY <1>10 DEF ServedInv, Searching
  <2>2. \A n : BroughtTo(n) = {}
    BY <1>10 DEF BroughtTo
  <2>3. CostInv
    BY <1>10, <2>2 DEF CostInv
  <2> QED BY <2>1, <2>3 DEF SInv
<1> QED BY <1>9, <1>11, <1>12 DEF Inv

LEMMA Invariant == Spec => []Inv
<1>1. Init => Inv
  BY InitInvariant
<1>2. Inv /\ [Next]_vars => Inv'
  BY InvariantKept
<1> QED BY <1>1, <1>2, PTL DEF Spec

\* The variables keep their types whatever the graph.
THEOREM TypeCorrect == Spec => []TypeOK
<1>1. Inv => TypeOK
  BY DEF Inv, IInv
<1> QED BY <1>1, Invariant, PTL

\* The gray blocks are the path the walk is on, so an edge to a gray block is a
\* back edge (CFGDAG.cpp:86).
THEOREM WalkAlwaysPath == Spec => []GrayIsPath
<1>1. Inv => GrayIsPath
  BY PathIsGray DEF Inv, IInv
<1> QED BY <1>1, Invariant, PTL

\* The cost of a node taken from the queue is never raised again: every edge into
\* it was counted down before (CostModel.cpp:321).
THEOREM SettledNeverRaised == Spec => SettledFinal
<1>1. ASSUME Inv, [Next]_vars PROVE [\A n \in settled : cost'[n] = cost[n]]_vars
  <2> USE DEF Inv, IInv
  <2> SUFFICES ASSUME Next PROVE \A n \in settled : cost'[n] = cost[n]
    BY <1>1
  <2>1. settled \subseteq Nodes /\ cost \in [Nodes -> Nat]
    BY <1>1 DEF TypeOK
  <2>2. CASE TakeNode
    <3>1. Head(queue) \in Nodes /\ Head(queue) \notin settled
      BY <1>1, <2>2, TakeFacts DEF TakeNode, QueueInv
    <3> QED BY <2>1, <2>2, <3>1 DEF TakeNode
  <2>3. CASE RelaxEdge
    <3>1. PICK c : c = out[node][ei]
      OBVIOUS
    <3>2. c \in Nodes
      BY <1>1, <2>3, <3>1, RelaxFacts DEF RelaxEdge
    <3>3. <<node, ei>> \in Waiting(c)
      BY <1>1, <2>3, <3>1, WaitingLess, InputKept
    <3>4. c \notin settled
      BY <1>1, <3>2, <3>3, CountFacts DEF QueueInv
    <3> QED BY <2>1, <2>3, <3>1, <3>2, <3>4 DEF RelaxEdge
  <2>4. CASE cost' = cost
    BY <2>4
  <2> QED BY <2>2, <2>3, <2>4
          DEF Next, costVars, NoBody, StartInit, VisitBlock, LinkSuccessor, VisitDone, PopBlock, InitDone, NodeDone,
              Return, Finished, vars
<1> QED BY <1>1, Invariant, PTL DEF Spec, SettledFinal

\* The graph is cut at its back edges and nowhere else: every block that can be
\* reached is counted, and the cost returned is that of a path round no loop, the
\* dearest when every loop has one entry (CFGDAG.cpp:50, CostModel.cpp:306).
THEOREM CostAlwaysExact == Spec => []CostExact
<1>1. ASSUME Inv PROVE CostExact
  <2>1. GrayIsPath
    BY <1>1, PathIsGray DEF Inv, IInv
  <2>2. ASSUME pc = "done", cfg # <<>> PROVE Ended
    BY <1>1, <2>2 DEF Inv, Ended
  <2>3. AllSettled
    BY <2>2, AllTaken DEF AllSettled
  <2>4. CostIsDearestPath
    BY <2>2, DearestFound DEF CostIsDearestPath
  <2> QED BY <2>1, <2>3, <2>4 DEF CostExact, WalkSound
<1> QED BY <1>1, Invariant, PTL
=============================================================================
