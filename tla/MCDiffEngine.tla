----------------------------- MODULE MCDiffEngine -----------------------------
(***************************************************************************)
(* Pairs of functions of three blocks: every left function of LeftShapes   *)
(* with every right one of the same or a nearby shape, and a few modules   *)
(* of several functions and declarations.                                  *)
(***************************************************************************)
EXTENDS DiffEngine

Inst(op, att, ops, succs, cases) ==
  [op |-> op, att |-> att, ops |-> ops, succs |-> succs, cases |-> cases, used |-> FALSE]
Const(c) == <<"const", c>>
Arg == <<"arg", 1>>
Value(b, n) == <<"inst", b, n>>

Add(op) == Inst("add", 0, <<op, Const(1)>>, <<>>, <<>>)
Cmp(p, op) == Inst("cmp", p, <<op>>, <<>>, <<>>)
Phi(type) == Inst("phi", type, <<>>, <<>>, <<>>)
Ret(op) == Inst("ret", 0, <<op>>, <<>>, <<>>)
Br(b) == Inst("br", 0, <<>>, <<b>>, <<>>)
CondBr(op, b, c) == Inst("br", 0, <<op>>, <<b, c>>, <<>>)
Switch(op, d, cases, succs) == Inst("switch", 0, <<op>>, <<d>> \o succs, cases)
Invoke(f, b, c) == Inst("invoke", 0, <<Const(f)>>, <<b, c>>, <<>>)
Unreachable == Inst("unreachable", 0, <<>>, <<>>, <<>>)

\* A function of one argument, the used instructions marked.
Function(blocks) ==
  LET uses == UNION {UNION {ToSet(blocks[b][n].ops) : n \in DOMAIN blocks[b]} : b \in DOMAIN blocks}
  IN [args |-> 1,
      blocks |-> [b \in DOMAIN blocks |->
                    [n \in DOMAIN blocks[b] |-> [blocks[b][n] EXCEPT !.used = Value(b, n) \in uses]]]]

Declaration == [args |-> 1, blocks |-> <<>>]
Small(c) == Function(<<<<Ret(Const(c))>>>>)
TwoArgs == [Small(1) EXCEPT !.args = 2]

Entries ==
  {<<Add(Arg), t>> : t \in
     {Br(2), CondBr(Value(1, 1), 2, 3), CondBr(Value(1, 1), 3, 2), CondBr(Arg, 2, 2),
      Switch(Arg, 2, <<1>>, <<3>>), Switch(Arg, 2, <<2, 1>>, <<3, 2>>), Switch(Arg, 2, <<1, 2>>, <<2, 3>>),
      Invoke(1, 2, 3), Invoke(2, 2, 3)}}
Seconds ==
  {<<Ret(Value(1, 1))>>, <<Br(3)>>, <<Add(Value(1, 1)), Br(2)>>, <<Phi(1), CondBr(Value(2, 1), 2, 3)>>,
   <<Phi(2), CondBr(Value(2, 1), 2, 3)>>}
Thirds ==
  {<<Ret(Const(1))>>, <<Ret(Const(2))>>, <<Cmp(1, Value(1, 1)), CondBr(Value(3, 1), 2, 3)>>,
   <<Cmp(2, Value(1, 1)), CondBr(Value(3, 1), 2, 3)>>, <<Unreachable>>}
Shapes == {<<a, b, c>> : a \in Entries, b \in Seconds, c \in Thirds}

\* Shapes of which at most one block differs.
Near(f, g) == Cardinality({b \in 1..3 : f[b] # g[b]}) <= 1
Swapped23(f) ==
  LET m == <<1, 3, 2>> IN [b \in 1..3 |-> [n \in DOMAIN f[m[b]] |-> Renamed(f[m[b]][n], m)]]

Module(f) == [n \in {"f"} |-> f]
ShapePairs ==
  {<<Module(Function(f)), Module(Function(g))>> : <<f, g>> \in {p \in Shapes \X Shapes : Near(p[1], p[2])}}
  \cup {<<Module(Function(f)), Module(Function(Swapped23(f)))>> : f \in Shapes}

\* The address of a block, taken before the block is met and after, and inline
\* assembly.
Address(b) == <<"address", b>>
Other(x) == <<"other", x>>
Holding(first, third) == Function(<<<<Add(first), CondBr(Arg, 2, 3)>>, <<Br(3)>>, <<Add(third), Ret(Const(1))>>>>)
OperandPairs ==
  {<<Module(Holding(p[1], p[2])), Module(Holding(q[1], q[2]))>> :
     p, q \in ({Arg, Address(2), Address(3), Other(1)} \X {Arg, Address(2), Address(3), Other(1), Other(2)})}

\* A block reached over two edges, of which the right function makes two blocks
\* with the same or with different contents.
TwoEdges == Function(<<<<CondBr(Arg, 2, 2)>>, <<Ret(Const(1))>>>>)
TwoBlocks(a, b) == Function(<<<<CondBr(Arg, 2, 3)>>, <<Ret(Const(a))>>, <<Ret(Const(b))>>>>)
EdgePairs == {<<Module(TwoEdges), Module(TwoBlocks(a, b))>> : a \in {1, 2}, b \in {1, 2}}
             \cup {<<Module(TwoBlocks(a, b)), Module(TwoEdges)>> : a \in {1, 2}, b \in {1, 2}}

\* Three pairs in the heap, of which one has its predecessors processed while it waits.
Wide(n) ==
  Function(<<<<Switch(Arg, 2, <<1, 2>>, <<3, 4>>)>>, <<Br(5)>>, <<Ret(Const(1))>>, <<Ret(Const(n))>>,
             <<CondBr(Arg, 3, 6)>>, <<CondBr(Arg, 4, 5)>>>>)
WidePairs == {<<Module(Wide(1)), Module(Wide(n))>> : n \in {1, 2}}

Bodies == {Declaration, Small(1), Small(2), TwoArgs, TwoEdges}
ModuleSet == {[n \in {"f"} |-> a] : a \in Bodies} \cup {[n \in {"f", "g"} |-> IF n = "f" THEN a ELSE b] : a, b \in Bodies}

MCModulePairs == ShapePairs \cup OperandPairs \cup EdgePairs \cup WidePairs \cup (ModuleSet \X ModuleSet)

ASSUME NoBlockIsOperand == NoBlockOperands
===============================================================================
