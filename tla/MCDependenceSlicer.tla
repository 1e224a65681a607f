------------------------- MODULE MCDependenceSlicer -------------------------
(***************************************************************************)
(* Functions of three instructions.  Either every memory dependence: any   *)
(* instruction with a definite result or none, and one of them with two    *)
(* results, definite or not, repeated, its own or no instruction.  Or      *)
(* every SSA dependence of up to two operands, with loops among them and   *)
(* an instruction used twice, in functions whose memory accesses depend on *)
(* nothing.                                                                *)
(***************************************************************************)
EXTENDS DependenceSlicer

MCN == 3

Def(i) == [inst |-> i, def |-> TRUE]
Clobber(i) == [inst |-> i, def |-> FALSE]

OneDef == {<<>>} \cup {<<Def(i)>> : i \in Inst}
TwoResults == {<<r, Clobber(i)>> : r \in {Def(j) : j \in {NoInst} \cup Inst}, i \in Inst}
                \cup {<<Def(i), Def(i)>> : i \in Inst}

\* The use lists: a user comes before the earlier ones, once for each operand.
UsesOf(operands) ==
  [i \in Inst |-> FlattenSeq([j \in Inst |->
     [m \in 1..Occurs(i, operands[N + 1 - j]) |-> N + 1 - j]])]

FunctionOf(access, results, operands) ==
  [access |-> access, results |-> results, operands |-> operands, uses |-> UsesOf(operands)]

MemoryFunctions ==
  {FunctionOf([i \in Inst |-> "answered"], [r EXCEPT ![j] = two], <<<<>>, <<1>>, <<1, 2>>>>) :
     r \in [Inst -> OneDef], j \in Inst, two \in TwoResults}

Accesses == {<<"none", "none", "none">>, <<"answered", "none", "refused">>}

SSAFunctions ==
  {FunctionOf(a, [i \in Inst |-> <<Def(1)>>], ops) :
     a \in Accesses,
     ops \in [Inst -> {<<>>, <<NoInst, 3>>} \cup {<<i>> : i \in Inst} \cup {<<1, i>> : i \in Inst}]}

MCFunctions == MemoryFunctions \cup SSAFunctions
MCRequests == SUBSET Kinds
=============================================================================
