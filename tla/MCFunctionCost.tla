--------------------------- MODULE MCFunctionCost ---------------------------
(***************************************************************************)
(* Every control-flow graph of up to NumBlocks blocks with at most two     *)
(* successors each, doubled edges, self loops and unreachable blocks among *)
(* them, on the target with AVX.  The blocks cost powers of two, so        *)
(* distinct sets of blocks differ.  And a function of one block for every  *)
(* kind of instruction on every type it may have, on three targets.        *)
(***************************************************************************)
EXTENDS FunctionCost

NumBlocks == 4
MaxSuccs == 2

GraphsOver(n) == [1..n -> UNION {[1..k -> 2..n] : k \in 0..MaxSuccs}]

\* Three blocks under a switch of three cases.
Switches == {<<s>> \o r : s \in [1..3 -> 2..3], r \in [1..2 -> UNION {[1..k -> 2..3] : k \in 0..MaxSuccs}]}

Graphs == UNION {GraphsOver(n) : n \in 0..NumBlocks} \cup Switches

-----------------------------------------------------------------------------
(* The lowering of x86-64, as far as the model asks it *)

Integral == {"i1", "i8", "i16", "i32", "i64"}
Lengths == {2, 4, 8, 16, 32}
ScalarTypes == {Scalar(el) : el \in Integral \cup FloatingPoint \cup {"i128"}}
VectorTypes == {Vector(n, el) : n \in Lengths, el \in Integral \cup FloatingPoint}
Types == ScalarTypes \cup VectorTypes \cup {OtherType}

RegisterBits(avx) == IF avx THEN {128, 256} ELSE {128}
IsLegal(avx, ty) ==
  \/ ty = OtherType
  \/ ~IsVector(ty) /\ ty.el \notin {"i1", "i128"}
  \/ IsVector(ty) /\ ty.el # "i1" /\ Bits(ty) \in RegisterBits(avx)

\* Integer elements grow until the vector fills a register.
Promoted(ty) ==
  LET wider == [i1 |-> "i8", i8 |-> "i16", i16 |-> "i32", i32 |-> "i64"] IN Vector(ty.n, wider[ty.el])

\* LegalizeKind: the action and the type it leads to.
Conversion(avx, ty) ==
  CASE IsLegal(avx, ty) -> [action |-> "legal", to |-> ty]
    [] ty = Scalar("i1") -> [action |-> "promote", to |-> Scalar("i8")]
    [] ty = Scalar("i128") -> [action |-> "expand", to |-> Scalar("i64")]
    [] IsVector(ty) /\ (Bits(ty) > 256 \/ (Bits(ty) > 128 /\ ~avx)) ->
         [action |-> "split", to |-> Vector(ty.n \div 2, ty.el)]
    [] ty.el \in FloatingPoint -> [action |-> "widen", to |-> Vector(2 * ty.n, ty.el)]
    [] OTHER -> [action |-> "promote", to |-> Promoted(ty)]

Expanded ==
  {<<isd, ty>> : isd \in {"UDIV", "UREM", "SREM", "FREM"}, ty \in Types}
  \cup {<<"MUL", Vector(n, "i8")>> : n \in {16, 32}}
  \cup {<<isd, ty>> : isd \in {"FP_TO_UINT", "VSELECT"}, ty \in VectorTypes}
  \cup {<<isd, OtherType>> : isd \in {"SELECT", "VSELECT"}}

Target(avx, sse42) ==
  [avx |-> avx, sse42 |-> sse42, convert |-> [ty \in Types |-> Conversion(avx, ty)],
   expand |-> Expanded,
   freeTrunc |-> {<<Scalar("i64"), Scalar("i32")>>}, freeZExt |-> {<<Scalar("i32"), Scalar("i64")>>}]
MCTargets == [avx |-> Target(TRUE, TRUE), sse42 |-> Target(FALSE, TRUE), sse2 |-> Target(FALSE, FALSE)]

-----------------------------------------------------------------------------
(* Instructions *)

Inst(op, ty, src, index, args) == [op |-> op, ty |-> ty, src |-> src, index |-> index, args |-> args]
Plain(op, ty) == Inst(op, ty, OtherType, UnknownIndex, 0)

Body ==
  <<<<Plain("GetElementPtr", OtherType), Plain("Add", Scalar("i32"))>>,
    <<Plain("Load", Vector(8, "f32")), Plain("intrinsic", OtherType)>>,
    <<Inst("Call", OtherType, OtherType, UnknownIndex, 3), Plain("Alloca", OtherType)>>,
    <<Plain("Sub", Vector(8, "i64")), Plain("Switch", OtherType)>>>>

IntTypes == {ty \in Types : ty.el \in Integral \cup {"i128"}}
FloatTypes == {ty \in Types : ty.el \in FloatingPoint}
Castable(op, dst, src) ==
  /\ op # "BitCast" => dst.n = src.n
  /\ op = "BitCast" => Bits(dst) = Bits(src)
  /\ op \in {"ZExt", "SExt"} => ElementBits[src.el] < ElementBits[dst.el]
  /\ op = "Trunc" => ElementBits[dst.el] < ElementBits[src.el]

AllInsts ==
  {Plain(op, ty) : op \in {"Add", "SDiv", "Mul", "Shl"}, ty \in IntTypes}
  \cup {Plain(op, ty) : op \in {"FSub", "FRem", "FCmp"}, ty \in FloatTypes}
  \cup {Plain("ICmp", ty) : ty \in IntTypes}
  \cup {Plain(op, ty) : op \in {"Load", "Store"}, ty \in Types}
  \cup {Inst("Select", ty, cond, UnknownIndex, 0) : ty \in VectorTypes, cond \in {Scalar("i1"), Vector(4, "i1")}}
  \cup {Inst("InsertElement", ty, OtherType, index, 0) : ty \in VectorTypes, index \in {UnknownIndex, 0, 1, 4}}
  \cup {Plain(op, OtherType) : op \in {"Ret", "Select", "GetElementPtr", "ShuffleVector"}}

Conversions ==
  {i \in {Inst(op, dst, src, UnknownIndex, 0) : op \in {"ZExt", "SExt", "Trunc"}, dst \in IntTypes, src \in IntTypes}
         \cup {Inst("BitCast", dst, src, UnknownIndex, 0) : dst \in IntTypes \cup FloatTypes, src \in IntTypes}
         \cup {Inst("SIToFP", dst, src, UnknownIndex, 0) : dst \in FloatTypes, src \in IntTypes}
         \cup {Inst("FPToUI", dst, src, UnknownIndex, 0) : dst \in IntTypes, src \in FloatTypes} :
     Castable(i.op, i.ty, i.src)}

OneBlock(t, inst) == [target |-> t, cfg |-> <<<<>>>>, body |-> <<<<inst>>>>]

MCFunctions ==
  {[target |-> "avx", cfg |-> g, body |-> Body] : g \in Graphs}
  \cup {OneBlock(t, inst) : t \in DOMAIN MCTargets, inst \in AllInsts \cup Conversions}
=============================================================================
