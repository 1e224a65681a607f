--------------------------- MODULE InstructionCost ---------------------------
(***************************************************************************)
(* What one instruction costs: CostModel::getInstructionCost over the x86  *)
(* model (lib/analyzer/CostModel/CostModel.cpp, X86CostModel.cpp) and the  *)
(* defaults it falls back to (TargetTransformStub.cpp).                    *)
(*                                                                         *)
(* A type is an element type and a number of elements, 0 for a scalar.  A  *)
(* target T is what LLVM's lowering says of it: its features (avx, sse42), *)
(* its next step in making a type legal (convert), the operations it       *)
(* expands on a legal type, and its free truncations and extensions.       *)
(*                                                                         *)
(* An instruction is its opcode, the type it is costed by, the type it     *)
(* takes (of a cast or a select's condition), the constant index of an     *)
(* element and the number of arguments of a call.                          *)
(***************************************************************************)
EXTENDS Integers, Sequences, FiniteSets, SequencesExt

UnknownCost == -1    \* (unsigned) -1
UnknownIndex == -1   \* an index that is no constant

Scalar(el) == [el |-> el, n |-> 0]
Vector(n, el) == [el |-> el, n |-> n]
IsVector(ty) == ty.n > 0
ElementOf(ty) == Scalar(ty.el)

OtherType == Scalar("Other")   \* MVT::Other, of an aggregate

ElementBits == [i1 |-> 1, i8 |-> 8, i16 |-> 16, i32 |-> 32, i64 |-> 64, i128 |-> 128, f32 |-> 32, f64 |-> 64]
Bits(ty) == ElementBits[ty.el] * (IF IsVector(ty) THEN ty.n ELSE 1)
FloatingPoint == {"f32", "f64"}

\* InstructionOpcodeToISD, of the opcodes it is asked for; a signed division
\* becomes an unsigned one.
ISD ==
  [Add |-> "ADD", FAdd |-> "FADD", Sub |-> "SUB", FSub |-> "FSUB", Mul |-> "MUL", FMul |-> "FMUL",
   UDiv |-> "UDIV", SDiv |-> "UDIV", FDiv |-> "FDIV", URem |-> "UREM", SRem |-> "SREM", FRem |-> "FREM",
   Shl |-> "SHL", LShr |-> "SRL", AShr |-> "SRA", And |-> "AND", Or |-> "OR", Xor |-> "XOR",
   Trunc |-> "TRUNCATE", ZExt |-> "ZERO_EXTEND", SExt |-> "SIGN_EXTEND",
   FPToUI |-> "FP_TO_UINT", FPToSI |-> "FP_TO_SINT", UIToFP |-> "UINT_TO_FP", SIToFP |-> "SINT_TO_FP",
   FPTrunc |-> "FP_ROUND", FPExt |-> "FP_EXTEND",
   PtrToInt |-> "BITCAST", IntToPtr |-> "BITCAST", BitCast |-> "BITCAST",
   ICmp |-> "SETCC", FCmp |-> "SETCC", Select |-> "SELECT"]

Flow == {"Ret", "PHI", "Br"}
Arithmetic ==
  {"Add", "FAdd", "Sub", "FSub", "Mul", "FMul", "UDiv", "SDiv", "FDiv", "URem", "SRem", "FRem",
   "Shl", "LShr", "AShr", "And", "Or", "Xor"}
Comparisons == {"ICmp", "FCmp"}
MemoryOps == {"Load", "Store"}
Casts ==
  {"ZExt", "SExt", "FPToUI", "FPToSI", "FPExt", "PtrToInt", "IntToPtr", "SIToFP", "UIToFP", "Trunc",
   "FPTrunc", "BitCast"}

-----------------------------------------------------------------------------
(* VectorTargetTransformStub *)

\* What one step of making a type legal adds.  Slip: a split costs nothing.
SplitIsFree(action) == 1
PartsOf(action) == IF action \in {"split", "expand"} THEN 2 ELSE 1

\* getTypeLegalizationCost: the legal parts a value needs, and their type.
Legalized(T, ty) ==
  LET step[t \in DOMAIN T.convert] ==
        LET c == T.convert[t]
        IN IF c.action = "legal" THEN [parts |-> 1, type |-> t]
           ELSE [step[c.to] EXCEPT !.parts = PartsOf(c.action) * @]
  IN step[ty]

Expands(T, isd, legal) == <<isd, legal>> \in T.expand

\* One move for each element put in and for each taken out.
ScalarizationOverhead(ty, insert, extract) ==
  (IF insert THEN ty.n ELSE 0) + (IF extract THEN ty.n ELSE 0)

\* getArithmeticInstrCost and getCmpSelInstrCost: a supported operation costs
\* one for each part; else a vector is taken apart and each element worked on
\* alone.  A scalar operation the target expands counts as one.
ScalarOpCost(T, isd, ty) ==
  LET l == Legalized(T, ty) IN IF Expands(T, isd, l.type) THEN 1 ELSE l.parts
OpCost(T, isd, scalarISD, ty, extract) ==
  LET l == Legalized(T, ty)
  IN IF IsVector(ty) /\ Expands(T, isd, l.type)
     THEN ScalarizationOverhead(ty, TRUE, extract) + ty.n * ScalarOpCost(T, scalarISD, ElementOf(ty))
     ELSE ScalarOpCost(T, isd, ty)

\* getCastInstrCost of two scalars.
ScalarCastCost(T, op, dst, src) ==
  LET d == Legalized(T, dst).type
      s == Legalized(T, src).type
  IN IF \/ op = "BitCast"
        \/ op = "Trunc" /\ <<s, d>> \in T.freeTrunc
        \/ op = "ZExt" /\ <<s, d>> \in T.freeZExt
     THEN 0
     ELSE IF Expands(T, ISD[op], d) THEN 4 ELSE 1

\* getCastInstrCost of two vectors: in registers of the same size it may cost
\* little or nothing, else the vector is taken apart.
VectorCastCost(T, op, dst, src) ==
  LET d == Legalized(T, dst)
      s == Legalized(T, src)
      sameRegisters == s.parts = d.parts /\ Bits(s.type) = Bits(d.type)
  IN IF sameRegisters /\ op \in {"BitCast", "Trunc"} THEN 0
     ELSE IF sameRegisters /\ op = "ZExt" THEN 1
     ELSE IF sameRegisters /\ op = "SExt" THEN 2
     ELSE IF sameRegisters /\ ~Expands(T, ISD[op], d.type) THEN s.parts
     ELSE ScalarizationOverhead(dst, TRUE, TRUE) + dst.n * ScalarCastCost(T, op, ElementOf(dst), ElementOf(src))

\* Between a vector and a scalar only a bitcast is legal.
CastCost(T, op, dst, src) ==
  IF ~IsVector(dst) /\ ~IsVector(src) THEN ScalarCastCost(T, op, dst, src)
  ELSE IF IsVector(dst) /\ IsVector(src) THEN VectorCastCost(T, op, dst, src)
  ELSE ScalarizationOverhead(src, FALSE, TRUE) + ScalarizationOverhead(dst, TRUE, FALSE)

-----------------------------------------------------------------------------
(* X86CostModel: what AVX and SSE 4.2 change *)

AVX1Cost == [k \in {"MUL", "SUB", "ADD"} \X {Vector(8, "i32"), Vector(4, "i64")} |-> 4]

SSE42CmpCost ==
  [k \in {<<"SETCC", Vector(2, "f64")>>, <<"SETCC", Vector(4, "f32")>>, <<"SETCC", Vector(2, "i64")>>,
          <<"SETCC", Vector(4, "i32")>>, <<"SETCC", Vector(8, "i16")>>, <<"SETCC", Vector(16, "i8")>>} |-> 1]
AVX1CmpCost ==
  [k \in {<<"SETCC", Vector(4, "f64")>>, <<"SETCC", Vector(8, "f32")>>} |-> 1] @@
  [k \in {<<"SETCC", Vector(4, "i64")>>, <<"SETCC", Vector(8, "i32")>>, <<"SETCC", Vector(16, "i16")>>,
          <<"SETCC", Vector(32, "i8")>>} |-> 4]

\* Of a conversion: the operation, the type it yields and the type it takes.
AVXConversionCost ==
  [k \in {<<isd, Vector(8, "i32"), Vector(8, "i16")>> : isd \in {"SIGN_EXTEND", "ZERO_EXTEND"}}
         \cup {<<isd, Vector(4, "i64"), Vector(4, "i32")>> : isd \in {"SIGN_EXTEND", "ZERO_EXTEND"}}
         \cup {<<"TRUNCATE", Vector(4, "i32"), Vector(4, "i64")>>, <<"TRUNCATE", Vector(8, "i16"), Vector(8, "i32")>>}
         \cup {<<isd, Vector(n, "f32"), Vector(n, "i8")>> : isd \in {"SINT_TO_FP", "UINT_TO_FP"}, n \in {4, 8}}
         \cup {<<"FP_TO_SINT", Vector(n, "i8"), Vector(n, "f32")>> : n \in {4, 8}} |-> 1] @@
  (<<"TRUNCATE", Vector(8, "i32"), Vector(8, "i64")>> :> 3)

getArithmeticInstrCost(T, op, ty) ==
  LET l == Legalized(T, ty)
  IN IF T.avx /\ <<ISD[op], l.type>> \in DOMAIN AVX1Cost
     THEN l.parts * AVX1Cost[<<ISD[op], l.type>>]
     ELSE OpCost(T, ISD[op], ISD[op], ty, TRUE)

\* A select by a vector of conditions is another operation than one by a single
\* condition, until it is taken apart.
getCmpSelInstrCost(T, op, ty, cond) ==
  LET l == Legalized(T, ty)
      key == <<ISD[op], l.type>>
  IN IF T.sse42 /\ key \in DOMAIN SSE42CmpCost THEN l.parts * SSE42CmpCost[key]
     ELSE IF T.avx /\ key \in DOMAIN AVX1CmpCost THEN l.parts * AVX1CmpCost[key]
     ELSE OpCost(T, IF op = "Select" /\ IsVector(cond) THEN "VSELECT" ELSE ISD[op], ISD[op], ty, FALSE)

\* The table is asked by the types as they are, not as they are made legal.
getCastInstrCost(T, op, dst, src) ==
  IF T.avx /\ <<ISD[op], dst, src>> \in DOMAIN AVXConversionCost
  THEN AVXConversionCost[<<ISD[op], dst, src>>]
  ELSE CastCost(T, op, dst, src)

\* An element is free when it lies at the start of its register, and the value
\* is a floating-point one, or when no vector is left.
getVectorInstrCost(T, ty, index) ==
  LET l == Legalized(T, ty).type
  IN IF /\ index # UnknownIndex
        /\ ~IsVector(l) \/ (ty.el \in FloatingPoint /\ index % l.n = 0)
     THEN 0 ELSE 1

\* A 256-bit access is double pumped.  Slip: counted as one.
PumpedOnce(legal) == 1
Pumps(legal) == IF legal # OtherType /\ Bits(legal) > 128 THEN 2 ELSE 1

getMemoryOpCost(T, ty) == LET l == Legalized(T, ty) IN l.parts * Pumps(l.type)

-----------------------------------------------------------------------------
(* CostModel *)

\* Of what it does not list (a switch, an address computation, a shuffle) the
\* model knows nothing.
getInstructionCost(T, inst) ==
  CASE inst.op = "intrinsic" -> 0
    [] inst.op \in Flow -> 1
    [] inst.op \in Arithmetic -> getArithmeticInstrCost(T, inst.op, inst.ty)
    [] inst.op \in Comparisons \cup {"Select"} -> getCmpSelInstrCost(T, inst.op, inst.ty, inst.src)
    [] inst.op = "Alloca" -> 0
    [] inst.op \in MemoryOps -> getMemoryOpCost(T, inst.ty)
    [] inst.op \in Casts -> getCastInstrCost(T, inst.op, inst.ty, inst.src)
    [] inst.op \in {"ExtractElement", "InsertElement"} -> getVectorInstrCost(T, inst.ty, inst.index)
    [] inst.op = "Call" -> inst.args + 1
    [] OTHER -> UnknownCost

\* What an instruction adds to its block.  Slip: the unknown counts as one.
UnknownIsBasic(T, inst) == LET c == getInstructionCost(T, inst) IN IF c = UnknownCost THEN 1 ELSE c
Added(T, inst) == LET c == getInstructionCost(T, inst) IN IF c = UnknownCost THEN 0 ELSE c

getBasicBlockCost(T, insts) == FoldLeft(LAMBDA cost, inst : cost + Added(T, inst), 0, insts)
=============================================================================
