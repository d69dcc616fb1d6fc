----------------------------- MODULE InstructionMix -----------------------------
(* Instruction mix (src/library/InstructionMix.cc) and instruction classes    *)
(* (src/library/InstructionAnalysis.cc), as operators: which counters an      *)
(* executed instruction moves and what the report prints of them. num is the  *)
(* function Num<Opcode>Inst, counters the nested map "counters", keyed by     *)
(* opcode and bucket. The counters of loads and stores by type are left out:  *)
(* only JSONdump prints them, which nothing calls.                            *)
EXTENDS Integers, Sequences, FiniteSets, FiniteSetsExt

\* opcode classes: the sums of the getters
CtrlOps == {"Ret", "Br", "Switch", "IndirectBr", "Invoke", "Resume", "Unreachable", "Call"}
IntOps == {"Add", "Sub", "Mul", "UDiv", "SDiv", "URem", "SRem"}
AddrOps == {"Alloca", "GetElementPtr"}
MemOps == {"Load", "Store", "AtomicCmpXchg", "AtomicRMW"}
\* mutant: the comparisons are counted with the arithmetic
FPOps_m == {"FAdd", "FSub", "FMul", "FDiv", "FRem", "FCmp"}
FPOps == {"FAdd", "FSub", "FMul", "FDiv", "FRem"}
ConvOps == {"Trunc", "ZExt", "SExt", "FPTrunc", "FPExt", "FPToUI", "FPToSI", "UIToFP", "SIToFP",
            "IntToPtr", "PtrToInt", "BitCast", "AddrSpaceCast"}
BitwiseOps == {"And", "Or", "Xor", "Shl", "LShr", "AShr"}
VectorOps == {"ExtractElement", "InsertElement", "ShuffleVector"}
AggregateOps == {"ExtractValue", "InsertValue"}
MiscOps == {"Select", "LandingPad", "VAArg"}

\* the groups the report prints, each with its total
Groups == {{"Load"}, {"Store"}, {"AtomicCmpXchg", "AtomicRMW"}, IntOps, {"ICmp"}, FPOps, {"FCmp"},
           BitwiseOps, ConvOps, AddrOps, CtrlOps, {"PHI"}, {"Fence"}, VectorOps, AggregateOps, MiscOps}
Opcodes == UNION Groups
getNum(num, ops) == SumFunctionOnSet(num, ops)

\* getInstType: the class the other analyses see
getInstType(op) ==
    CASE op \in CtrlOps -> "CTRL" [] op = "ICmp" -> "INT_CMP" [] op = "FCmp" -> "FP_CMP"
      [] op = "PHI" -> "PHI" [] op \in IntOps -> "INT" [] op \in FPOps -> "FP"
      [] op \in {"Load", "Store"} -> "MEM" [] op \in {"AtomicCmpXchg", "AtomicRMW"} -> "ATOMIC_MEM"
      [] op = "Fence" -> "SYNC" [] op \in AddrOps -> "ARITH_ADDRESS" [] op \in BitwiseOps -> "BITWISE"
      [] op \in ConvOps -> "CONV" [] op \in MiscOps -> "MISC" [] op \in VectorOps -> "MISC_VECTOR"
      [] op \in AggregateOps -> "MISC_AGGREGATE"
\* mutant: address computations are left out
isOfIntegerType_m(op) == getInstType(op) \in {"CONV", "BITWISE", "INT", "INT_CMP"}
isOfIntegerType(op) == getInstType(op) \in {"CONV", "BITWISE", "INT", "INT_CMP", "ARITH_ADDRESS"}
isOfControlType(op) == getInstType(op) = "CTRL"
isOfFloatingPointType(op) == getInstType(op) \in {"FP", "FP_CMP"}
isOfMemoryType(op) == getInstType(op) \in {"ATOMIC_MEM", "MEM"}

--------------------------------------------------------------------------------
\* A type is [elem, n]: n = 0 for a scalar, the number of elements of a vector.
Floats == {"half", "float", "double", "x86_fp80", "fp128", "ppc_fp128", "mmx"}
Ints == {"i4", "i8", "i16", "i32", "i64", "int_misc"}
Aggregates == {"struct", "array", "pointer"}
slot(elem) == IF elem \in {"i1", "i128"} THEN "int_misc" ELSE elem

Scalar(elem) == [kind |-> "scalar", n |-> 0, slot |-> slot(elem)]
Vector(ty) == [kind |-> "vector", n |-> ty.n, slot |-> slot(ty.elem)]
Misc == [kind |-> "misc", n |-> 0, slot |-> "none"]
Nowhere == [kind |-> "none", n |-> 0, slot |-> "none"]

\* mutant: a load or store of a pointer is counted nowhere
visitMemoryInstruction_m(ty) ==
    IF ty.n > 0 THEN Vector(ty)
    ELSE IF ty.elem = "pointer" THEN Nowhere
    ELSE IF slot(ty.elem) \in Floats \cup Ints \cup Aggregates THEN Scalar(ty.elem)
    ELSE Misc
\* loads and stores: the type pointed to
visitMemoryInstruction(ty) ==
    IF ty.n > 0 THEN Vector(ty)
    ELSE IF slot(ty.elem) \in Floats \cup Ints \cup Aggregates THEN Scalar(ty.elem)
    ELSE Misc

\* the other opcodes: the type of an operand or of the result
visitArith(ty) ==
    IF ty.n > 0 THEN Vector(ty)
    ELSE IF slot(ty.elem) \in Floats \cup Ints \cup {"void"} THEN Scalar(ty.elem)
    ELSE Misc
\* address computations count by type only when they compute a vector
visitGetElementPtr(ty) == IF ty.n > 0 THEN Vector(ty) ELSE Misc

ArithOps == IntOps \cup FPOps \cup BitwiseOps \cup {"ICmp", "FCmp", "Select"} \cup ConvOps \cup VectorOps
bucket(op, ty) ==
    CASE op \in {"Load", "Store"} -> visitMemoryInstruction(ty)
      [] op = "GetElementPtr" -> visitGetElementPtr(ty)
      [] op \in ArithOps -> visitArith(ty)
      [] OTHER -> Nowhere

--------------------------------------------------------------------------------
\* the report: which element types are printed for an opcode
IntsOnly == IntOps \cup {"ICmp", "Trunc", "ZExt", "SExt", "FPToUI", "FPToSI"}
FloatsOnly == FPOps \cup {"FCmp", "FPTrunc", "FPExt", "UIToFP", "SIToFP", "PtrToInt"}
BrokenDown == {"Load", "Store", "GetElementPtr"} \cup (ArithOps \cup AggregateOps)
printed_slots(op) ==
    Aggregates \cup (IF op \in IntsOnly THEN {} ELSE Floats) \cup (IF op \in FloatsOnly THEN {} ELSE Ints)

JSONdump_partial(counters, op, kind, n) ==
    SumFunctionOnSet(counters, {k \in DOMAIN counters :
        k.op = op /\ k.bucket.kind = kind /\ k.bucket.n = n /\ k.bucket.slot \in printed_slots(op)})
JSONdump_perType(counters, num, op) ==
    LET sizes == {k.bucket.n : k \in {j \in DOMAIN counters : j.op = op /\ j.bucket.kind = "vector"}}
    IN  [total |-> num[op],
         scalar |-> JSONdump_partial(counters, op, "scalar", 0),
         vector |-> SumFunctionOnSet([n \in sizes |-> JSONdump_partial(counters, op, "vector", n)], sizes),
         misc |-> SumFunctionOnSet(counters, {k \in DOMAIN counters : k.op = op /\ k.bucket = Misc})]
================================================================================
