------------------------------- MODULE MCWKLDchar -------------------------------
(* The instructions and callees that WKLDchar is checked with. *)
EXTENDS WKLDchar

T(elem, n) == [elem |-> elem, n |-> n]
NoCallee == [how |-> "unresolved", lib |-> "none", name |-> "none", prefix |-> "none",
             form |-> "c", atomic |-> FALSE, body |-> FALSE]
Inst(op, ty) == [op |-> op, ty |-> ty, f |-> NoCallee]
Callee(lib, name) == [NoCallee EXCEPT !.how = "direct", !.lib = lib, !.name = name]
CallOf(f) == [op |-> "Call", ty |-> T("void", 0), f |-> f]

IntTys == {T("i8", 0), T("i32", 0), T("i1", 0), T("i32", 4)}
FloatTys == {T("float", 0), T("mmx", 0), T("double", 2)}
OtherTys == {T("struct", 0), T("pointer", 0), T("pointer", 2)}
\* the types LLVM allows for an opcode
TysOf(op) ==
    CASE op \in {"Load", "Store", "Select"} -> IntTys \cup FloatTys \cup OtherTys \cup {T("function", 0)}
      [] op \in IntOps \cup BitwiseOps \cup {"Trunc", "ZExt", "SExt", "FPToUI", "FPToSI", "PtrToInt"} -> IntTys
      [] op = "ICmp" -> IntTys \cup {T("pointer", 0)}
      [] op \in FPOps \cup {"FCmp", "FPTrunc", "FPExt", "UIToFP", "SIToFP"} -> FloatTys
      [] op = "BitCast" -> IntTys \cup FloatTys \cup {T("pointer", 0), T("pointer", 2)}
      [] op \in {"IntToPtr", "AddrSpaceCast"} -> {T("pointer", 0), T("pointer", 2)}
      [] op \in VectorOps -> {T("i32", 4), T("double", 2), T("pointer", 2)}
      [] op = "GetElementPtr" -> {T("i64", 0), T("i64", 4)}
      [] OTHER -> {T("void", 0)}

MPIPrefixed(p) == [Callee("MPI", "Create") EXCEPT !.prefix = p]
Callees ==
    {Callee("MPI", n) : n \in environment_management \cup point_to_point \cup collective
                                \cup virtual_topology \cup miscellaneous \cup {"Get", "Put"}}
      \cup {MPIPrefixed(p) : p \in DOMAIN MPIPrefixes}
      \cup {Callee("kmpc", n) : n \in OMPRoutines \cup {"omp_taskwait"}}
      \cup {[Callee("kmpc", "atomic_start") EXCEPT !.atomic = TRUE], Callee("none", "malloc"),
            [Callee("none", "work") EXCEPT !.body = TRUE], NoCallee,
            [Callee("MPI", "Send") EXCEPT !.form = "fortran"], [Callee("MPI", "Send") EXCEPT !.how = "pointer"],
            [Callee("kmpc", "barrier") EXCEPT !.how = "pointer"]}

MCInstructions == UNION {{Inst(op, ty) : ty \in TysOf(op)} : op \in Opcodes \ {"Call"}}
                    \cup {CallOf(f) : f \in Callees}
================================================================================
