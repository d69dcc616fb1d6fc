-------------------------------- MODULE WKLDchar --------------------------------
(* The counting analyses of one thread (src/library/WKLDchar.cc): analyze     *)
(* hands each executed instruction to the instruction mix, the MPI and OpenMP *)
(* call counts and the external-library counts, in that order; the report     *)
(* prints their counters. history keeps the executed instructions.            *)
EXTENDS InstructionMix, CallStats

CONSTANTS
    Instructions,   \* [op, ty, f]: opcode, the type that is looked at, the callee
    MaxExecuted     \* bound on the executed instructions

\* The types LLVM allows for the operand or result that a visit looks at: the
\* elements of a vector are numbers or pointers, integer and floating-point
\* opcodes work on their kind, and only a scalar result can be void.
IntElems == Ints \cup {"i1", "i128"}
TypeAllowed(op, ty) ==
    /\ ty.n \in Nat
    /\ ty.n > 0 => ty.elem \in IntElems \cup Floats \cup {"pointer"}
    /\ op \in IntsOnly => ty.elem \in IntElems \cup {"pointer"}
    /\ op \in FloatsOnly \ {"PtrToInt"} => ty.elem \in Floats
    /\ op \in ArithOps => ty.elem # "void"

\* what holds of the instructions of a program; the routines of the MPI and
\* OpenMP runtimes are linked in, so that the program has no body for them
ASSUME InstructionsAssumption ==
    \A I \in Instructions :
        /\ I.op \in Opcodes /\ TypeAllowed(I.op, I.ty)
        /\ I.op = "Call" /\ I.f.how = "direct" /\ I.f.lib \in {"MPI", "kmpc"} => ~I.f.body

VARIABLES num, counters, mpi, omp, callCount, history

vars == <<num, counters, mpi, omp, callCount, history>>

Init ==
    /\ num = [op \in Opcodes |-> 0]
    /\ counters = <<>>
    /\ mpi = [c \in MPIGroups \cup point_to_point \cup collective |-> 0]
    /\ omp = [c \in OMPGroups \cup OMPRoutines \cup {"end_reduce_wait"} |-> 0]
    /\ callCount = <<>>
    /\ history = <<>>

\* map[key]++, where a missing key counts as 0
Incremented(f, k) == [x \in DOMAIN f \cup {k} |-> IF x \notin DOMAIN f THEN 1 ELSE f[x] + IF x = k THEN 1 ELSE 0]
Bumped(f, keys) == [x \in DOMAIN f |-> f[x] + IF x \in keys THEN 1 ELSE 0]

\* InstructionMix::visit and the two breakdowns that follow it
mix_visit(I) ==
    LET b == bucket(I.op, I.ty)
    IN  /\ num' = Bumped(num, {I.op})
        /\ counters' = IF b = Nowhere THEN counters ELSE Incremented(counters, [op |-> I.op, bucket |-> b])

\* mutant: pointers to functions are followed here as well
mpi_visit_m(I) ==
    mpi' = IF I.op = "Call" /\ I.f.lib = "MPI" THEN Bumped(mpi, MPICounters(I.f)) ELSE mpi
\* MPIstats::visit and OpenMPstats::visit see direct calls only
mpi_visit(I) ==
    mpi' = IF I.op = "Call" /\ I.f.how = "direct" /\ I.f.lib = "MPI" THEN Bumped(mpi, MPICounters(I.f)) ELSE mpi
omp_visit(I) ==
    omp' = IF I.op = "Call" /\ I.f.how = "direct" /\ I.f.lib = "kmpc" THEN Bumped(omp, OMPCounters(I.f)) ELSE omp
\* ExternalLibraryCount::visit follows pointers to functions and leaves out
\* functions with a body
elc_visit(I) ==
    callCount' = IF I.op = "Call" /\ I.f.how # "unresolved" /\ ~I.f.body
                 THEN Incremented(callCount, [lib |-> I.f.lib, name |-> I.f.name, form |-> I.f.form])
                 ELSE callCount

\* A phi goes to the instruction-level parallelism only.
analyze_phi(I) ==
    /\ I.op = "PHI"
    /\ history' = Append(history, I)
    /\ UNCHANGED <<num, counters, mpi, omp, callCount>>

analyze(I) ==
    /\ I.op # "PHI"
    /\ mix_visit(I) /\ mpi_visit(I) /\ omp_visit(I) /\ elc_visit(I)
    /\ history' = Append(history, I)

Next == Len(history) < MaxExecuted /\ \E I \in Instructions : analyze_phi(I) \/ analyze(I)
Spec == Init /\ [][Next]_vars

--------------------------------------------------------------------------------
Executed(P(_)) == Cardinality({n \in DOMAIN history : P(history[n])})
Total(f, keys) == SumFunctionOnSet(f, keys)

\* The numerators of the arithmetic means that the ILP report prints.
ilp_mem(n) == getNum(n, MemOps)
ilp_int(n) == getNum(n, IntOps) + getNum(n, BitwiseOps) + getNum(n, ConvOps) + n["ICmp"] + getNum(n, AddrOps)
ilp_ctrl(n) == getNum(n, CtrlOps)
ilp_fp(n) == getNum(n, FPOps) + n["FCmp"]

\* Every executed instruction but the phis is in exactly one group of the
\* report, so that the groups add up to instructions_analyzed.
MixAddsUp ==
    /\ getNum(num, Opcodes) = Executed(LAMBDA I : I.op # "PHI")
    /\ Total([g \in Groups |-> getNum(num, g)], Groups) = getNum(num, Opcodes)

\* The mean parallelism of a type divides by a span over the instructions that
\* ILP::visit classified with InstructionAnalysis; the numerator, a sum of
\* getters of the mix, counts the same instructions.
MeansAgree ==
    /\ ilp_mem(num) = Executed(LAMBDA I : isOfMemoryType(I.op))
    /\ ilp_int(num) = Executed(LAMBDA I : isOfIntegerType(I.op))
    /\ ilp_ctrl(num) = Executed(LAMBDA I : isOfControlType(I.op))
    /\ ilp_fp(num) = Executed(LAMBDA I : isOfFloatingPointType(I.op))

\* Where the report breaks an opcode down, scalar, vector and miscellaneous
\* instructions add up to its total. Three opcodes are exceptions of the code:
\* ptrtoint prints only floating-point slots, and extractvalue and insertvalue
\* are never entered into the breakdown.
BreakdownComplete ==
    \A op \in BrokenDown \ {"PtrToInt", "ExtractValue", "InsertValue"} :
        LET r == JSONdump_perType(counters, num, op) IN r.total = r.scalar + r.vector + r.misc

\* The groups of the MPI and OpenMP reports add up to the direct calls
\* executed, the lines of a group to its total (two lines of the OpenMP report
\* print another counter), and every MPI or OpenMP routine without a body that
\* these reports count is also counted as external, along with the ones called
\* through a pointer.
CallsAddUp ==
    /\ Total(mpi, MPIGroups) = Executed(LAMBDA I : I.op = "Call" /\ I.f.how = "direct" /\ I.f.lib = "MPI")
    /\ Total(mpi, point_to_point) = mpi["point_to_point"]
    /\ Total(mpi, collective) = mpi["collective"]
    /\ Total(omp, OMPGroups) = Executed(LAMBDA I : I.op = "Call" /\ I.f.how = "direct" /\ I.f.lib = "kmpc")
    /\ \A g \in DOMAIN OMPMembers :
          Total([l \in OMPRoutines |-> omp[OMPPrinted(l)]], OMPMembers[g] \ OMPMisprinted)
            = omp[g] - Total(omp, OMPMembers[g] \cap OMPMisprinted)
    /\ Total(callCount, DOMAIN callCount) >= Total(mpi, MPIGroups) + Total(omp, OMPGroups)
================================================================================
