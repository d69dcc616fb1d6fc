------------------------------ MODULE MCReplay ------------------------------
(* Small programs for Replay.                                              *)
EXTENDS Replay

I(op) == [op |-> op, to |-> {}]
Br(bs) == [op |-> "br", to |-> bs]
C(op, f) == [op |-> op, to |-> f]

\* Branches, a loop, recursion, loads before and behind calls, intrinsics,
\* external calls, MPI calls with a hook, a call through a loaded pointer.
AllOf(icall) == [main |-> << <<I("op"), I("mem"), I("llvm"), C("call", "f"), I("ext"),
                               I("mem"), Br({1, 2})>>,
                            <<I("mpi"), I("op"), C("call", "g"), C(icall, "f"),
                              I("mpi"), I("mem"), I("ret")>> >>,
                 f |-> << <<I("op"), Br({1, 2, 3})>>,
                          <<I("mem"), C("call", "g"), I("ret")>>,
                          <<I("llvm"), I("mpi"), I("ret")>> >>,
                 g |-> << <<I("mem"), Br({2, 3})>>,
                          <<C("call", "g"), I("mem"), I("ret")>>,
                          <<I("ret")>> >>]

\* All programs of one block per function, over small sets of instructions.
Bodies(ops, n) == UNION {[1..k -> ops] : k \in 0..n}
Straight(ops, n) == {Append(b, I("ret")) : b \in Bodies(ops, n)}
Small(call) ==
    {[main |-> <<m>>, f |-> <<b>>, g |-> << <<I("op"), I("ret")>> >>] :
        m \in Straight({I("op"), I("mem"), I("mpi"), I("llvm"), C(call, "f")}, 3),
        b \in Straight({I("mem"), I("mpi"), I("ext"), C("call", "g")}, 2)}

\* server.cc with -mpi-map, directly called functions and an include list.
InServer(codes, include, exclude) ==
    {[code |-> c, decoupled |-> TRUE, mpiMap |-> TRUE, include |-> include,
      exclude |-> exclude] : c \in codes}
\* libanalysisCoupled.cc, calls through loaded pointers and an exclude list.
InProcess(codes) ==
    {[code |-> c, decoupled |-> FALSE, mpiMap |-> FALSE, include |-> {}, exclude |-> {"g"}] :
        c \in codes}
MCSetups == InServer({AllOf("call")} \cup Small("call"), {"f"}, {})
            \cup InServer({AllOf("call")}, {"f"}, {"g"})
            \cup InServer({AllOf("call")}, {"g"}, {"f"})
            \cup InProcess({AllOf("icall")} \cup Small("icall"))
\* The walk can follow all of them, so the invariant says something of each.
ASSUME FollowedAssumption == \A s \in MCSetups : Followed(s)

\* Setups in which a property fails (see README, further instances).
Plain(c, decoupled, mpiMap) ==
    {[code |-> c, decoupled |-> decoupled, mpiMap |-> mpiMap, include |-> {}, exclude |-> {}]}
OneBlock(b) == [main |-> <<b>>]
\* MPI_Waitall has a hook but is not among the calls the walk stops at.
Waitall == Plain(OneBlock(<<I("op"), I("hooked"), I("op"), I("mem"), I("ret")>>), TRUE, TRUE)
\* A synchronous MPI call without -mpi-map.
NoMpiMap == Plain(OneBlock(<<I("op"), I("mpi"), I("op"), I("mem"), I("ret")>>), TRUE, FALSE)
\* MPI_Init followed by a load.
InitLoad == Plain(OneBlock(<<I("op"), I("init"), I("mem"), I("op"), I("ret")>>), TRUE, TRUE)
\* main calls f, f calls qsort(..., cmp) and then returns.
Callback == Plain([main |-> << <<C("call", "f"), I("mem"), I("ret")>> >>,
                   f |-> << <<C("back", "g"), I("mem"), I("ret")>> >>,
                   g |-> << <<I("op"), I("ret")>> >>], FALSE, FALSE)
\* main calls f, which calls g through a pointer a load produced.
Indirect == Plain([main |-> << <<C("call", "f"), I("mem"), I("ret")>> >>,
                   f |-> << <<I("mem"), C("icall", "g"), I("mem"), I("ret")>> >>,
                   g |-> << <<I("op"), I("ret")>> >>], TRUE, TRUE)
=============================================================================
