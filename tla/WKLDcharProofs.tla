----------------------------- MODULE WKLDcharProofs -----------------------------
(* What the analyses report is right, for every program and however long it   *)
(* runs: proofs about WKLDchar, whose counts add up, and about ReuseDistance,  *)
(* whose distances are exact.                                                 *)
EXTENDS WKLDchar, ReuseDistance, Induction, FiniteSetTheorems, TLAPS

HIDE ReuseAssumption

--------------------------------------------------------------------------------
(* Finite sets written out.                                                   *)

LEMMA FiniteTen ==
    ASSUME NEW a, NEW b, NEW c, NEW d, NEW e, NEW f, NEW g, NEW h, NEW i, NEW j
    PROVE  IsFiniteSet({a, b, c, d, e, f, g, h, i, j})
<1>1. \A x : IsFiniteSet({x})
  BY FS_Singleton
<1>2. \A x, y : IsFiniteSet({x, y})
  <2> SUFFICES ASSUME NEW x, NEW y PROVE IsFiniteSet({x, y})
    OBVIOUS
  <2>1. {x, y} = {x} \cup {y}
    OBVIOUS
  <2>2. IsFiniteSet({x} \cup {y})
    BY <1>1, FS_Union
  <2> QED BY <2>1, <2>2, Zenon
<1>3. \A x, y, z : IsFiniteSet({x, y, z})
  <2> SUFFICES ASSUME NEW x, NEW y, NEW z PROVE IsFiniteSet({x, y, z})
    OBVIOUS
  <2>1. {x, y, z} = {x, y} \cup {z}
    OBVIOUS
  <2>2. IsFiniteSet({x, y} \cup {z})
    BY <1>1, <1>2, FS_Union
  <2> QED BY <2>1, <2>2, Zenon
<1>4. IsFiniteSet({a, b, c} \cup {d, e, f})
  BY <1>3, FS_Union
<1>5. IsFiniteSet({g, h, i} \cup {j})
  BY <1>1, <1>3, FS_Union
<1>6. IsFiniteSet(({a, b, c} \cup {d, e, f}) \cup ({g, h, i} \cup {j}))
  BY <1>4, <1>5, FS_Union
<1>7. {a, b, c, d, e, f, g, h, i, j} = ({a, b, c} \cup {d, e, f}) \cup ({g, h, i} \cup {j})
  OBVIOUS
<1> QED BY <1>6, <1>7, Zenon

\* The groups of the call counts are finite.
LEMMA FiniteCalls ==
    /\ IsFiniteSet(MPIGroups) /\ IsFiniteSet(point_to_point) /\ IsFiniteSet(collective)
    /\ IsFiniteSet(OMPGroups) /\ \A g \in DOMAIN OMPMembers : IsFiniteSet(OMPMembers[g])
<1>1. IsFiniteSet(MPIGroups)
  <2>1. MPIGroups =
           {"environment_management", "point_to_point", "collective", "process_group", "communicators",
            "derived_types", "virtual_topology", "miscellaneous", "others", "others"}
    BY Zenon DEF MPIGroups
  <2>2. IsFiniteSet({"environment_management", "point_to_point", "collective", "process_group", "communicators",
                    "derived_types", "virtual_topology", "miscellaneous", "others", "others"})
    BY FiniteTen
  <2> QED BY <2>1, <2>2, Zenon
<1>2. IsFiniteSet(point_to_point)
  <2> DEFINE A == {"Bsend", "Bsend_init", "Buffer_attach", "Buffer_detach", "Cancel", "Get_count",
                   "Get_elements", "Ibsend", "Iprobe", "Irecv"}
             B == {"Irsend", "Isend", "Issend", "Probe", "Recv", "Recv_init", "Request_free", "Rsend",
                   "Rsend_init", "Send"}
             C == {"Send_init", "Sendrecv", "Sendrecv_replace", "Ssend", "Ssend_init", "Start", "Startall",
                   "Test", "Test_cancelled", "Testall"}
             D == {"Testany", "Testsome", "Wait", "Waitall", "Waitany", "Waitsome", "Waitsome", "Waitsome",
                   "Waitsome", "Waitsome"}
  <2>1. IsFiniteSet(A) /\ IsFiniteSet(B) /\ IsFiniteSet(C) /\ IsFiniteSet(D)
    BY FiniteTen
  <2>2. point_to_point = (A \cup B) \cup (C \cup D)
    BY Zenon DEF point_to_point
  <2> HIDE DEF A, B, C, D
  <2>3. IsFiniteSet((A \cup B) \cup (C \cup D))
    BY <2>1, FS_Union
  <2> QED BY <2>2, <2>3, Zenon
<1>3. IsFiniteSet(collective)
  <2> DEFINE A == {"Allgather", "Allgatherv", "Allreduce", "Alltoall", "Alltoallv", "Barrier", "Bcast",
                   "Gather", "Gatherv", "Op_create"}
             B == {"Op_free", "Reduce", "Reduce_scatter", "Scan", "Scatter", "Scatterv", "Scatterv", "Scatterv",
                   "Scatterv", "Scatterv"}
  <2>1. IsFiniteSet(A) /\ IsFiniteSet(B)
    BY FiniteTen
  <2>2. collective = A \cup B
    BY Zenon DEF collective
  <2> HIDE DEF A, B
  <2>3. IsFiniteSet(A \cup B)
    BY <2>1, FS_Union
  <2> QED BY <2>2, <2>3, Zenon
<1>4. IsFiniteSet(OMPGroups)
  <2>1. OMPGroups = {"startup_shutdown", "parallel", "thread_info", "work_sharing", "synchronization",
                     "thread_private", "tasking", "atomic", "others", "others"}
    BY Zenon DEF OMPGroups, OMPMembers
  <2>2. IsFiniteSet({"startup_shutdown", "parallel", "thread_info", "work_sharing", "synchronization",
                     "thread_private", "tasking", "atomic", "others", "others"})
    BY FiniteTen
  <2> QED BY <2>1, <2>2, Zenon
<1>5. IsFiniteSet(startup_shutdown)
  <2>1. startup_shutdown =
           {"begin", "end", "end", "end", "end", "end", "end", "end", "end", "end"}
    BY Zenon DEF startup_shutdown
  <2>2. IsFiniteSet({"begin", "end", "end", "end", "end", "end", "end", "end", "end", "end"})
    BY FiniteTen
  <2> QED BY <2>1, <2>2, Zenon
<1>6. IsFiniteSet(parallel)
  <2>1. parallel =
           {"push_num_threads", "fork_call", "push_num_teams", "fork_teams", "serialized_parallel",
            "end_serialized_parallel", "end_serialized_parallel", "end_serialized_parallel",
            "end_serialized_parallel", "end_serialized_parallel"}
    BY Zenon DEF parallel
  <2>2. IsFiniteSet({"push_num_threads", "fork_call", "push_num_teams", "fork_teams", "serialized_parallel",
                    "end_serialized_parallel", "end_serialized_parallel", "end_serialized_parallel",
                    "end_serialized_parallel", "end_serialized_parallel"})
    BY FiniteTen
  <2> QED BY <2>1, <2>2, Zenon
<1>7. IsFiniteSet(thread_info)
  <2>1. thread_info =
           {"global_thread_num", "global_num_threads", "bound_thread_num", "bound_num_threads", "in_parallel",
            "in_parallel", "in_parallel", "in_parallel", "in_parallel", "in_parallel"}
    BY Zenon DEF thread_info
  <2>2. IsFiniteSet({"global_thread_num", "global_num_threads", "bound_thread_num", "bound_num_threads",
                    "in_parallel", "in_parallel", "in_parallel", "in_parallel", "in_parallel", "in_parallel"})
    BY FiniteTen
  <2> QED BY <2>1, <2>2, Zenon
<1>8. IsFiniteSet(work_sharing)
  <2> DEFINE A == {"master", "end_master", "ordered", "end_ordered", "critical", "end_critical", "single",
                   "end_single", "for_static_fini", "dispatch_init_4"}
             B == {"dispatch_init_4u", "dispatch_init_8", "dispatch_init_8u", "dist_dispatch_init_4",
                   "dispatch_next_4", "dispatch_next_4u", "dispatch_next_8", "dispatch_next_8u",
                   "dispatch_fini_4", "dispatch_fini_4u"}
             C == {"dispatch_fini_8", "dispatch_fini_8u", "for_static_init_4", "for_static_init_4u",
                   "for_static_init_8", "for_static_init_8u", "dist_for_static_init_4",
                   "dist_for_static_init_4u", "dist_for_static_init_8", "dist_for_static_init_8u"}
             D == {"team_static_init_4", "team_static_init_4u", "team_static_init_8", "team_static_init_8u",
                   "team_static_init_8u", "team_static_init_8u", "team_static_init_8u", "team_static_init_8u",
                   "team_static_init_8u", "team_static_init_8u"}
  <2>1. IsFiniteSet(A) /\ IsFiniteSet(B) /\ IsFiniteSet(C) /\ IsFiniteSet(D)
    BY FiniteTen
  <2>2. work_sharing = (A \cup B) \cup (C \cup D)
    BY Zenon DEF work_sharing
  <2> HIDE DEF A, B, C, D
  <2>3. IsFiniteSet((A \cup B) \cup (C \cup D))
    BY <2>1, FS_Union
  <2> QED BY <2>2, <2>3, Zenon
<1>9. IsFiniteSet(synchronization)
  <2>1. synchronization =
           {"flush", "barrier", "barrier_master", "end_barrier_master", "barrier_master_nowait",
            "reduce_nowait", "end_reduce_nowait", "reduce", "end_reduce", "end_reduce"}
    BY Zenon DEF synchronization
  <2>2. IsFiniteSet({"flush", "barrier", "barrier_master", "end_barrier_master", "barrier_master_nowait",
                    "reduce_nowait", "end_reduce_nowait", "reduce", "end_reduce", "end_reduce"})
    BY FiniteTen
  <2> QED BY <2>1, <2>2, Zenon
<1>10. IsFiniteSet(thread_private)
  <2>1. thread_private =
           {"copyprivate", "threadprivate_register", "threadprivate_cached", "threadprivate_register_vec",
            "ctor", "dtor", "cctor", "ctor_vec", "dtor_vec", "cctor_vec"}
    BY Zenon DEF thread_private
  <2>2. IsFiniteSet({"copyprivate", "threadprivate_register", "threadprivate_cached",
                    "threadprivate_register_vec", "ctor", "dtor", "cctor", "ctor_vec", "dtor_vec", "cctor_vec"})
    BY FiniteTen
  <2> QED BY <2>1, <2>2, Zenon
<1>11. IsFiniteSet(tasking)
  <2>1. tasking =
           {"omp_task_with_deps", "omp_wait_deps", "omp_wait_deps", "omp_wait_deps", "omp_wait_deps",
            "omp_wait_deps", "omp_wait_deps", "omp_wait_deps", "omp_wait_deps", "omp_wait_deps"}
    BY Zenon DEF tasking
  <2>2. IsFiniteSet({"omp_task_with_deps", "omp_wait_deps", "omp_wait_deps", "omp_wait_deps", "omp_wait_deps",
                    "omp_wait_deps", "omp_wait_deps", "omp_wait_deps", "omp_wait_deps", "omp_wait_deps"})
    BY FiniteTen
  <2> QED BY <2>1, <2>2, Zenon
<1>12. \A g \in DOMAIN OMPMembers : IsFiniteSet(OMPMembers[g])
  BY <1>5, <1>6, <1>7, <1>8, <1>9, <1>10, <1>11 DEF OMPMembers
<1> QED BY <1>1, <1>2, <1>3, <1>4, <1>12

\* The opcodes and their groups are finite.
LEMMA FiniteOpcodes ==
    IsFiniteSet(Opcodes) /\ IsFiniteSet(Groups) /\ \A g \in Groups : IsFiniteSet(g)
<1>1. IsFiniteSet(CtrlOps)
  <2>1. CtrlOps =
           {"Ret", "Br", "Switch", "IndirectBr", "Invoke", "Resume", "Unreachable", "Call", "Call", "Call"}
    BY Zenon DEF CtrlOps
  <2>2. IsFiniteSet({"Ret", "Br", "Switch", "IndirectBr", "Invoke", "Resume", "Unreachable", "Call", "Call",
                    "Call"})
    BY FiniteTen
  <2> QED BY <2>1, <2>2, Zenon
<1>2. IsFiniteSet(IntOps)
  <2>1. IntOps =
           {"Add", "Sub", "Mul", "UDiv", "SDiv", "URem", "SRem", "SRem", "SRem", "SRem"}
    BY Zenon DEF IntOps
  <2>2. IsFiniteSet({"Add", "Sub", "Mul", "UDiv", "SDiv", "URem", "SRem", "SRem", "SRem", "SRem"})
    BY FiniteTen
  <2> QED BY <2>1, <2>2, Zenon
<1>3. IsFiniteSet(AddrOps)
  <2>1. AddrOps =
           {"Alloca", "GetElementPtr", "GetElementPtr", "GetElementPtr", "GetElementPtr", "GetElementPtr",
            "GetElementPtr", "GetElementPtr", "GetElementPtr", "GetElementPtr"}
    BY Zenon DEF AddrOps
  <2>2. IsFiniteSet({"Alloca", "GetElementPtr", "GetElementPtr", "GetElementPtr", "GetElementPtr",
                    "GetElementPtr", "GetElementPtr", "GetElementPtr", "GetElementPtr", "GetElementPtr"})
    BY FiniteTen
  <2> QED BY <2>1, <2>2, Zenon
<1>4. IsFiniteSet(FPOps)
  <2>1. FPOps =
           {"FAdd", "FSub", "FMul", "FDiv", "FRem", "FRem", "FRem", "FRem", "FRem", "FRem"}
    BY Zenon DEF FPOps
  <2>2. IsFiniteSet({"FAdd", "FSub", "FMul", "FDiv", "FRem", "FRem", "FRem", "FRem", "FRem", "FRem"})
    BY FiniteTen
  <2> QED BY <2>1, <2>2, Zenon
<1>5. IsFiniteSet(ConvOps)
  <2> DEFINE A == {"Trunc", "ZExt", "SExt", "FPTrunc", "FPExt", "FPToUI", "FPToSI", "UIToFP", "SIToFP",
                   "IntToPtr"}
             B == {"PtrToInt", "BitCast", "AddrSpaceCast", "AddrSpaceCast", "AddrSpaceCast", "AddrSpaceCast",
                   "AddrSpaceCast", "AddrSpaceCast", "AddrSpaceCast", "AddrSpaceCast"}
  <2>1. IsFiniteSet(A) /\ IsFiniteSet(B)
    BY FiniteTen
  <2>2. ConvOps = A \cup B
    BY Zenon DEF ConvOps
  <2> HIDE DEF A, B
  <2>3. IsFiniteSet(A \cup B)
    BY <2>1, FS_Union
  <2> QED BY <2>2, <2>3, Zenon
<1>6. IsFiniteSet(BitwiseOps)
  <2>1. BitwiseOps =
           {"And", "Or", "Xor", "Shl", "LShr", "AShr", "AShr", "AShr", "AShr", "AShr"}
    BY Zenon DEF BitwiseOps
  <2>2. IsFiniteSet({"And", "Or", "Xor", "Shl", "LShr", "AShr", "AShr", "AShr", "AShr", "AShr"})
    BY FiniteTen
  <2> QED BY <2>1, <2>2, Zenon
<1>7. IsFiniteSet(VectorOps)
  <2>1. VectorOps =
           {"ExtractElement", "InsertElement", "ShuffleVector", "ShuffleVector", "ShuffleVector",
            "ShuffleVector", "ShuffleVector", "ShuffleVector", "ShuffleVector", "ShuffleVector"}
    BY Zenon DEF VectorOps
  <2>2. IsFiniteSet({"ExtractElement", "InsertElement", "ShuffleVector", "ShuffleVector", "ShuffleVector",
                    "ShuffleVector", "ShuffleVector", "ShuffleVector", "ShuffleVector", "ShuffleVector"})
    BY FiniteTen
  <2> QED BY <2>1, <2>2, Zenon
<1>8. IsFiniteSet(AggregateOps)
  <2>1. AggregateOps =
           {"ExtractValue", "InsertValue", "InsertValue", "InsertValue", "InsertValue", "InsertValue",
            "InsertValue", "InsertValue", "InsertValue", "InsertValue"}
    BY Zenon DEF AggregateOps
  <2>2. IsFiniteSet({"ExtractValue", "InsertValue", "InsertValue", "InsertValue", "InsertValue", "InsertValue",
                    "InsertValue", "InsertValue", "InsertValue", "InsertValue"})
    BY FiniteTen
  <2> QED BY <2>1, <2>2, Zenon
<1>9. IsFiniteSet(MiscOps)
  <2>1. MiscOps =
           {"Select", "LandingPad", "VAArg", "VAArg", "VAArg", "VAArg", "VAArg", "VAArg", "VAArg", "VAArg"}
    BY Zenon DEF MiscOps
  <2>2. IsFiniteSet({"Select", "LandingPad", "VAArg", "VAArg", "VAArg", "VAArg", "VAArg", "VAArg", "VAArg",
                    "VAArg"})
    BY FiniteTen
  <2> QED BY <2>1, <2>2, Zenon
<1>10. \A x, y : IsFiniteSet({x}) /\ IsFiniteSet({x, y})
  <2> SUFFICES ASSUME NEW x, NEW y PROVE IsFiniteSet({x}) /\ IsFiniteSet({x, y})
    OBVIOUS
  <2>1. {x, y} = {x} \cup {y}
    OBVIOUS
  <2>2. IsFiniteSet({x}) /\ IsFiniteSet({x} \cup {y})
    BY FS_Singleton, FS_Union
  <2> QED BY <2>1, <2>2, Zenon
<1>11. \A g \in Groups : IsFiniteSet(g)
  <2>1. /\ IsFiniteSet({"Load"}) /\ IsFiniteSet({"Store"}) /\ IsFiniteSet({"AtomicCmpXchg", "AtomicRMW"})
        /\ IsFiniteSet({"ICmp"}) /\ IsFiniteSet({"FCmp"}) /\ IsFiniteSet({"PHI"}) /\ IsFiniteSet({"Fence"})
    BY <1>10
  <2> QED BY <1>1, <1>2, <1>3, <1>4, <1>5, <1>6, <1>7, <1>8, <1>9, <2>1, Zenon DEF Groups
<1>12. IsFiniteSet(Groups)
  <2> DEFINE A == {{"Load"}, {"Store"}, {"AtomicCmpXchg", "AtomicRMW"}, IntOps, {"ICmp"}, FPOps, {"FCmp"},
                   BitwiseOps, ConvOps, AddrOps}
             B == {CtrlOps, {"PHI"}, {"Fence"}, VectorOps, AggregateOps, MiscOps, MiscOps, MiscOps, MiscOps, MiscOps}
  <2>1. IsFiniteSet(A) /\ IsFiniteSet(B)
    BY FiniteTen
  <2>2. Groups = A \cup B
    BY Zenon DEF Groups
  <2> HIDE DEF A, B
  <2>3. IsFiniteSet(A \cup B)
    BY <2>1, FS_Union
  <2> QED BY <2>2, <2>3, Zenon
<1>13. IsFiniteSet(Opcodes)
  BY <1>11, <1>12, FS_UNION DEF Opcodes
<1> QED BY <1>11, <1>12, <1>13

--------------------------------------------------------------------------------
(* Counting what was executed, and counters that move.                        *)

\* how many of the elements of a sequence are in a set
Count(h, Q) == Cardinality({n \in DOMAIN h : h[n] \in Q})

LEMMA CountEmpty ==
    ASSUME NEW Q
    PROVE  Count(<<>>, Q) = 0
<1>1. {n \in DOMAIN <<>> : <<>>[n] \in Q} = {}
  OBVIOUS
<1>2. Cardinality({}) = 0
  BY FS_EmptySet
<1> QED BY <1>1, <1>2, Zenon DEF Count

LEMMA CountAppend ==
    ASSUME NEW S, NEW h \in Seq(S), NEW x \in S, NEW Q
    PROVE  /\ Count(h, Q) \in Nat
           /\ Count(Append(h, x), Q) = Count(h, Q) + IF x \in Q THEN 1 ELSE 0
<1> DEFINE A == {n \in DOMAIN h : h[n] \in Q}
           B == {n \in DOMAIN Append(h, x) : Append(h, x)[n] \in Q}
           l == Len(h) + 1
<1>1. IsFiniteSet(A)
  <2>1. IsFiniteSet(1..Len(h))
    BY FS_Interval
  <2>2. A \subseteq 1..Len(h)
    OBVIOUS
  <2> QED BY <2>1, <2>2, FS_Subset
<1>2. l \notin A
  OBVIOUS
<1>3. x \in Q => B = A \cup {l}
  OBVIOUS
<1>4. x \notin Q => B = A
  OBVIOUS
<1> HIDE DEF A, B, l
<1>5. Cardinality(A \cup {l}) = Cardinality(A) + 1
  BY <1>1, <1>2, FS_AddElement
<1>6. Cardinality(A) \in Nat
  BY <1>1, FS_CardinalityType
<1>7. Count(h, Q) = Cardinality(A) /\ Count(Append(h, x), Q) = Cardinality(B)
  BY DEF Count, A, B
<1>8. x \in Q => Cardinality(B) = Cardinality(A \cup {l})
  BY <1>3, Zenon
<1>9. x \notin Q => Cardinality(B) = Cardinality(A)
  BY <1>4, Zenon
<1> QED BY <1>5, <1>6, <1>7, <1>8, <1>9

\* A counter moves by one where it is among the keys, so a sum over counters
\* of which at most one moves does.
LEMMA BumpedTyped ==
    ASSUME NEW D, NEW f \in [D -> Nat], NEW keys
    PROVE  Bumped(f, keys) \in [D -> Nat] /\ \A x \in D : Bumped(f, keys)[x] = f[x] + IF x \in keys THEN 1 ELSE 0
BY DEF Bumped

LEMMA BumpedNone ==
    ASSUME NEW D, NEW f \in [D -> Nat], NEW keys, NEW S \in SUBSET D, IsFiniteSet(S), \A x \in S : x \notin keys
    PROVE  SumFunctionOnSet(Bumped(f, keys), S) = SumFunctionOnSet(f, S)
<1> DEFINE g == Bumped(f, keys)
<1>1. \A x \in S : f[x] \in Int /\ g[x] = f[x]
  BY BumpedTyped
<1> HIDE DEF g
<1>2. SumFunctionOnSet(g, S) = SumFunctionOnSet(f, S)
  BY <1>1, SumEqual
<1> QED BY <1>2 DEF g

LEMMA BumpedOne ==
    ASSUME NEW D, NEW f \in [D -> Nat], NEW keys, NEW S \in SUBSET D, IsFiniteSet(S),
           NEW k \in S, k \in keys, \A x \in S : x \in keys => x = k
    PROVE  SumFunctionOnSet(f, S) \in Int /\ SumFunctionOnSet(Bumped(f, keys), S) = SumFunctionOnSet(f, S) + 1
<1> DEFINE g == Bumped(f, keys)
<1>1. (\A x \in S : f[x] \in Int /\ g[x] \in Int) /\ (\A x \in S \ {k} : g[x] = f[x]) /\ g[k] = f[k] + 1
  BY BumpedTyped
<1> HIDE DEF g
<1>2. SumFunctionOnSet(f, S) \in Int
  BY SumInt
<1>3. SumFunctionOnSet(g, S) = SumFunctionOnSet(f, S) + g[k] - f[k]
  BY <1>1, SumChange
<1>4. SumFunctionOnSet(g, S) = SumFunctionOnSet(f, S) + 1
  BY <1>1, <1>2, <1>3
<1> QED BY <1>2, <1>4 DEF g

\* a map from finitely many keys to numbers
IsCount(f) == IsFiniteSet(DOMAIN f) /\ \A x \in DOMAIN f : f[x] \in Nat

LEMMA IncrementedMoves ==
    ASSUME NEW f, IsCount(f), NEW k, NEW Q
    PROVE  /\ IsCount(Incremented(f, k)) /\ DOMAIN Incremented(f, k) = DOMAIN f \cup {k}
           /\ SumFunctionOnSet(f, Q \cap DOMAIN f) \in Int
           /\ SumFunctionOnSet(Incremented(f, k), Q \cap DOMAIN Incremented(f, k))
                = SumFunctionOnSet(f, Q \cap DOMAIN f) + IF k \in Q THEN 1 ELSE 0
<1> DEFINE g == Incremented(f, k)
           A == Q \cap DOMAIN f
           B == Q \cap DOMAIN g
<1>1. /\ DOMAIN g = DOMAIN f \cup {k}
      /\ \A x \in DOMAIN f : x # k => g[x] = f[x]
      /\ k \in DOMAIN f => g[k] = f[k] + 1
      /\ k \notin DOMAIN f => g[k] = 1
  BY DEF Incremented, IsCount
<1> HIDE DEF g
<1>2. IsCount(g)
  <2>1. IsFiniteSet(DOMAIN f \cup {k})
    BY FS_AddElement DEF IsCount
  <2>2. IsFiniteSet(DOMAIN g)
    BY <1>1, <2>1, Zenon
  <2> QED BY <1>1, <2>2 DEF IsCount
<1>3. IsFiniteSet(A) /\ IsFiniteSet(B) /\ A \subseteq DOMAIN f /\ B \subseteq DOMAIN g
  BY <1>2, FS_Subset DEF IsCount
<1>4. SumFunctionOnSet(f, A) \in Int
  BY <1>3, SumInt DEF IsCount
<1>5. CASE k \notin Q
  <2>1. B = A /\ \A x \in A : f[x] \in Int /\ g[x] = f[x]
    BY <1>1, <1>5 DEF IsCount
  <2> HIDE DEF A, B
  <2>2. SumFunctionOnSet(g, A) = SumFunctionOnSet(f, A)
    BY <1>3, <2>1, SumEqual
  <2>3. SumFunctionOnSet(g, B) = SumFunctionOnSet(g, A)
    BY <2>1, Zenon
  <2>4. SumFunctionOnSet(g, B) = SumFunctionOnSet(f, A) + IF k \in Q THEN 1 ELSE 0
    BY <1>4, <1>5, <2>2, <2>3
  <2> QED BY <1>1, <1>2, <1>4, <2>4 DEF g, A, B
<1>6. CASE k \in Q /\ k \in DOMAIN f
  <2>1. B = A /\ k \in A /\ (\A x \in A : f[x] \in Int /\ g[x] \in Int) /\ (\A x \in A \ {k} : g[x] = f[x])
    BY <1>1, <1>2, <1>6 DEF IsCount
  <2> HIDE DEF A, B
  <2>2. SumFunctionOnSet(g, A) = SumFunctionOnSet(f, A) + g[k] - f[k]
    BY <1>3, <2>1, SumChange
  <2>3. SumFunctionOnSet(g, B) = SumFunctionOnSet(g, A)
    BY <2>1, Zenon
  <2>4. SumFunctionOnSet(g, B) = SumFunctionOnSet(f, A) + IF k \in Q THEN 1 ELSE 0
    BY <1>1, <1>4, <1>6, <2>1, <2>2, <2>3
  <2> QED BY <1>1, <1>2, <1>4, <2>4 DEF g, A, B
<1>7. CASE k \in Q /\ k \notin DOMAIN f
  <2>1. /\ B = A \cup {k} /\ k \notin A
        /\ \A x \in A : f[x] \in Int /\ g[x] = f[x]
        /\ \A x \in A \cup {k} : g[x] \in Int
    BY <1>1, <1>2, <1>7 DEF IsCount
  <2> HIDE DEF A, B
  <2>2. SumFunctionOnSet(g, A) = SumFunctionOnSet(f, A)
    BY <1>3, <2>1, SumEqual
  <2>3. SumFunctionOnSet(g, A \cup {k}) = g[k] + SumFunctionOnSet(g, A)
    BY <1>3, <2>1, SumAdd
  <2>4. SumFunctionOnSet(g, B) = SumFunctionOnSet(g, A \cup {k})
    BY <2>1, Zenon
  <2>5. SumFunctionOnSet(g, B) = SumFunctionOnSet(f, A) + IF k \in Q THEN 1 ELSE 0
    BY <1>1, <1>4, <1>7, <2>2, <2>3, <2>4
  <2> QED BY <1>1, <1>2, <1>4, <2>5 DEF g, A, B
<1> QED BY <1>5, <1>6, <1>7

--------------------------------------------------------------------------------
(* The instruction mix. The counters of any set of opcodes, added up, count   *)
(* the executed instructions with one of these opcodes, but for the phis.     *)

HistoryTyped == history \in Seq(Instructions)
OfOps(G) == {I \in Instructions : I.op \in G \ {"PHI"}}
MixInv ==
    /\ HistoryTyped
    /\ num \in [Opcodes -> Nat]
    /\ \A G \in SUBSET Opcodes : getNum(num, G) = Count(history, OfOps(G))

\* All counters start at zero.
LEMMA SumZero ==
    ASSUME NEW f, NEW S, IsFiniteSet(S), \A x \in S : f[x] = 0
    PROVE  SumFunctionOnSet(f, S) = 0
<1> DEFINE P == {T \in SUBSET S : SumFunctionOnSet(f, T) = 0}
<1>1. {} \in P
  BY SumEmpty
<1>2. ASSUME NEW T \in SUBSET S, NEW x \in S \ T, T \in P
      PROVE  T \cup {x} \in P
  <2>1. IsFiniteSet(T) /\ \A y \in T \cup {x} : f[y] \in Int
    BY FS_Subset
  <2>2. SumFunctionOnSet(f, T \cup {x}) = f[x] + SumFunctionOnSet(f, T)
    BY <2>1, SumAdd
  <2> QED BY <1>2, <2>2
<1>3. S \in P
  <2> HIDE DEF P
  <2> QED BY <1>1, <1>2, SubsetsAll
<1> QED BY <1>3

LEMMA MixInit ==
    ASSUME Init
    PROVE  MixInv
<1>1. HistoryTyped /\ num \in [Opcodes -> Nat]
  BY DEF Init, HistoryTyped
<1>2. ASSUME NEW G \in SUBSET Opcodes
      PROVE  getNum(num, G) = Count(history, OfOps(G))
  <2>1. IsFiniteSet(G) /\ \A x \in G : num[x] = 0
    BY FiniteOpcodes, FS_Subset DEF Init
  <2>2. getNum(num, G) = 0
    BY <2>1, SumZero DEF getNum
  <2>3. Count(history, OfOps(G)) = 0
    BY CountEmpty DEF Init
  <2> QED BY <2>2, <2>3
<1> QED BY <1>1, <1>2 DEF MixInv

LEMMA HistoryStep ==
    ASSUME HistoryTyped, [Next]_vars
    PROVE  HistoryTyped'
<1>1. CASE UNCHANGED vars
  BY <1>1 DEF HistoryTyped, vars
<1>2. CASE Next
  BY <1>2 DEF HistoryTyped, Next, analyze, analyze_phi
<1> QED BY <1>1, <1>2

LEMMA MixStep ==
    ASSUME MixInv, [Next]_vars
    PROVE  MixInv'
<1>1. CASE UNCHANGED vars
  <2>1. num' = num /\ history' = history
    BY <1>1 DEF vars
  <2> QED BY <2>1 DEF MixInv, HistoryTyped
<1>2. ASSUME NEW I \in Instructions, analyze_phi(I)
      PROVE  MixInv'
  <2>1. num' = num /\ history' = Append(history, I) /\ I.op = "PHI"
    BY <1>2 DEF analyze_phi
  <2>2. HistoryTyped'
    BY <2>1 DEF HistoryTyped, MixInv
  <2>3. ASSUME NEW G \in SUBSET Opcodes
        PROVE  getNum(num, G) = Count(Append(history, I), OfOps(G))
    <3>1. I \notin OfOps(G)
      BY <2>1 DEF OfOps
    <3>2. Count(history, OfOps(G)) \in Nat /\ Count(Append(history, I), OfOps(G)) = Count(history, OfOps(G)) + 0
      BY <3>1, CountAppend DEF MixInv, HistoryTyped
    <3> QED BY <3>2 DEF MixInv
  <2> QED BY <2>1, <2>2, <2>3 DEF MixInv
<1>3. ASSUME NEW I \in Instructions, analyze(I)
      PROVE  MixInv'
  <2>1. num' = Bumped(num, {I.op}) /\ history' = Append(history, I) /\ I.op # "PHI"
    BY <1>3 DEF analyze, mix_visit
  <2>2. HistoryTyped'
    BY <2>1 DEF HistoryTyped, MixInv
  <2>3. ASSUME NEW G \in SUBSET Opcodes
        PROVE  getNum(Bumped(num, {I.op}), G) = Count(Append(history, I), OfOps(G))
    <3>1. I \in OfOps(G) <=> I.op \in G
      BY <2>1 DEF OfOps
    <3>2. /\ Count(history, OfOps(G)) \in Nat
          /\ Count(Append(history, I), OfOps(G)) = Count(history, OfOps(G)) + IF I \in OfOps(G) THEN 1 ELSE 0
      BY CountAppend DEF MixInv, HistoryTyped
    <3>3. IsFiniteSet(G)
      BY FiniteOpcodes, FS_Subset
    <3>4. num \in [Opcodes -> Nat] /\ getNum(num, G) = Count(history, OfOps(G))
      BY DEF MixInv
    <3>5. CASE I.op \in G
      <4>1. SumFunctionOnSet(Bumped(num, {I.op}), G) = SumFunctionOnSet(num, G) + 1
        BY <3>3, <3>4, <3>5, BumpedOne
      <4> QED BY <3>1, <3>2, <3>4, <3>5, <4>1 DEF getNum
    <3>6. CASE I.op \notin G
      <4>1. SumFunctionOnSet(Bumped(num, {I.op}), G) = SumFunctionOnSet(num, G)
        BY <3>3, <3>4, <3>6, BumpedNone
      <4> QED BY <3>1, <3>2, <3>4, <3>6, <4>1 DEF getNum
    <3> QED BY <3>5, <3>6
  <2>4. num' \in [Opcodes -> Nat]
    BY <2>1 DEF MixInv, Bumped
  <2> QED BY <2>1, <2>2, <2>3, <2>4 DEF MixInv
<1> QED BY <1>1, <1>2, <1>3 DEF Next

\* What a predicate on opcodes counts, as a set of opcodes.
LEMMA ExecutedOps ==
    ASSUME MixInv, NEW G \in SUBSET Opcodes, "PHI" \notin G
    PROVE  getNum(num, G) = Executed(LAMBDA I : I.op \in G)
<1>1. {n \in DOMAIN history : history[n] \in OfOps(G)} = {n \in DOMAIN history : history[n].op \in G}
  BY DEF MixInv, HistoryTyped, OfOps
<1>2. Count(history, OfOps(G)) = Executed(LAMBDA I : I.op \in G)
  BY <1>1, Zenon DEF Count, Executed
<1> QED BY <1>2 DEF MixInv

\* The opcodes of the classes that the other analyses see.
LEMMA Classes ==
    ASSUME NEW op \in Opcodes
    PROVE  /\ isOfMemoryType(op) <=> op \in MemOps
           /\ isOfIntegerType(op) <=> op \in IntOps \cup BitwiseOps \cup ConvOps \cup {"ICmp"} \cup AddrOps
           /\ isOfControlType(op) <=> op \in CtrlOps
           /\ isOfFloatingPointType(op) <=> op \in FPOps \cup {"FCmp"}
<1> USE DEF MemOps, IntOps, BitwiseOps, ConvOps, AddrOps, CtrlOps, FPOps, MiscOps, VectorOps, AggregateOps
<1>1. \E g \in Groups : op \in g
  BY DEF Opcodes
<1>2. isOfMemoryType(op) <=> op \in MemOps
  BY <1>1, SMTT(60) DEF Groups, isOfMemoryType, getInstType
<1>3. isOfIntegerType(op) <=> op \in IntOps \cup BitwiseOps \cup ConvOps \cup {"ICmp"} \cup AddrOps
  BY <1>1, SMTT(60) DEF Groups, isOfIntegerType, getInstType
<1>4. isOfControlType(op) <=> op \in CtrlOps
  BY <1>1, SMTT(60) DEF Groups, isOfControlType, getInstType
<1>5. isOfFloatingPointType(op) <=> op \in FPOps \cup {"FCmp"}
  BY <1>1, SMTT(60) DEF Groups, isOfFloatingPointType, getInstType
<1> QED BY <1>2, <1>3, <1>4, <1>5

LEMMA GroupsDisjoint ==
    ASSUME NEW g \in Groups, NEW h \in Groups, NEW op, op \in g, op \in h
    PROVE  g = h
BY SMTT(60) DEF Groups, IntOps, BitwiseOps, ConvOps, AddrOps, CtrlOps, FPOps, MiscOps, VectorOps, AggregateOps

\* The groups of the report, added up.
LEMMA GroupsAddUp ==
    ASSUME NEW f \in [Opcodes -> Nat]
    PROVE  Total([g \in Groups |-> getNum(f, g)], Groups) = getNum(f, Opcodes)
<1> DEFINE F == [g \in Groups |-> getNum(f, g)]
           of == [op \in Opcodes |-> CHOOSE g \in Groups : op \in g]
           C == [g \in Groups |-> g]
<1>1. \A op \in Opcodes : of[op] \in Groups /\ op \in of[op]
  BY DEF Opcodes
<1>2. \A g \in Groups : \A op : op \in C[g] <=> op \in Opcodes /\ of[op] = g
  <2> SUFFICES ASSUME NEW g \in Groups, NEW op
               PROVE  op \in C[g] <=> op \in Opcodes /\ of[op] = g
    OBVIOUS
  <2>1. C[g] = g /\ g \subseteq Opcodes
    BY DEF Opcodes
  <2> HIDE DEF of, C
  <2>2. op \in Opcodes => (of[op] = g <=> op \in g)
    BY <1>1, GroupsDisjoint
  <2> QED BY <2>1, <2>2
<1>3. \A op : op \in Opcodes <=> op \in Opcodes /\ of[op] \in Groups
  BY <1>1
<1>4. \A g \in Groups : F[g] = SumFunctionOnSet(f, C[g])
  BY DEF getNum
<1> HIDE DEF F, of, C
<1>5. IsFiniteSet(Opcodes) /\ IsFiniteSet(Groups) /\ \A op \in Opcodes : f[op] \in Int
  BY FiniteOpcodes
<1>6. SumFunctionOnSet(F, Groups) = SumFunctionOnSet(f, Opcodes)
  BY ONLY <1>2, <1>3, <1>4, <1>5, SumClasses
<1> QED BY <1>6 DEF F, Total, getNum

LEMMA MixFollows ==
    ASSUME MixInv
    PROVE  MixAddsUp
<1>1. num \in [Opcodes -> Nat]
  BY DEF MixInv
<1>2. {n \in DOMAIN history : history[n] \in OfOps(Opcodes)} = {n \in DOMAIN history : history[n].op # "PHI"}
  BY InstructionsAssumption DEF MixInv, HistoryTyped, OfOps
<1>3. Count(history, OfOps(Opcodes)) = Executed(LAMBDA I : I.op # "PHI")
  BY <1>2, Zenon DEF Count, Executed
<1>4. getNum(num, Opcodes) = Executed(LAMBDA I : I.op # "PHI")
  BY <1>3 DEF MixInv
<1> QED BY <1>1, <1>4, GroupsAddUp DEF MixAddsUp

\* getNum over two sets of opcodes without a common one.
LEMMA getNumUnion ==
    ASSUME NEW f \in [Opcodes -> Nat], NEW A \in SUBSET Opcodes, NEW B \in SUBSET Opcodes, A \cap B = {}
    PROVE  getNum(f, A \cup B) = getNum(f, A) + getNum(f, B)
<1>1. IsFiniteSet(A) /\ IsFiniteSet(B) /\ \A x \in A \cup B : f[x] \in Int
  BY FiniteOpcodes, FS_Subset
<1> QED BY <1>1, SumUnion DEF getNum

LEMMA getNumOne ==
    ASSUME NEW f \in [Opcodes -> Nat], NEW op \in Opcodes
    PROVE  getNum(f, {op}) = f[op]
<1>1. IsFiniteSet({op}) /\ \A x \in {op} : f[x] \in Int
  <2>1. IsFiniteSet({op})
    BY FS_Singleton, Zenon
  <2> QED BY <2>1
<1>2. SumFunctionOnSet(f, {op}) = f[op] + SumFunctionOnSet(f, {op} \ {op})
  BY <1>1, SumRemove
<1>3. SumFunctionOnSet(f, {op} \ {op}) = 0
  <2>1. {op} \ {op} = {}
    OBVIOUS
  <2> QED BY <2>1, SumEmpty, Zenon
<1> QED BY <1>2, <1>3 DEF getNum

LEMMA MeansFollow ==
    ASSUME MixInv
    PROVE  MeansAgree
<1>1. num \in [Opcodes -> Nat] /\ \A n \in DOMAIN history : history[n].op \in Opcodes
  BY InstructionsAssumption DEF MixInv, HistoryTyped
<1>2. /\ MemOps \subseteq Opcodes /\ IntOps \subseteq Opcodes /\ BitwiseOps \subseteq Opcodes
      /\ ConvOps \subseteq Opcodes /\ AddrOps \subseteq Opcodes /\ CtrlOps \subseteq Opcodes
      /\ FPOps \subseteq Opcodes /\ "ICmp" \in Opcodes /\ "FCmp" \in Opcodes
  BY DEF Opcodes, Groups, MemOps
<1> DEFINE X == IntOps \cup BitwiseOps \cup ConvOps \cup {"ICmp"} \cup AddrOps
           Y == FPOps \cup {"FCmp"}
<1>3. ilp_mem(num) = Executed(LAMBDA I : isOfMemoryType(I.op))
  <2>1. "PHI" \notin MemOps /\ MemOps \in SUBSET Opcodes
    BY <1>2 DEF MemOps
  <2>2. getNum(num, MemOps) = Executed(LAMBDA I : I.op \in MemOps)
    BY <2>1, ExecutedOps
  <2>3. {n \in DOMAIN history : history[n].op \in MemOps} = {n \in DOMAIN history : isOfMemoryType(history[n].op)}
    BY <1>1, Classes
  <2> QED BY <2>2, <2>3, Zenon DEF ilp_mem, Executed
<1>4. ilp_int(num) = Executed(LAMBDA I : isOfIntegerType(I.op))
  <2>1. "PHI" \notin X
    BY DEF IntOps, BitwiseOps, ConvOps, AddrOps
  <2>2. X \in SUBSET Opcodes
    BY <1>2
  <2>3. {n \in DOMAIN history : history[n].op \in X} = {n \in DOMAIN history : isOfIntegerType(history[n].op)}
    BY <1>1, Classes
  <2>4. getNum(num, X) = ilp_int(num)
    <3>1. getNum(num, {"ICmp"}) = num["ICmp"] /\ {"ICmp"} \subseteq Opcodes
      BY <1>1, <1>2, getNumOne
    <3>2. /\ IntOps \cap BitwiseOps = {} /\ (IntOps \cup BitwiseOps) \cap ConvOps = {}
          /\ (IntOps \cup BitwiseOps \cup ConvOps) \cap {"ICmp"} = {}
          /\ (IntOps \cup BitwiseOps \cup ConvOps \cup {"ICmp"}) \cap AddrOps = {}
      BY DEF IntOps, BitwiseOps, ConvOps, AddrOps
    <3>3. getNum(num, IntOps \cup BitwiseOps) = getNum(num, IntOps) + getNum(num, BitwiseOps)
      BY <1>1, <1>2, <3>2, getNumUnion
    <3>4. getNum(num, IntOps \cup BitwiseOps \cup ConvOps) = getNum(num, IntOps \cup BitwiseOps) + getNum(num, ConvOps)
      BY <1>1, <1>2, <3>2, getNumUnion
    <3>5. getNum(num, IntOps \cup BitwiseOps \cup ConvOps \cup {"ICmp"})
            = getNum(num, IntOps \cup BitwiseOps \cup ConvOps) + getNum(num, {"ICmp"})
      BY <1>1, <1>2, <3>1, <3>2, getNumUnion
    <3>6. getNum(num, X) = getNum(num, IntOps \cup BitwiseOps \cup ConvOps \cup {"ICmp"}) + getNum(num, AddrOps)
      BY <1>1, <1>2, <3>1, <3>2, getNumUnion
    <3> QED BY <3>1, <3>3, <3>4, <3>5, <3>6 DEF ilp_int
  <2> HIDE DEF X
  <2>5. getNum(num, X) = Executed(LAMBDA I : I.op \in X)
    BY <2>1, <2>2, ExecutedOps
  <2> QED BY <2>3, <2>4, <2>5, Zenon DEF Executed
<1>5. ilp_ctrl(num) = Executed(LAMBDA I : isOfControlType(I.op))
  <2>1. "PHI" \notin CtrlOps /\ CtrlOps \in SUBSET Opcodes
    BY <1>2 DEF CtrlOps
  <2>2. getNum(num, CtrlOps) = Executed(LAMBDA I : I.op \in CtrlOps)
    BY <2>1, ExecutedOps
  <2>3. {n \in DOMAIN history : history[n].op \in CtrlOps} = {n \in DOMAIN history : isOfControlType(history[n].op)}
    BY <1>1, Classes
  <2> QED BY <2>2, <2>3, Zenon DEF ilp_ctrl, Executed
<1>6. ilp_fp(num) = Executed(LAMBDA I : isOfFloatingPointType(I.op))
  <2>1. "PHI" \notin Y /\ Y \in SUBSET Opcodes
    BY <1>2 DEF FPOps
  <2>2. {n \in DOMAIN history : history[n].op \in Y} = {n \in DOMAIN history : isOfFloatingPointType(history[n].op)}
    BY <1>1, Classes
  <2>3. getNum(num, Y) = ilp_fp(num)
    <3>1. getNum(num, {"FCmp"}) = num["FCmp"] /\ {"FCmp"} \subseteq Opcodes
      BY <1>1, <1>2, getNumOne
    <3>2. FPOps \cap {"FCmp"} = {}
      BY DEF FPOps
    <3>3. getNum(num, Y) = getNum(num, FPOps) + getNum(num, {"FCmp"})
      BY <1>1, <1>2, <3>1, <3>2, getNumUnion
    <3> QED BY <3>1, <3>3 DEF ilp_fp
  <2> HIDE DEF Y
  <2>4. getNum(num, Y) = Executed(LAMBDA I : I.op \in Y)
    BY <2>1, ExecutedOps
  <2> QED BY <2>2, <2>3, <2>4, Zenon DEF Executed
<1> QED BY <1>3, <1>4, <1>5, <1>6 DEF MeansAgree

LEMMA MixAlways ==
    Spec => []MixInv
<1>1. Init => MixInv
  BY MixInit
<1>2. MixInv /\ [Next]_vars => MixInv'
  BY MixStep
<1> QED BY <1>1, <1>2, PTL DEF Spec

\* InstructionMix::visit and the report: every executed instruction but the
\* phis is in exactly one group, and the groups add up to
\* instructions_analyzed, for every program and however long it runs.
THEOREM MixTotals ==
    Spec => []MixAddsUp
<1>1. MixInv => MixAddsUp
  BY MixFollows
<1> QED BY <1>1, MixAlways, PTL

\* The mean parallelism of a type in the ILP report: its numerator, a sum of
\* getters of the mix, counts exactly the executed instructions that
\* InstructionAnalysis puts in the class of the span it is divided by.
THEOREM MeanNumerators ==
    Spec => []MeansAgree
<1>1. MixInv => MeansAgree
  BY MeansFollow
<1> QED BY <1>1, MixAlways, PTL

--------------------------------------------------------------------------------
(* The calls. Counting a routine moves one group, and a line of the group if  *)
(* the code keeps one for the routine.                                        *)

MPIKeys == MPIGroups \cup point_to_point \cup collective
OMPKeys == OMPGroups \cup OMPRoutines \cup {"end_reduce_wait"}

LEMMA MPIKeysMoved ==
    ASSUME NEW f
    PROVE  /\ MPIGroup(f) \in MPIGroups /\ MPIGroup(f) \in MPICounters(f)
           /\ \A x \in MPIGroups : x \in MPICounters(f) => x = MPIGroup(f)
           /\ MPIGroup(f) = "point_to_point" <=> f.name \in point_to_point
           /\ MPIGroup(f) = "collective" <=> f.name \in collective
           /\ \A x \in point_to_point \cup collective : x \in MPICounters(f) <=> x = f.name
<1>1. environment_management \cap point_to_point = {} /\ environment_management \cap collective = {}
  BY DEF environment_management, point_to_point, collective
<1>2. point_to_point \cap collective = {}
  BY DEF point_to_point, collective
<1>3. MPIGroups \cap (point_to_point \cup collective) = {}
  BY DEF MPIGroups, point_to_point, collective
<1>4. /\ MPIGroup(f) \in MPIGroups
      /\ MPIGroup(f) = "point_to_point" <=> f.name \in point_to_point
      /\ MPIGroup(f) = "collective" <=> f.name \in collective
  <2>1. \A p \in DOMAIN MPIPrefixes :
           MPIPrefixes[p] \in {"process_group", "communicators", "derived_types", "virtual_topology"}
    BY DEF MPIPrefixes
  <2>2. CASE f.name \in environment_management
    BY <1>1, <2>2 DEF MPIGroup, MPIGroups
  <2>3. CASE f.name \in point_to_point
    BY <1>1, <1>2, <2>3 DEF MPIGroup, MPIGroups
  <2>4. CASE f.name \in collective
    BY <1>1, <1>2, <2>4 DEF MPIGroup, MPIGroups
  <2>5. CASE f.name \notin environment_management \cup point_to_point \cup collective
    BY <2>1, <2>5 DEF MPIGroup, MPIGroups
  <2> QED BY <2>2, <2>3, <2>4, <2>5
<1> QED BY <1>3, <1>4 DEF MPICounters

\* One more call of a routine of MPI.
LEMMA MPIMoves ==
    ASSUME NEW m \in [MPIKeys -> Nat], NEW f, NEW n, n = Bumped(m, MPICounters(f)),
           Total(m, point_to_point) = m["point_to_point"], Total(m, collective) = m["collective"]
    PROVE  /\ n \in [MPIKeys -> Nat]
           /\ Total(m, MPIGroups) \in Int /\ Total(n, MPIGroups) = Total(m, MPIGroups) + 1
           /\ Total(n, point_to_point) = n["point_to_point"]
           /\ Total(n, collective) = n["collective"]
<1> USE DEF Total
<1> DEFINE C == MPICounters(f)
<1>1. n \in [MPIKeys -> Nat] /\ \A x \in MPIKeys : n[x] = m[x] + IF x \in C THEN 1 ELSE 0
  BY BumpedTyped
<1>2. /\ MPIGroups \in SUBSET MPIKeys /\ point_to_point \in SUBSET MPIKeys /\ collective \in SUBSET MPIKeys
      /\ "point_to_point" \in MPIGroups /\ "collective" \in MPIGroups
  BY DEF MPIKeys, MPIGroups
<1>3. /\ MPIGroup(f) \in MPIGroups /\ MPIGroup(f) \in C
      /\ \A x \in MPIGroups : x \in C => x = MPIGroup(f)
      /\ MPIGroup(f) = "point_to_point" <=> f.name \in point_to_point
      /\ MPIGroup(f) = "collective" <=> f.name \in collective
      /\ \A x \in point_to_point \cup collective : x \in C <=> x = f.name
  BY MPIKeysMoved
<1> HIDE DEF C
<1>4. n = Bumped(m, C)
  BY DEF C
<1>5. Total(m, MPIGroups) \in Int /\ Total(n, MPIGroups) = Total(m, MPIGroups) + 1
  BY <1>2, <1>3, <1>4, FiniteCalls, BumpedOne
<1>6. Total(n, point_to_point) = n["point_to_point"]
  <2>1. CASE f.name \in point_to_point
    <3>1. Total(n, point_to_point) = Total(m, point_to_point) + 1
      BY <1>2, <1>3, <1>4, <2>1, FiniteCalls, BumpedOne
    <3>2. n["point_to_point"] = m["point_to_point"] + 1
      BY <1>1, <1>2, <1>3, <2>1
    <3> QED BY <3>1, <3>2
  <2>2. CASE f.name \notin point_to_point
    <3>1. Total(n, point_to_point) = Total(m, point_to_point)
      BY <1>2, <1>3, <1>4, <2>2, FiniteCalls, BumpedNone
    <3>2. n["point_to_point"] = m["point_to_point"]
      BY <1>1, <1>2, <1>3, <2>2
    <3> QED BY <3>1, <3>2
  <2> QED BY <2>1, <2>2
<1>7. Total(n, collective) = n["collective"]
  <2>1. CASE f.name \in collective
    <3>1. Total(n, collective) = Total(m, collective) + 1
      BY <1>2, <1>3, <1>4, <2>1, FiniteCalls, BumpedOne
    <3>2. n["collective"] = m["collective"] + 1
      BY <1>1, <1>2, <1>3, <2>1
    <3> QED BY <3>1, <3>2
  <2>2. CASE f.name \notin collective
    <3>1. Total(n, collective) = Total(m, collective)
      BY <1>2, <1>3, <1>4, <2>2, FiniteCalls, BumpedNone
    <3>2. n["collective"] = m["collective"]
      BY <1>1, <1>2, <1>3, <2>2
    <3> QED BY <3>1, <3>2
  <2> QED BY <2>1, <2>2
<1> QED BY <1>1, <1>5, <1>6, <1>7

LEMMA OMPKeysMoved ==
    ASSUME NEW f
    PROVE  /\ OMPGroup(f) \in OMPGroups /\ OMPGroup(f) \in OMPCounters(f)
           /\ \A x \in OMPGroups : x \in OMPCounters(f) => x = OMPGroup(f)
           /\ \A g \in DOMAIN OMPMembers : g = OMPGroup(f) => f.name \in OMPMembers[g]
           /\ \A g \in DOMAIN OMPMembers :
                 \A x \in OMPMembers[g] : x \in OMPCounters(f) <=> x = f.name /\ g = OMPGroup(f)
<1>1. \A g \in DOMAIN OMPMembers : \A x \in OMPMembers[g] : x \in OMPRoutines /\ x \notin OMPGroups
  <2>1. \A g \in DOMAIN OMPMembers : \A x \in OMPMembers[g] : x \in OMPRoutines
    BY DEF OMPRoutines
  <2>2. \A g \in DOMAIN OMPMembers : \A x \in OMPMembers[g] : x \notin OMPGroups
    BY DEF OMPGroups, OMPMembers, startup_shutdown, parallel, thread_info, work_sharing, synchronization,
           thread_private, tasking
  <2> QED BY <2>1, <2>2
<1>2. \A g, h \in DOMAIN OMPMembers : \A x \in OMPMembers[g] : x \in OMPMembers[h] => g = h
  BY DEF OMPMembers, startup_shutdown, parallel, thread_info, work_sharing, synchronization,
         thread_private, tasking
<1>3. \A x \in OMPRoutines : \E g \in DOMAIN OMPMembers : x \in OMPMembers[g]
  BY DEF OMPRoutines
<1>4. "atomic" \notin DOMAIN OMPMembers /\ "others" \notin DOMAIN OMPMembers
  BY DEF OMPMembers
<1>5. OMPGroups = DOMAIN OMPMembers \cup {"atomic", "others"}
  BY DEF OMPGroups
<1>6. CASE f.atomic
  BY <1>1, <1>4, <1>5, <1>6 DEF OMPGroup, OMPCounters
<1>7. CASE ~f.atomic /\ f.name \in OMPRoutines
  <2>1. OMPGroup(f) \in DOMAIN OMPMembers /\ f.name \in OMPMembers[OMPGroup(f)]
    BY <1>3, <1>7 DEF OMPGroup
  <2>2. \A x : x \in OMPCounters(f) <=> x = OMPGroup(f) \/ x = f.name
    BY <1>7 DEF OMPCounters
  <2> QED BY <1>1, <1>2, <1>5, <2>1, <2>2
<1>8. CASE ~f.atomic /\ f.name \notin OMPRoutines
  <2>1. OMPGroup(f) = "others" /\ \A x : x \in OMPCounters(f) <=> x = OMPGroup(f)
    BY <1>8 DEF OMPGroup, OMPCounters
  <2> QED BY <1>1, <1>4, <1>5, <1>8, <2>1
<1> QED BY <1>6, <1>7, <1>8

\* One more call of a routine of the OpenMP runtime.
LEMMA OMPMoves ==
    ASSUME NEW m \in [OMPKeys -> Nat], NEW f, NEW n, n = Bumped(m, OMPCounters(f)),
           \A g \in DOMAIN OMPMembers : Total(m, OMPMembers[g]) = m[g]
    PROVE  /\ n \in [OMPKeys -> Nat]
           /\ Total(m, OMPGroups) \in Int /\ Total(n, OMPGroups) = Total(m, OMPGroups) + 1
           /\ \A g \in DOMAIN OMPMembers : Total(n, OMPMembers[g]) = n[g]
<1> USE DEF Total
<1> DEFINE C == OMPCounters(f)
<1>1. n \in [OMPKeys -> Nat] /\ \A x \in OMPKeys : n[x] = m[x] + IF x \in C THEN 1 ELSE 0
  BY BumpedTyped
<1>2. /\ OMPGroups \in SUBSET OMPKeys
      /\ \A g \in DOMAIN OMPMembers : g \in OMPGroups /\ OMPMembers[g] \in SUBSET OMPKeys
  BY DEF OMPKeys, OMPGroups, OMPRoutines
<1>3. /\ OMPGroup(f) \in OMPGroups /\ OMPGroup(f) \in C
      /\ \A x \in OMPGroups : x \in C => x = OMPGroup(f)
      /\ \A g \in DOMAIN OMPMembers : g = OMPGroup(f) => f.name \in OMPMembers[g]
      /\ \A g \in DOMAIN OMPMembers : \A x \in OMPMembers[g] : x \in C <=> x = f.name /\ g = OMPGroup(f)
  BY OMPKeysMoved
<1> HIDE DEF C
<1>4. n = Bumped(m, C)
  BY DEF C
<1>5. Total(m, OMPGroups) \in Int /\ Total(n, OMPGroups) = Total(m, OMPGroups) + 1
  <2>1. /\ OMPGroups \in SUBSET OMPKeys /\ IsFiniteSet(OMPGroups)
        /\ OMPGroup(f) \in OMPGroups /\ OMPGroup(f) \in C /\ \A x \in OMPGroups : x \in C => x = OMPGroup(f)
    BY <1>2, <1>3, FiniteCalls
  <2> QED BY ONLY <1>4, <2>1, m \in [OMPKeys -> Nat], BumpedOne DEF Total
<1>6. ASSUME NEW g \in DOMAIN OMPMembers
      PROVE  Total(n, OMPMembers[g]) = n[g]
  <2>1. CASE g = OMPGroup(f)
    <3>1. Total(n, OMPMembers[g]) = Total(m, OMPMembers[g]) + 1
      BY <1>2, <1>3, <1>4, <2>1, FiniteCalls, BumpedOne
    <3>2. n[g] = m[g] + 1
      BY <1>1, <1>2, <1>3, <2>1
    <3> QED BY <3>1, <3>2
  <2>2. CASE g # OMPGroup(f)
    <3>1. Total(n, OMPMembers[g]) = Total(m, OMPMembers[g])
      BY <1>2, <1>3, <1>4, <2>2, FiniteCalls, BumpedNone
    <3>2. n[g] = m[g]
      BY <1>1, <1>2, <1>3, <2>2
    <3> QED BY <3>1, <3>2
  <2> QED BY <2>1, <2>2
<1> QED BY <1>1, <1>5, <1>6

\* One more call of an external function.
LEMMA ExternalMoves ==
    ASSUME NEW f, IsCount(f), NEW k, NEW g, g = Incremented(f, k)
    PROVE  IsCount(g) /\ Total(f, DOMAIN f) \in Int /\ Total(g, DOMAIN g) = Total(f, DOMAIN f) + 1
<1> DEFINE Q == DOMAIN f \cup {k}
<1>1. /\ IsCount(g) /\ DOMAIN g = Q
      /\ SumFunctionOnSet(f, Q \cap DOMAIN f) \in Int
      /\ SumFunctionOnSet(g, Q \cap DOMAIN g) = SumFunctionOnSet(f, Q \cap DOMAIN f) + IF k \in Q THEN 1 ELSE 0
  BY IncrementedMoves
<1>2. Q \cap DOMAIN f = DOMAIN f /\ k \in Q
  OBVIOUS
<1>3. Q \cap DOMAIN g = DOMAIN g
  BY <1>1
<1> HIDE DEF Q
<1>4. SumFunctionOnSet(f, Q \cap DOMAIN f) = SumFunctionOnSet(f, DOMAIN f)
  BY <1>2, Zenon
<1>5. SumFunctionOnSet(g, Q \cap DOMAIN g) = SumFunctionOnSet(g, DOMAIN g)
  BY <1>3, Zenon
<1> QED BY <1>1, <1>2, <1>4, <1>5 DEF Total

\* Direct calls of the routines of a library; what the reports hold about them.
DirectCall(I, lib) == I.op = "Call" /\ I.f.how = "direct" /\ I.f.lib = lib
DirectCalls(lib) == {I \in Instructions : DirectCall(I, lib)}
MPIInv ==
    /\ mpi \in [MPIKeys -> Nat]
    /\ Total(mpi, MPIGroups) = Count(history, DirectCalls("MPI"))
    /\ Total(mpi, point_to_point) = mpi["point_to_point"]
    /\ Total(mpi, collective) = mpi["collective"]
OMPInv ==
    /\ omp \in [OMPKeys -> Nat]
    /\ Total(omp, OMPGroups) = Count(history, DirectCalls("kmpc"))
    /\ \A g \in DOMAIN OMPMembers : Total(omp, OMPMembers[g]) = omp[g]
ExternalInv ==
    /\ IsCount(callCount)
    /\ Total(callCount, DOMAIN callCount) >= Count(history, DirectCalls("MPI")) + Count(history, DirectCalls("kmpc"))
CallInv == HistoryTyped /\ MPIInv /\ OMPInv /\ ExternalInv

LEMMA CallInit ==
    ASSUME Init
    PROVE  CallInv
<1>0. history = <<>> /\ HistoryTyped
  BY DEF Init, HistoryTyped
<1>1. Count(history, DirectCalls("MPI")) = 0 /\ Count(history, DirectCalls("kmpc")) = 0
  BY <1>0, CountEmpty
<1>2. mpi \in [MPIKeys -> Nat] /\ \A k \in MPIKeys : mpi[k] = 0
  BY DEF Init, MPIKeys
<1>3. MPIInv
  <2>1. /\ MPIGroups \subseteq MPIKeys /\ point_to_point \subseteq MPIKeys /\ collective \subseteq MPIKeys
        /\ "point_to_point" \in MPIKeys /\ "collective" \in MPIKeys
    BY DEF MPIKeys, MPIGroups
  <2>2. Total(mpi, MPIGroups) = 0 /\ Total(mpi, point_to_point) = 0 /\ Total(mpi, collective) = 0
    BY <1>2, <2>1, FiniteCalls, SumZero DEF Total
  <2> QED BY <1>1, <1>2, <2>1, <2>2 DEF MPIInv
<1>4. omp \in [OMPKeys -> Nat] /\ \A k \in OMPKeys : omp[k] = 0
  BY DEF Init, OMPKeys
<1>5. OMPInv
  <2>1. OMPGroups \subseteq OMPKeys /\ \A g \in DOMAIN OMPMembers : g \in OMPKeys /\ OMPMembers[g] \subseteq OMPKeys
    BY DEF OMPKeys, OMPGroups, OMPRoutines
  <2>2. Total(omp, OMPGroups) = 0
    BY <1>4, <2>1, FiniteCalls, SumZero DEF Total
  <2>3. \A g \in DOMAIN OMPMembers : Total(omp, OMPMembers[g]) = 0
    BY <1>4, <2>1, FiniteCalls, SumZero DEF Total
  <2> QED BY <1>1, <1>4, <2>1, <2>2, <2>3 DEF OMPInv
<1>6. ExternalInv
  <2>1. callCount = <<>> /\ DOMAIN callCount = {}
    BY DEF Init
  <2>2. IsFiniteSet({})
    BY FS_EmptySet
  <2>3. IsCount(callCount)
    BY <2>1, <2>2, Zenon DEF IsCount
  <2>4. Total(callCount, DOMAIN callCount) = 0
    BY <2>1, SumEmpty DEF Total
  <2> QED BY <1>1, <2>3, <2>4 DEF ExternalInv
<1> QED BY <1>0, <1>3, <1>5, <1>6 DEF CallInv

\* The step of one instruction, library by library.
LEMMA CallStep ==
    ASSUME CallInv, [Next]_vars
    PROVE  CallInv'
<1>0. HistoryTyped'
  BY HistoryStep DEF CallInv
<1>1. CASE UNCHANGED vars
  <2>1. mpi' = mpi /\ omp' = omp /\ callCount' = callCount /\ history' = history
    BY <1>1 DEF vars
  <2> QED BY <1>0, <2>1 DEF CallInv, MPIInv, OMPInv, ExternalInv, IsCount
<1>2. ASSUME NEW I \in Instructions, analyze_phi(I) \/ analyze(I)
      PROVE  CallInv'
  <2>1. history' = Append(history, I)
    BY <1>2 DEF analyze_phi, analyze
  <2>2. \A lib : /\ Count(history, DirectCalls(lib)) \in Nat
                 /\ Count(Append(history, I), DirectCalls(lib))
                      = Count(history, DirectCalls(lib)) + IF DirectCall(I, lib) THEN 1 ELSE 0
    <3> SUFFICES ASSUME NEW lib
                 PROVE  /\ Count(history, DirectCalls(lib)) \in Nat
                        /\ Count(Append(history, I), DirectCalls(lib))
                             = Count(history, DirectCalls(lib)) + IF DirectCall(I, lib) THEN 1 ELSE 0
      OBVIOUS
    <3>1. I \in DirectCalls(lib) <=> DirectCall(I, lib)
      BY DEF DirectCalls
    <3>2. history \in Seq(Instructions)
      BY DEF CallInv, HistoryTyped
    <3>3. /\ Count(history, DirectCalls(lib)) \in Nat
          /\ Count(Append(history, I), DirectCalls(lib))
               = Count(history, DirectCalls(lib)) + IF I \in DirectCalls(lib) THEN 1 ELSE 0
      BY <3>2, CountAppend
    <3> QED BY <3>1, <3>3
  <2>3. MPIInv'
    <3>1. CASE DirectCall(I, "MPI")
      <4>1. mpi' = Bumped(mpi, MPICounters(I.f))
        BY <1>2, <3>1 DEF analyze_phi, analyze, mpi_visit, DirectCall
      <4>2. /\ mpi' \in [MPIKeys -> Nat]
            /\ Total(mpi, MPIGroups) \in Int /\ Total(mpi', MPIGroups) = Total(mpi, MPIGroups) + 1
            /\ Total(mpi', point_to_point) = mpi'["point_to_point"]
            /\ Total(mpi', collective) = mpi'["collective"]
        BY <4>1, MPIMoves DEF CallInv, MPIInv
      <4> QED BY <2>1, <2>2, <3>1, <4>2 DEF CallInv, MPIInv
    <3>2. CASE ~DirectCall(I, "MPI")
      <4>1. mpi' = mpi
        BY <1>2, <3>2 DEF analyze_phi, analyze, mpi_visit, DirectCall
      <4> QED BY <2>1, <2>2, <3>2, <4>1 DEF CallInv, MPIInv
    <3> QED BY <3>1, <3>2
  <2>4. OMPInv'
    <3>1. CASE DirectCall(I, "kmpc")
      <4>1. omp' = Bumped(omp, OMPCounters(I.f))
        BY <1>2, <3>1 DEF analyze_phi, analyze, omp_visit, DirectCall
      <4>2. /\ omp' \in [OMPKeys -> Nat]
            /\ Total(omp, OMPGroups) \in Int /\ Total(omp', OMPGroups) = Total(omp, OMPGroups) + 1
            /\ \A g \in DOMAIN OMPMembers : Total(omp', OMPMembers[g]) = omp'[g]
        BY <4>1, OMPMoves DEF CallInv, OMPInv
      <4> QED BY <2>1, <2>2, <3>1, <4>2 DEF CallInv, OMPInv
    <3>2. CASE ~DirectCall(I, "kmpc")
      <4>1. omp' = omp
        BY <1>2, <3>2 DEF analyze_phi, analyze, omp_visit, DirectCall
      <4> QED BY <2>1, <2>2, <3>2, <4>1 DEF CallInv, OMPInv
    <3> QED BY <3>1, <3>2
  <2>5. ExternalInv'
    <3>1. CASE analyze(I) /\ I.op = "Call" /\ I.f.how # "unresolved" /\ ~I.f.body
      <4>1. PICK k : callCount' = Incremented(callCount, k)
        BY <3>1 DEF analyze, elc_visit
      <4>2. /\ IsCount(callCount') /\ Total(callCount, DOMAIN callCount) \in Int
            /\ Total(callCount', DOMAIN callCount') = Total(callCount, DOMAIN callCount) + 1
        BY <4>1, ExternalMoves DEF CallInv, ExternalInv
      <4>3. ~(DirectCall(I, "MPI") /\ DirectCall(I, "kmpc"))
        BY DEF DirectCall
      <4> QED BY <2>1, <2>2, <4>2, <4>3 DEF CallInv, ExternalInv, IsCount
    <3>2. CASE ~(analyze(I) /\ I.op = "Call" /\ I.f.how # "unresolved" /\ ~I.f.body)
      <4>1. callCount' = callCount
        BY <1>2, <3>2 DEF analyze_phi, analyze, elc_visit
      <4>2. ~DirectCall(I, "MPI") /\ ~DirectCall(I, "kmpc")
        BY <1>2, <3>2, InstructionsAssumption DEF DirectCall, analyze_phi
      <4> QED BY <2>1, <2>2, <4>1, <4>2 DEF CallInv, ExternalInv, IsCount
    <3> QED BY <3>1, <3>2
  <2> QED BY <1>0, <2>3, <2>4, <2>5 DEF CallInv
<1> QED BY <1>1, <1>2 DEF Next

\* The lines of a group that print their own counter.
LEMMA LinesAddUp ==
    ASSUME NEW m \in [OMPKeys -> Nat], NEW g \in DOMAIN OMPMembers, Total(m, OMPMembers[g]) = m[g]
    PROVE  Total([l \in OMPRoutines |-> m[OMPPrinted(l)]], OMPMembers[g] \ OMPMisprinted)
             = m[g] - Total(m, OMPMembers[g] \cap OMPMisprinted)
<1> DEFINE p == [l \in OMPRoutines |-> m[OMPPrinted(l)]]
           A == OMPMembers[g] \ OMPMisprinted
           B == OMPMembers[g] \cap OMPMisprinted
<1>1. OMPMembers[g] \subseteq OMPRoutines /\ OMPRoutines \subseteq OMPKeys
  BY DEF OMPRoutines, OMPKeys
<1>2. IsFiniteSet(A) /\ IsFiniteSet(B) /\ A \cap B = {} /\ A \cup B = OMPMembers[g]
  BY FiniteCalls, FS_Subset
<1>3. \A l \in A : m[l] \in Int /\ p[l] = m[l]
  BY <1>1 DEF OMPMisprinted
<1>4. \A l \in A \cup B : m[l] \in Int
  BY <1>1, <1>2
<1> HIDE DEF p, A, B
<1>5. SumFunctionOnSet(p, A) = SumFunctionOnSet(m, A)
  BY <1>2, <1>3, SumEqual
<1>6. SumFunctionOnSet(m, A \cup B) = SumFunctionOnSet(m, A) + SumFunctionOnSet(m, B)
  BY <1>2, <1>4, SumUnion
<1>7. SumFunctionOnSet(m, A \cup B) = m[g]
  BY <1>2, Zenon DEF Total
<1>8. SumFunctionOnSet(m, A) \in Int /\ SumFunctionOnSet(m, B) \in Int
  BY <1>2, <1>4, SumInt
<1>9. SumFunctionOnSet(p, A) = m[g] - SumFunctionOnSet(m, B)
  BY <1>5, <1>6, <1>7, <1>8
<1> QED BY <1>9 DEF Total, p, A, B

LEMMA CallsFollow ==
    ASSUME CallInv
    PROVE  CallsAddUp
<1>2. Total(mpi, MPIGroups) = Executed(LAMBDA I : I.op = "Call" /\ I.f.how = "direct" /\ I.f.lib = "MPI")
  <2>1. {n \in DOMAIN history : history[n] \in DirectCalls("MPI")}
          = {n \in DOMAIN history : /\ history[n].op = "Call" /\ history[n].f.how = "direct"
                                    /\ history[n].f.lib = "MPI"}
    BY DEF CallInv, HistoryTyped, DirectCalls, DirectCall
  <2>2. Count(history, DirectCalls("MPI"))
          = Executed(LAMBDA I : I.op = "Call" /\ I.f.how = "direct" /\ I.f.lib = "MPI")
    BY <2>1, Zenon DEF Count, Executed
  <2> QED BY <2>2 DEF CallInv, MPIInv
<1>3. Total(omp, OMPGroups) = Executed(LAMBDA I : I.op = "Call" /\ I.f.how = "direct" /\ I.f.lib = "kmpc")
  <2>1. {n \in DOMAIN history : history[n] \in DirectCalls("kmpc")}
          = {n \in DOMAIN history : /\ history[n].op = "Call" /\ history[n].f.how = "direct"
                                    /\ history[n].f.lib = "kmpc"}
    BY DEF CallInv, HistoryTyped, DirectCalls, DirectCall
  <2>2. Count(history, DirectCalls("kmpc"))
          = Executed(LAMBDA I : I.op = "Call" /\ I.f.how = "direct" /\ I.f.lib = "kmpc")
    BY <2>1, Zenon DEF Count, Executed
  <2> QED BY <2>2 DEF CallInv, OMPInv
<1>4. \A g \in DOMAIN OMPMembers :
          Total([l \in OMPRoutines |-> omp[OMPPrinted(l)]], OMPMembers[g] \ OMPMisprinted)
            = omp[g] - Total(omp, OMPMembers[g] \cap OMPMisprinted)
  BY LinesAddUp DEF CallInv, OMPInv
<1>5. Total(callCount, DOMAIN callCount) >= Total(mpi, MPIGroups) + Total(omp, OMPGroups)
  BY DEF CallInv, MPIInv, OMPInv, ExternalInv
<1>6. Total(mpi, point_to_point) = mpi["point_to_point"] /\ Total(mpi, collective) = mpi["collective"]
  BY DEF CallInv, MPIInv
<1> QED BY <1>2, <1>3, <1>4, <1>5, <1>6 DEF CallsAddUp

\* MPIstats, OpenMPstats and ExternalLibraryCount: the groups of the call
\* reports add up to the direct calls executed, the lines of a group to its
\* total, and what they count is counted as external too, for every program.
THEOREM CallTotals ==
    Spec => []CallsAddUp
<1>1. Init => CallInv
  BY CallInit
<1>2. CallInv /\ [Next]_vars => CallInv'
  BY CallStep
<1>3. CallInv => CallsAddUp
  BY CallsFollow
<1> QED BY <1>1, <1>2, <1>3, PTL DEF Spec

--------------------------------------------------------------------------------
(* The breakdown by type. What is entered for an opcode is printed in one of  *)
(* the three places of its report.                                            *)

Explained == BrokenDown \ {"PtrToInt", "ExtractValue", "InsertValue"}
PrintedScalar(op, b) == b.kind = "scalar" /\ b.n = 0 /\ b.slot \in printed_slots(op)
PrintedVector(op, b) == b.kind = "vector" /\ b.slot \in printed_slots(op)
Printed(op, b) == PrintedScalar(op, b) \/ PrintedVector(op, b) \/ b = Misc

\* The type that LLVM allows for the instruction is one the report prints.
LEMMA BucketPrinted ==
    ASSUME NEW op \in Explained, NEW ty, TypeAllowed(op, ty)
    PROVE  bucket(op, ty) # Nowhere /\ Printed(op, bucket(op, ty))
<1> USE DEF Vector, Scalar, Misc, Nowhere, Printed, PrintedScalar, PrintedVector
<1>1. Misc # Nowhere /\ Scalar(ty.elem) # Nowhere /\ Vector(ty) # Nowhere
  OBVIOUS
<1>2. \A e \in IntElems : slot(e) \in Ints
  BY DEF IntElems, slot, Ints
<1>3. \A e \in Floats \cup {"pointer"} : slot(e) = e
  BY DEF slot, Floats
<1>4. slot(ty.elem) = "void" => ty.elem = "void"
  BY DEF slot
<1>5. "pointer" \in Aggregates /\ "pointer" \notin Floats \cup Ints \cup {"void"}
  BY DEF Aggregates, Floats, Ints
<1>6. IntsOnly \cap FloatsOnly = {} /\ IntsOnly \subseteq ArithOps /\ FloatsOnly \subseteq ArithOps
  BY DEF IntsOnly, FloatsOnly, ArithOps, IntOps, FPOps, ConvOps
<1>7. {"Load", "Store", "GetElementPtr"} \cap ArithOps = {}
  BY DEF ArithOps, IntOps, FPOps, BitwiseOps, ConvOps, VectorOps
<1>8. ty.n > 0 => slot(ty.elem) \in printed_slots(op)
  <2>1. op # "PtrToInt"
    BY DEF Explained
  <2> QED BY <1>2, <1>3, <1>5, <1>6, <2>1 DEF printed_slots, TypeAllowed
<1>9. ty.n > 0 => PrintedVector(op, Vector(ty))
  BY <1>8
<1>10. CASE op \in {"Load", "Store"}
  <2>1. bucket(op, ty) = visitMemoryInstruction(ty)
    BY <1>7, <1>10 DEF bucket
  <2>2. op \notin IntsOnly /\ op \notin FloatsOnly
    BY <1>6, <1>7, <1>10
  <2>3. slot(ty.elem) \in Floats \cup Ints \cup Aggregates => PrintedScalar(op, Scalar(ty.elem))
    BY <2>2 DEF printed_slots
  <2> QED BY <1>1, <1>9, <2>1, <2>3 DEF visitMemoryInstruction
<1>11. CASE op = "GetElementPtr"
  <2>1. bucket(op, ty) = visitGetElementPtr(ty)
    BY <1>7, <1>11 DEF bucket
  <2> QED BY <1>1, <1>9, <2>1 DEF visitGetElementPtr
<1>12. CASE op \in ArithOps
  <2>1. bucket(op, ty) = visitArith(ty)
    BY <1>7, <1>12 DEF bucket
  <2>2. slot(ty.elem) \in Floats \cup Ints \cup {"void"} => slot(ty.elem) \in printed_slots(op)
    <3>1. ty.elem # "void" /\ op # "PtrToInt"
      BY <1>12 DEF TypeAllowed, Explained
    <3> QED BY <1>2, <1>3, <1>4, <1>5, <1>6, <3>1 DEF printed_slots, TypeAllowed
  <2>3. slot(ty.elem) \in Floats \cup Ints \cup {"void"} => PrintedScalar(op, Scalar(ty.elem))
    BY <2>2
  <2> QED BY <1>1, <1>9, <2>1, <2>3 DEF visitArith
<1>13. op \in {"Load", "Store", "GetElementPtr"} \cup ArithOps
  BY DEF Explained, BrokenDown, AggregateOps
<1> QED BY <1>10, <1>11, <1>12, <1>13

\* The three places of a report add up to what was entered for the opcode.
LEMMA ReportAddsUp ==
    ASSUME NEW c, IsCount(c), NEW m, NEW op, \A k \in DOMAIN c : k.op = op => Printed(op, k.bucket),
           NEW r, r = JSONdump_perType(c, m, op)
    PROVE  r.total = m[op] /\ r.scalar + r.vector + r.misc = SumFunctionOnSet(c, {k \in DOMAIN c : k.op = op})
<1> DEFINE P == printed_slots(op)
           V == {k \in DOMAIN c : k.op = op /\ k.bucket.kind = "vector"}
           sizes == {k.bucket.n : k \in V}
           Cl(n) == {k \in DOMAIN c : k.op = op /\ k.bucket.kind = "vector" /\ k.bucket.n = n /\ k.bucket.slot \in P}
           C == [n \in sizes |-> Cl(n)]
           F == [n \in sizes |-> SumFunctionOnSet(c, Cl(n))]
           h == [k \in DOMAIN c |-> k.bucket.n]
           A == {k \in DOMAIN c : k.op = op /\ k.bucket.kind = "scalar" /\ k.bucket.n = 0 /\ k.bucket.slot \in P}
           B == {k \in DOMAIN c : k.op = op /\ k.bucket.kind = "vector" /\ k.bucket.slot \in P}
           M == {k \in DOMAIN c : k.op = op /\ k.bucket = Misc}
           All == {k \in DOMAIN c : k.op = op}
<1>1. /\ r.total = m[op] /\ r.scalar = SumFunctionOnSet(c, A)
      /\ r.vector = SumFunctionOnSet(F, sizes) /\ r.misc = SumFunctionOnSet(c, M)
  BY DEF JSONdump_perType, JSONdump_partial
<1>2. IsFiniteSet(A) /\ IsFiniteSet(B) /\ IsFiniteSet(M) /\ IsFiniteSet(V) /\ \A k \in DOMAIN c : c[k] \in Int
  BY FS_Subset DEF IsCount
<1>3. IsFiniteSet(sizes)
  <2> DEFINE s == [k \in V |-> k.bucket.n]
  <2>1. s \in Surjection(V, sizes)
    BY DEF Surjection
  <2> HIDE DEF s, V, sizes
  <2> QED BY <1>2, <2>1, FS_Surjection
<1>4. /\ \A n \in sizes : \A k : k \in C[n] <=> k \in B /\ h[k] = n
      /\ \A k : k \in B <=> k \in B /\ h[k] \in sizes
      /\ \A n \in sizes : F[n] = SumFunctionOnSet(c, C[n])
  OBVIOUS
<1>5. /\ A \cap B = {} /\ (A \cup B) \cap M = {} /\ (A \cup B) \cup M = All
      /\ \A k \in (A \cup B) \cup M : c[k] \in Int
  <2>1. Misc.kind = "misc"
    BY DEF Misc
  <2>2. A \cap B = {} /\ (A \cup B) \cap M = {}
    BY <2>1
  <2>3. (A \cup B) \cup M = All
    BY DEF Printed, PrintedScalar, PrintedVector
  <2> QED BY <1>2, <2>2, <2>3
<1> HIDE DEF P, V, sizes, C, F, h, A, B, M, All
<1>6. SumFunctionOnSet(F, sizes) = SumFunctionOnSet(c, B)
  <2>1. \A k \in B : c[k] \in Int
    BY <1>5
  <2> QED BY ONLY <1>2, <1>3, <1>4, <2>1, SumClasses
<1>7. IsFiniteSet(A \cup B)
  BY <1>2, FS_Union
<1>8. SumFunctionOnSet(c, A \cup B) = SumFunctionOnSet(c, A) + SumFunctionOnSet(c, B)
  BY <1>2, <1>5, SumUnion
<1>9. SumFunctionOnSet(c, (A \cup B) \cup M) = SumFunctionOnSet(c, A \cup B) + SumFunctionOnSet(c, M)
  BY <1>2, <1>5, <1>7, SumUnion
<1>10. SumFunctionOnSet(c, (A \cup B) \cup M) = SumFunctionOnSet(c, All)
  BY <1>5, Zenon
<1>11. r.scalar + r.vector + r.misc = SumFunctionOnSet(c, All)
  BY <1>1, <1>6, <1>8, <1>9, <1>10
<1> QED BY <1>1, <1>11 DEF All

Keyed(c, op) == {k \in DOMAIN c : k.op = op}
BreakInv ==
    /\ num \in [Opcodes -> Nat]
    /\ IsCount(counters)
    /\ \A k \in DOMAIN counters : k.op \in Explained => Printed(k.op, k.bucket)
    /\ \A op \in Explained : num[op] = SumFunctionOnSet(counters, Keyed(counters, op))

LEMMA ExplainedOps ==
    Explained \subseteq Opcodes /\ "PHI" \notin Explained
BY DEF Explained, BrokenDown, ArithOps, Opcodes, Groups, IntOps, FPOps, BitwiseOps, ConvOps, VectorOps,
       AggregateOps, AddrOps, MiscOps

LEMMA BreakInit ==
    ASSUME Init
    PROVE  BreakInv
<1>1. counters = <<>> /\ DOMAIN counters = {} /\ num \in [Opcodes -> Nat] /\ \A op \in Opcodes : num[op] = 0
  BY DEF Init
<1>2. IsFiniteSet({})
  BY FS_EmptySet
<1>3. IsCount(counters)
  BY <1>1, <1>2, Zenon DEF IsCount
<1>4. ASSUME NEW op
      PROVE  SumFunctionOnSet(counters, Keyed(counters, op)) = 0
  <2>1. Keyed(counters, op) = {}
    BY <1>1 DEF Keyed
  <2> QED BY <2>1, SumEmpty, Zenon
<1> QED BY <1>1, <1>3, <1>4, ExplainedOps DEF BreakInv

\* An instruction enters one key of its opcode, and none of another opcode.
LEMMA KeyedMoves ==
    ASSUME NEW c, IsCount(c), NEW k, NEW op, k.op = op, NEW d, d = Incremented(c, k)
    PROVE  /\ IsCount(d) /\ DOMAIN d = DOMAIN c \cup {k}
           /\ SumFunctionOnSet(c, Keyed(c, op)) \in Int
           /\ SumFunctionOnSet(d, Keyed(d, op)) = SumFunctionOnSet(c, Keyed(c, op)) + 1
<1> DEFINE Q == {j \in DOMAIN c \cup {k} : j.op = op}
<1>1. k \in Q
  OBVIOUS
<1>2. Q \cap DOMAIN c = Keyed(c, op)
  BY DEF Keyed
<1> HIDE DEF Q
<1>3. /\ IsCount(d) /\ DOMAIN d = DOMAIN c \cup {k}
      /\ SumFunctionOnSet(c, Q \cap DOMAIN c) \in Int
      /\ SumFunctionOnSet(d, Q \cap DOMAIN d) = SumFunctionOnSet(c, Q \cap DOMAIN c) + IF k \in Q THEN 1 ELSE 0
  BY IncrementedMoves
<1>4. Q \cap DOMAIN d = Keyed(d, op)
  BY <1>3 DEF Q, Keyed
<1>5. SumFunctionOnSet(c, Q \cap DOMAIN c) = SumFunctionOnSet(c, Keyed(c, op))
  BY <1>2, Zenon
<1>6. SumFunctionOnSet(d, Q \cap DOMAIN d) = SumFunctionOnSet(d, Keyed(d, op))
  BY <1>4, Zenon
<1> QED BY <1>1, <1>3, <1>5, <1>6

LEMMA KeyedStays ==
    ASSUME NEW c, IsCount(c), NEW k, NEW op, NEW d, d = Incremented(c, k), k \notin Keyed(d, op)
    PROVE  /\ IsCount(d) /\ DOMAIN d = DOMAIN c \cup {k}
           /\ SumFunctionOnSet(c, Keyed(c, op)) \in Int
           /\ SumFunctionOnSet(d, Keyed(d, op)) = SumFunctionOnSet(c, Keyed(c, op))
<1> DEFINE Q == {j \in DOMAIN c \cup {k} : j.op = op}
<1>1. k \notin Q
  BY DEF Keyed, Incremented
<1>2. Q \cap DOMAIN c = Keyed(c, op)
  BY DEF Keyed
<1> HIDE DEF Q
<1>3. /\ IsCount(d) /\ DOMAIN d = DOMAIN c \cup {k}
      /\ SumFunctionOnSet(c, Q \cap DOMAIN c) \in Int
      /\ SumFunctionOnSet(d, Q \cap DOMAIN d) = SumFunctionOnSet(c, Q \cap DOMAIN c) + IF k \in Q THEN 1 ELSE 0
  BY IncrementedMoves
<1>4. Q \cap DOMAIN d = Keyed(d, op)
  BY <1>3 DEF Q, Keyed
<1>5. SumFunctionOnSet(c, Q \cap DOMAIN c) = SumFunctionOnSet(c, Keyed(c, op))
  BY <1>2, Zenon
<1>6. SumFunctionOnSet(d, Q \cap DOMAIN d) = SumFunctionOnSet(d, Keyed(d, op))
  BY <1>4, Zenon
<1> QED BY <1>1, <1>3, <1>5, <1>6

LEMMA BreakStep ==
    ASSUME BreakInv, [Next]_vars
    PROVE  BreakInv'
<1>1. CASE UNCHANGED <<num, counters>>
  BY <1>1 DEF BreakInv, IsCount, Keyed
<1>2. ASSUME NEW I \in Instructions, analyze(I)
      PROVE  BreakInv'
  <2> DEFINE b == bucket(I.op, I.ty)
             k == [op |-> I.op, bucket |-> b]
  <2>1. num' = Bumped(num, {I.op}) /\ counters' = IF b = Nowhere THEN counters ELSE Incremented(counters, k)
    BY <1>2 DEF analyze, mix_visit
  <2>2. I.op \in Explained => b # Nowhere /\ Printed(I.op, b)
    BY BucketPrinted, InstructionsAssumption
  <2>3. num' \in [Opcodes -> Nat] /\ \A op \in Opcodes : num'[op] = num[op] + IF op = I.op THEN 1 ELSE 0
    BY <2>1, BumpedTyped DEF BreakInv
  <2>4. k.op = I.op /\ k.bucket = b
    OBVIOUS
  <2> HIDE DEF b
  <2>5. CASE b = Nowhere
    <3>1. counters' = counters /\ I.op \notin Explained
      BY <2>1, <2>2, <2>5
    <3>2. \A op \in Explained : num'[op] = num[op]
      BY <2>3, <3>1, ExplainedOps DEF BreakInv
    <3> QED BY <2>3, <3>1, <3>2 DEF BreakInv, IsCount, Keyed
  <2>6. CASE b # Nowhere
    <3>1. counters' = Incremented(counters, k)
      BY <2>1, <2>6
    <3>2. ASSUME NEW op
          PROVE  /\ IsCount(counters') /\ DOMAIN counters' = DOMAIN counters \cup {k}
                 /\ SumFunctionOnSet(counters, Keyed(counters, op)) \in Int
                 /\ SumFunctionOnSet(counters', Keyed(counters', op))
                      = SumFunctionOnSet(counters, Keyed(counters, op)) + IF I.op = op THEN 1 ELSE 0
      <4>1. IsCount(counters)
        BY DEF BreakInv
      <4> HIDE DEF k
      <4>2. CASE k.op = op
        <5>1. /\ IsCount(counters') /\ DOMAIN counters' = DOMAIN counters \cup {k}
              /\ SumFunctionOnSet(counters, Keyed(counters, op)) \in Int
              /\ SumFunctionOnSet(counters', Keyed(counters', op))
                   = SumFunctionOnSet(counters, Keyed(counters, op)) + 1
          BY ONLY <3>1, <4>1, <4>2, KeyedMoves
        <5> QED BY <2>4, <4>2, <5>1
      <4>3. CASE k.op # op
        <5>1. /\ IsCount(counters') /\ DOMAIN counters' = DOMAIN counters \cup {k}
              /\ SumFunctionOnSet(counters, Keyed(counters, op)) \in Int
              /\ SumFunctionOnSet(counters', Keyed(counters', op)) = SumFunctionOnSet(counters, Keyed(counters, op))
          <6>1. k \notin Keyed(counters', op)
            BY <4>3 DEF Keyed
          <6> QED BY ONLY <3>1, <4>1, <6>1, KeyedStays
        <5> QED BY <2>4, <4>3, <5>1
      <4> QED BY <4>2, <4>3
    <3> HIDE DEF k
    <3>3. \A j \in DOMAIN counters' : j.op \in Explained => Printed(j.op, j.bucket)
      BY <2>2, <2>4, <3>2 DEF BreakInv
    <3>4. \A op \in Explained : num'[op] = SumFunctionOnSet(counters', Keyed(counters', op))
      BY <2>3, <3>2, ExplainedOps DEF BreakInv
    <3>5. IsCount(counters')
      BY <3>2
    <3> QED BY <2>3, <3>3, <3>4, <3>5 DEF BreakInv, IsCount, Keyed
  <2> QED BY <2>5, <2>6
<1>3. ASSUME NEW I \in Instructions, analyze_phi(I)
      PROVE  UNCHANGED <<num, counters>>
  BY <1>3 DEF analyze_phi
<1>4. UNCHANGED vars => UNCHANGED <<num, counters>>
  BY DEF vars
<1> QED BY <1>1, <1>2, <1>3, <1>4 DEF Next

LEMMA BreakFollows ==
    ASSUME BreakInv
    PROVE  BreakdownComplete
<1> SUFFICES ASSUME NEW op \in Explained, NEW r, r = JSONdump_perType(counters, num, op)
             PROVE  r.total = r.scalar + r.vector + r.misc
  BY DEF BreakdownComplete, Explained
<1>1. \A k \in DOMAIN counters : k.op = op => Printed(op, k.bucket)
  BY DEF BreakInv
<1>2. IsCount(counters) /\ num[op] = SumFunctionOnSet(counters, {k \in DOMAIN counters : k.op = op})
  BY DEF BreakInv, Keyed
<1> QED BY <1>1, <1>2, ReportAddsUp

\* The breakdown of an opcode by type, JSONdump_perType: scalar, vector and
\* miscellaneous instructions add up to the total of the opcode, whatever types
\* that LLVM allows the program uses (ptrtoint, extractvalue and insertvalue
\* apart, as in BreakdownComplete).
THEOREM Breakdown ==
    Spec => []BreakdownComplete
<1>1. Init => BreakInv
  BY BreakInit
<1>2. BreakInv /\ [Next]_vars => BreakInv'
  BY BreakStep
<1>3. BreakInv => BreakdownComplete
  BY BreakFollows
<1> QED BY <1>1, <1>2, <1>3, PTL DEF Spec

HIDE InstructionsAssumption

--------------------------------------------------------------------------------
(* Search trees: the levels of a tree are those of its two subtrees, one down. *)

Split(A) == UNION {Halves(x[1], x[2]) : x \in A}

LEMMA LevelChain ==
    ASSUME NEW t, NEW S, NEW n \in Nat
    PROVE  \E f : /\ f[0] = {<<t, S>>}
                  /\ \A k \in 1..n : f[k] = Split(f[k - 1])
                  /\ Level(t, S, n) = f[n]
<1> DEFINE body(f, m) == [k \in 0..m |-> IF k = 0 THEN {<<t, S>>} ELSE Split(f[k - 1])]
           T == {m \in 0..n : \E f : f = body(f, m)}
<1>1. 0 \in T
  <2> DEFINE g == [k \in 0..0 |-> {<<t, S>>}]
  <2>1. g = body(g, 0)
    BY SMT
  <2>2. \E f : f = body(f, 0)
    BY <2>1
  <2> QED BY <2>2
<1>2. ASSUME NEW m \in 1..n, m - 1 \in T
      PROVE  m \in T
  <2>1. PICK f : f = body(f, m - 1)
    BY <1>2
  <2> DEFINE g == [k \in 0..m |-> IF k <= m - 1 THEN f[k] ELSE Split(f[m - 1])]
  <2>2. g = body(g, m)
    <3>1. ASSUME NEW k \in 0..m
          PROVE  g[k] = IF k = 0 THEN {<<t, S>>} ELSE Split(g[k - 1])
      <4>1. CASE k = 0
        BY <2>1, <4>1
      <4>2. CASE k \in 1..m - 1
        <5>0. k \in 0..m - 1 /\ k # 0
          BY <4>2
        <5>1. f[k] = Split(f[k - 1])
          BY <2>1, <5>0, Zenon
        <5>2. g[k] = f[k] /\ g[k - 1] = f[k - 1]
          BY <4>2
        <5> QED BY <5>1, <5>2, <4>2
      <4>3. CASE k = m
        <5>1. m - 1 \in 0..m /\ ~(m <= m - 1) /\ m # 0
          OBVIOUS
        <5>2. g[m - 1] = f[m - 1] /\ g[m] = Split(f[m - 1])
          BY <5>1
        <5> QED BY <5>1, <5>2, <4>3
      <4> QED BY <4>1, <4>2, <4>3
    <3> QED BY <3>1
  <2>3. \E h : h = body(h, m)
    BY <2>2
  <2> QED BY <2>3
<1>3. n \in T
  <2> HIDE DEF T
  <2>1. \A k \in 1..n : k - 1 \in T => k \in T
    BY <1>2
  <2>2. \A k \in 0..n : k \in T
    BY <1>1, <2>1, UpTo
  <2> QED BY <2>2
<1>4. \E f : f = body(f, n)
  BY <1>3
<1> DEFINE r == CHOOSE f : f = body(f, n)
<1>5. r = body(r, n)
  BY <1>4
<1>6. Level(t, S, n) = r[n]
  BY DEF Level, Split
<1> HIDE DEF r
<1>7. r[0] = {<<t, S>>}
  BY <1>5
<1>8. ASSUME NEW k \in 1..n
      PROVE  r[k] = Split(r[k - 1])
  <2>1. k \in 0..n /\ k # 0
    OBVIOUS
  <2> QED BY <2>1, <1>5
<1> QED BY <1>6, <1>7, <1>8

LEMMA LevelSame ==
    ASSUME NEW n \in Nat, NEW f, NEW g, f[0] = g[0], \A k \in 1..n : f[k] = Split(f[k - 1]),
           \A k \in 1..n : g[k] = Split(g[k - 1])
    PROVE  f[n] = g[n]
<1> DEFINE T == {k \in 0..n : f[k] = g[k]}
<1>1. 0 \in T
  OBVIOUS
<1>2. ASSUME NEW k \in 1..n, k - 1 \in T
      PROVE  k \in T
  <2>1. f[k - 1] = g[k - 1] /\ f[k] = Split(f[k - 1]) /\ g[k] = Split(g[k - 1])
    BY <1>2
  <2>2. f[k] = g[k]
    BY ONLY <2>1, Zenon
  <2> QED BY <2>2
<1>3. \A k \in 0..n : k \in T
  <2> HIDE DEF T
  <2> QED BY <1>1, <1>2, UpTo
<1>4. n \in T
  BY <1>3
<1> QED BY <1>4

LEMMA LevelNext ==
    ASSUME NEW t, NEW S
    PROVE  Level(t, S, 0) = {<<t, S>>} /\ \A d \in Nat : Level(t, S, d + 1) = Split(Level(t, S, d))
<1>1. Level(t, S, 0) = {<<t, S>>}
  BY LevelChain, 0 \in Nat
<1>2. ASSUME NEW d \in Nat
      PROVE  Level(t, S, d + 1) = Split(Level(t, S, d))
  <2>1. PICK f : f[0] = {<<t, S>>} /\ (\A k \in 1..d : f[k] = Split(f[k - 1])) /\ Level(t, S, d) = f[d]
    BY LevelChain
  <2>2. PICK g : /\ g[0] = {<<t, S>>} /\ (\A k \in 1..d + 1 : g[k] = Split(g[k - 1]))
                 /\ Level(t, S, d + 1) = g[d + 1]
    <3>1. d + 1 \in Nat
      OBVIOUS
    <3> QED BY ONLY <3>1, LevelChain
  <2>3. \A k \in 1..d : g[k] = Split(g[k - 1])
    <3>1. \A k \in 1..d : k \in 1..d + 1
      OBVIOUS
    <3> QED BY <2>2, <3>1, Zenon
  <2>4. f[0] = g[0]
    BY <2>1, <2>2
  <2>5. f[d] = g[d]
    BY <2>1, <2>3, <2>4, LevelSame
  <2>6. d + 1 \in 1..d + 1 /\ (d + 1) - 1 = d
    OBVIOUS
  <2>7. g[d + 1] = Split(g[d])
    BY <2>2, <2>6
  <2> QED BY ONLY <2>1, <2>2, <2>5, <2>7, Zenon
<1> QED BY <1>1, <1>2

LEMMA LevelEmpty ==
    ASSUME NEW t, NEW S, NEW m \in Nat, Level(t, S, m) = {}
    PROVE  \A k \in Nat : Level(t, S, m + k) = {}
<1> SUFFICES ASSUME NEW n \in Nat
             PROVE  Level(t, S, m + n) = {}
  OBVIOUS
<1> DEFINE T == {k \in 0..n : Level(t, S, m + k) = {}}
<1>1. 0 \in T
  OBVIOUS
<1>2. ASSUME NEW k \in 1..n, k - 1 \in T
      PROVE  k \in T
  <2>1. m + (k - 1) \in Nat /\ (m + (k - 1)) + 1 = m + k
    OBVIOUS
  <2>2. Level(t, S, (m + (k - 1)) + 1) = Split(Level(t, S, m + (k - 1)))
    BY <2>1, LevelNext
  <2>3. Level(t, S, m + (k - 1)) = {}
    BY <1>2
  <2>4. Split({}) = {}
    BY DEF Split
  <2>5. Level(t, S, m + k) = {}
    BY ONLY <2>1, <2>2, <2>3, <2>4, Zenon
  <2> QED BY <2>5
<1>3. \A k \in 0..n : k \in T
  <2> HIDE DEF T
  <2> QED BY <1>1, <1>2, UpTo
<1>4. n \in T
  BY <1>3
<1> QED BY <1>4

LEMMA LevelHalves ==
    ASSUME NEW t, t # <<>>, NEW S, NEW n \in Nat
    PROVE  Level(t, S, n + 1) = Level(t[1].left, Below(S, t[1].key), n) \cup Level(t[1].right, Over(S, t[1].key), n)
<1> DEFINE l == t[1].left
           A == Below(S, t[1].key)
           r == t[1].right
           B == Over(S, t[1].key)
           T == {k \in 0..n : Level(t, S, k + 1) = Level(l, A, k) \cup Level(r, B, k)}
<1>1. 0 \in T
  <2>1. Level(t, S, 0 + 1) = Split({<<t, S>>})
    <3>1. 0 \in Nat
      OBVIOUS
    <3>2. Level(t, S, 0) = {<<t, S>>} /\ Level(t, S, 0 + 1) = Split(Level(t, S, 0))
      BY ONLY <3>1, LevelNext
    <3> QED BY ONLY <3>2, Zenon
  <2>2. Level(l, A, 0) = {<<l, A>>} /\ Level(r, B, 0) = {<<r, B>>}
    BY LevelNext
  <2>3. Split({<<t, S>>}) = Halves(t, S)
    <3> DEFINE H(x) == Halves(x[1], x[2])
    <3>1. \A y : y \in Split({<<t, S>>}) <=> y \in Halves(<<t, S>>[1], <<t, S>>[2])
      BY Zenon DEF Split
    <3> QED BY <3>1
  <2>4. Halves(t, S) = {<<l, A>>, <<r, B>>}
    BY DEF Halves
  <2>5. {<<l, A>>, <<r, B>>} = {<<l, A>>} \cup {<<r, B>>}
    BY Zenon
  <2> HIDE DEF l, A, r, B
  <2>6. Level(t, S, 0 + 1) = Level(l, A, 0) \cup Level(r, B, 0)
    BY ONLY <2>1, <2>2, <2>3, <2>4, <2>5, Zenon
  <2> QED BY <2>6
<1> HIDE DEF l, A, r, B
<1>2. ASSUME NEW k \in 1..n, k - 1 \in T
      PROVE  k \in T
  <2>1. (k - 1) + 1 = k /\ k \in Nat /\ k - 1 \in Nat
    OBVIOUS
  <2>2. Level(t, S, (k - 1) + 1) = Level(l, A, k - 1) \cup Level(r, B, k - 1)
    BY <1>2
  <2>3. /\ Level(t, S, k + 1) = Split(Level(t, S, k))
        /\ Level(l, A, (k - 1) + 1) = Split(Level(l, A, k - 1))
        /\ Level(r, B, (k - 1) + 1) = Split(Level(r, B, k - 1))
    BY <2>1, LevelNext
  <2>4. \A X, Y : Split(X \cup Y) = Split(X) \cup Split(Y)
    BY DEF Split
  <2>6. /\ Level(t, S, k) = Level(l, A, k - 1) \cup Level(r, B, k - 1)
        /\ Level(l, A, k) = Split(Level(l, A, k - 1)) /\ Level(r, B, k) = Split(Level(r, B, k - 1))
    BY ONLY <2>1, <2>2, <2>3, Zenon
  <2>5. Level(t, S, k + 1) = Level(l, A, k) \cup Level(r, B, k)
    <3> DEFINE X == Level(l, A, k - 1)
               Y == Level(r, B, k - 1)
    <3>1. Split(X \cup Y) = Split(X) \cup Split(Y)
      BY ONLY <2>4
    <3>2. Level(t, S, k) = X \cup Y /\ Level(l, A, k) = Split(X) /\ Level(r, B, k) = Split(Y)
      BY <2>6
    <3>3. Level(t, S, k + 1) = Split(Level(t, S, k))
      BY <2>3
    <3> HIDE DEF X, Y
    <3> QED BY ONLY <3>1, <3>2, <3>3, Zenon
  <2> QED BY <2>5
<1>3. \A k \in 0..n : k \in T
  <2> HIDE DEF T
  <2> QED BY <1>1, <1>2, UpTo
<1>4. n \in T
  BY <1>3
<1> QED BY <1>4 DEF l, A, r, B

\* Every level, however deep.
All(t, S) == \A d \in Nat : \A x \in Level(t, S, d) : Rooted(x[1], x[2])

LEMMA AllEmpty ==
    ASSUME NEW S
    PROVE  All(<<>>, S) <=> S = {}
<1>1. Level(<<>>, S, 0) = {<<<<>>, S>>}
  BY LevelNext
<1>2. Level(<<>>, S, 1) = {}
  <2>1. 0 \in Nat /\ 0 + 1 = 1
    OBVIOUS
  <2>2. Level(<<>>, S, 0 + 1) = Split(Level(<<>>, S, 0))
    BY <2>1, LevelNext
  <2>3. Split({<<<<>>, S>>}) = {}
    BY DEF Split, Halves
  <2> QED BY ONLY <1>1, <2>1, <2>2, <2>3, Zenon
<1>3. \A k \in Nat : Level(<<>>, S, 1 + k) = {}
  <2>1. 1 \in Nat
    OBVIOUS
  <2> QED BY ONLY <1>2, <2>1, LevelEmpty
<1>4. \A d \in Nat : d = 0 \/ Level(<<>>, S, d) = {}
  <2> TAKE d \in Nat
  <2>1. d = 0 \/ (d - 1 \in Nat /\ 1 + (d - 1) = d)
    OBVIOUS
  <2>2. d - 1 \in Nat => Level(<<>>, S, 1 + (d - 1)) = {}
    BY <1>3
  <2> QED BY ONLY <2>1, <2>2, Zenon
<1>5. Rooted(<<>>, S) <=> S = {}
  BY DEF Rooted
<1>6. ASSUME All(<<>>, S)
      PROVE  S = {}
  <2>1. 0 \in Nat /\ <<<<>>, S>> \in Level(<<>>, S, 0)
    BY <1>1
  <2>2. Rooted(<<<<>>, S>>[1], <<<<>>, S>>[2])
    BY <1>6, <2>1 DEF All
  <2> QED BY <1>5, <2>2
<1>7. ASSUME S = {}
      PROVE  All(<<>>, S)
  <2> SUFFICES ASSUME NEW d \in Nat, NEW x \in Level(<<>>, S, d)
               PROVE  Rooted(x[1], x[2])
    BY DEF All
  <2>1. d = 0
    BY <1>4
  <2>2. x = <<<<>>, S>>
    BY <1>1, <2>1
  <2> QED BY <1>5, <1>7, <2>2
<1> QED BY <1>6, <1>7

LEMMA AllHalves ==
    ASSUME NEW t, t # <<>>, NEW S
    PROVE  All(t, S) <=> /\ Rooted(t, S)
                         /\ All(t[1].left, Below(S, t[1].key)) /\ All(t[1].right, Over(S, t[1].key))
<1> DEFINE l == t[1].left
           A == Below(S, t[1].key)
           r == t[1].right
           B == Over(S, t[1].key)
<1>1. Level(t, S, 0) = {<<t, S>>}
  BY LevelNext
<1>2. \A d \in Nat : Level(t, S, d + 1) = Level(l, A, d) \cup Level(r, B, d)
  BY LevelHalves
<1> HIDE DEF l, A, r, B
<1>3. ASSUME All(t, S)
      PROVE  Rooted(t, S) /\ All(l, A) /\ All(r, B)
  <2>1. Rooted(t, S)
    <3>1. 0 \in Nat /\ <<t, S>> \in Level(t, S, 0)
      BY <1>1
    <3>2. Rooted(<<t, S>>[1], <<t, S>>[2])
      BY <1>3, <3>1 DEF All
    <3> QED BY <3>2
  <2>2. ASSUME NEW d \in Nat, NEW x \in Level(l, A, d) \cup Level(r, B, d)
        PROVE  Rooted(x[1], x[2])
    <3>1. x \in Level(t, S, d + 1) /\ d + 1 \in Nat
      BY <1>2
    <3> QED BY <1>3, <3>1 DEF All
  <2> QED BY <2>1, <2>2 DEF All
<1>4. ASSUME Rooted(t, S), All(l, A), All(r, B)
      PROVE  All(t, S)
  <2> SUFFICES ASSUME NEW d \in Nat, NEW x \in Level(t, S, d)
               PROVE  Rooted(x[1], x[2])
    BY DEF All
  <2>1. CASE d = 0
    <3>1. x = <<t, S>>
      BY <1>1, <2>1
    <3> QED BY <1>4, <3>1
  <2>2. CASE d # 0
    <3>1. d - 1 \in Nat /\ (d - 1) + 1 = d
      BY <2>2
    <3>2. Level(t, S, (d - 1) + 1) = Level(l, A, d - 1) \cup Level(r, B, d - 1)
      BY <1>2, <3>1
    <3>3. x \in Level(l, A, d - 1) \/ x \in Level(r, B, d - 1)
      BY <3>1, <3>2
    <3> QED BY <1>4, <3>1, <3>3 DEF All
  <2> QED BY <2>1, <2>2
<1> QED BY <1>3, <1>4 DEF l, A, r, B

\* As many levels as there are keys are enough: the sets get smaller.
LEMMA HoldsAll ==
    ASSUME NEW t, NEW S, IsFiniteSet(S), S \subseteq Int
    PROVE  Holds(t, S) <=> All(t, S)
<1> DEFINE n == Cardinality(S)
           Within(d) == \A x \in Level(t, S, d) : x[2] \subseteq S /\ IsFiniteSet(x[2]) /\ Cardinality(x[2]) <= n - d
           T == {d \in 0..n : Within(d)}
<1>1. n \in Nat
  BY FS_CardinalityType
<1>2. ASSUME All(t, S)
      PROVE  Holds(t, S)
  BY <1>1, <1>2 DEF All, Holds
<1>3. ASSUME Holds(t, S)
      PROVE  All(t, S)
  <2>1. \A d \in 0..n : \A x \in Level(t, S, d) : Rooted(x[1], x[2])
    BY <1>3 DEF Holds
  <2>2. 0 \in T
    <3>1. Level(t, S, 0) = {<<t, S>>}
      BY LevelNext
    <3>2. Within(0)
      BY <1>1, <3>1
    <3> QED BY <1>1, <3>2
  <2>3. ASSUME NEW d \in 1..n, d - 1 \in T
        PROVE  d \in T
    <3>1. d - 1 \in Nat /\ d - 1 \in 0..n /\ (d - 1) + 1 = d
      BY <1>1
    <3>2. Level(t, S, d) = Split(Level(t, S, d - 1))
      <4>1. Level(t, S, (d - 1) + 1) = Split(Level(t, S, d - 1))
        BY <3>1, LevelNext
      <4> QED BY ONLY <3>1, <4>1, Zenon
    <3>3. ASSUME NEW y \in Level(t, S, d)
          PROVE  y[2] \subseteq S /\ IsFiniteSet(y[2]) /\ Cardinality(y[2]) <= n - d
      <4>1. PICK x \in Level(t, S, d - 1) : y \in Halves(x[1], x[2])
        BY <3>2 DEF Split
      <4>2. x[2] \subseteq S /\ IsFiniteSet(x[2]) /\ Cardinality(x[2]) <= n - (d - 1)
        BY <2>3, <4>1
      <4>3. Rooted(x[1], x[2])
        BY <2>1, <3>1, <4>1
      <4>4. x[1] # <<>> /\ y \in {<<x[1][1].left, Below(x[2], x[1][1].key)>>, <<x[1][1].right, Over(x[2], x[1][1].key)>>}
        BY <4>1 DEF Halves
      <4> DEFINE k == x[1][1].key
      <4>5. k \in x[2] /\ k \in Int
        BY <4>2, <4>3, <4>4 DEF Rooted
      <4> HIDE DEF k
      <4>6. y[2] \subseteq x[2] \ {k}
        BY <4>2, <4>4, <4>5 DEF Below, Over, k
      <4>7. IsFiniteSet(x[2] \ {k}) /\ Cardinality(x[2] \ {k}) = Cardinality(x[2]) - 1
        BY <4>2, <4>5, FS_RemoveElement
      <4>8. IsFiniteSet(y[2]) /\ Cardinality(y[2]) <= Cardinality(x[2] \ {k})
        BY ONLY <4>6, <4>7, FS_Subset
      <4>9. Cardinality(y[2]) \in Nat /\ Cardinality(x[2]) \in Nat
        BY <4>2, <4>8, FS_CardinalityType
      <4> QED BY <1>1, <4>2, <4>6, <4>7, <4>8, <4>9
    <3> QED BY <3>3
  <2>4. \A d \in 0..n : d \in T
    <3> HIDE DEF T, n
    <3> QED BY <1>1, <2>2, <2>3, UpTo
  <2>5. Level(t, S, n + 1) = {}
    <3>1. Level(t, S, n + 1) = Split(Level(t, S, n))
      BY <1>1, LevelNext
    <3>2. ASSUME NEW x \in Level(t, S, n)
          PROVE  Halves(x[1], x[2]) = {}
      <4>1. n \in 0..n /\ IsFiniteSet(x[2]) /\ Cardinality(x[2]) <= n - n
        BY <1>1, <2>4
      <4>2. Cardinality(x[2]) \in Nat
        BY <4>1, FS_CardinalityType
      <4>3. x[2] = {}
        BY <1>1, <4>1, <4>2, FS_EmptySet
      <4>4. Rooted(x[1], x[2])
        BY <2>1, <4>1
      <4> QED BY <4>3, <4>4 DEF Rooted, Halves
    <3>3. Split(Level(t, S, n)) = {}
      BY <3>2 DEF Split
    <3> QED BY ONLY <3>1, <3>3, Zenon
  <2>6. \A k \in Nat : Level(t, S, (n + 1) + k) = {}
    <3>1. n + 1 \in Nat
      BY <1>1
    <3> QED BY ONLY <2>5, <3>1, LevelEmpty
  <2> SUFFICES ASSUME NEW d \in Nat, NEW x \in Level(t, S, d)
               PROVE  Rooted(x[1], x[2])
    BY DEF All
  <2>7. CASE d \in 0..n
    BY <2>1, <2>7
  <2>8. CASE d \notin 0..n
    <3>1. d - (n + 1) \in Nat /\ (n + 1) + (d - (n + 1)) = d
      BY <1>1, <2>8
    <3>2. Level(t, S, (n + 1) + (d - (n + 1))) = {}
      BY <2>6, <3>1
    <3> QED BY <3>1, <3>2
  <2> QED BY <2>7, <2>8
<1> QED BY <1>2, <1>3

\* A search tree with the keys S.
Tree(t, S) == S \in SUBSET Int /\ IsFiniteSet(S) /\ All(t, S)

LEMMA TreeHolds ==
    ASSUME NEW t, NEW S, IsFiniteSet(S), S \in SUBSET Int
    PROVE  Holds(t, S) <=> Tree(t, S)
BY HoldsAll DEF Tree

LEMMA TreeEmpty ==
    ASSUME NEW t, NEW S, Tree(t, S)
    PROVE  t = <<>> <=> S = {}
<1>1. CASE t = <<>>
  BY <1>1, AllEmpty DEF Tree
<1>2. CASE t # <<>>
  BY <1>2, AllHalves DEF Tree, Rooted
<1> QED BY <1>1, <1>2

LEMMA EmptyTree == Tree(<<>>, {})
BY AllEmpty, FS_EmptySet DEF Tree

LEMMA TreeParts ==
    ASSUME NEW t, NEW S, Tree(t, S), t # <<>>
    PROVE  /\ t[1].key \in S /\ t[1].key \in Int /\ t[1].subtree_size = Cardinality(S)
           /\ Tree(t[1].left, Below(S, t[1].key)) /\ Tree(t[1].right, Over(S, t[1].key))
<1>1. All(t, S) /\ S \in SUBSET Int /\ IsFiniteSet(S)
  BY DEF Tree
<1>2. Rooted(t, S) /\ All(t[1].left, Below(S, t[1].key)) /\ All(t[1].right, Over(S, t[1].key))
  BY <1>1, AllHalves
<1>3. t[1].key \in S /\ t[1].subtree_size = Cardinality(S)
  BY <1>2 DEF Rooted
<1>4. Below(S, t[1].key) \subseteq S /\ Over(S, t[1].key) \subseteq S
  BY DEF Below, Over
<1>5. IsFiniteSet(Below(S, t[1].key)) /\ IsFiniteSet(Over(S, t[1].key))
  BY <1>1, <1>4, FS_Subset
<1> QED BY <1>1, <1>2, <1>3, <1>4, <1>5 DEF Tree

LEMMA TreeSize ==
    ASSUME NEW t, NEW S, Tree(t, S)
    PROVE  Size(t) = Cardinality(S) /\ Size(t) \in Nat /\ S \in SUBSET Int /\ IsFiniteSet(S)
<1>1. S \in SUBSET Int /\ IsFiniteSet(S) /\ Cardinality(S) \in Nat
  BY FS_CardinalityType DEF Tree
<1>2. CASE t = <<>>
  BY <1>1, <1>2, TreeEmpty, FS_EmptySet DEF Size
<1>3. CASE t # <<>>
  BY <1>1, <1>3, TreeParts DEF Size
<1> QED BY <1>2, <1>3, <1>1

LEMMA TreeIs ==
    ASSUME NEW t, t # <<>>, NEW S \in SUBSET Int, IsFiniteSet(S), t[1].key \in S, t[1].subtree_size = Cardinality(S),
           Tree(t[1].left, Below(S, t[1].key)), Tree(t[1].right, Over(S, t[1].key))
    PROVE  Tree(t, S)
BY AllHalves DEF Tree, Rooted

\* All of A below all of B.
Before(A, B) == \A a \in A, b \in B : a < b

LEMMA Sides ==
    ASSUME NEW A \in SUBSET Int, NEW B \in SUBSET Int, NEW k \in Int, Before(A, {k}), Before({k}, B)
    PROVE  /\ Below(A \cup {k} \cup B, k) = A /\ Over(A \cup {k} \cup B, k) = B
           /\ A \cap B = {} /\ k \notin A \cup B
<1>1. (\A a \in A : a < k /\ a \in Int) /\ (\A b \in B : k < b /\ b \in Int)
  BY DEF Before
<1>0. \A x, y \in Int : (x < y => ~(y < x) /\ x # y) /\ (x > y <=> y < x)
  OBVIOUS
<1>2. \A x : x \in Below(A \cup {k} \cup B, k) <=> x \in A
  <2> TAKE x
  <2>1. x \in Below(A \cup {k} \cup B, k) <=> (x \in A \/ x = k \/ x \in B) /\ x < k
    BY DEF Below
  <2> QED BY <1>0, <1>1, <2>1, Zenon
<1>3. \A x : x \in Over(A \cup {k} \cup B, k) <=> x \in B
  <2> TAKE x
  <2>1. x \in Over(A \cup {k} \cup B, k) <=> (x \in A \/ x = k \/ x \in B) /\ x > k
    BY DEF Over
  <2> QED BY <1>0, <1>1, <2>1, Zenon
<1>4. A \cap B = {} /\ k \notin A \cup B
  BY <1>1
<1> QED BY <1>2, <1>3, <1>4

LEMMA SidesSize ==
    ASSUME NEW A \in SUBSET Int, NEW B \in SUBSET Int, NEW k \in Int, Before(A, {k}), Before({k}, B),
           IsFiniteSet(A), IsFiniteSet(B)
    PROVE  /\ IsFiniteSet(A \cup {k} \cup B) /\ A \cup {k} \cup B \in SUBSET Int
           /\ Cardinality(A \cup {k} \cup B) = Cardinality(A) + 1 + Cardinality(B)
<1>1. A \cap B = {} /\ k \notin A \cup B
  BY Sides
<1>2. IsFiniteSet(A \cup B) /\ Cardinality(A \cup B) = Cardinality(A) + Cardinality(B)
  <2>1. IsFiniteSet(A \cup B) /\ Cardinality(A \cup B) = Cardinality(A) + Cardinality(B) - Cardinality(A \cap B)
    BY FS_Union
  <2>2. Cardinality(A \cap B) = 0 /\ Cardinality(A) \in Nat /\ Cardinality(B) \in Nat
    BY <1>1, FS_CardinalityType, FS_EmptySet
  <2> QED BY <2>1, <2>2
<1>3. IsFiniteSet((A \cup B) \cup {k}) /\ Cardinality((A \cup B) \cup {k}) = Cardinality(A \cup B) + 1
  BY <1>1, <1>2, FS_AddElement
<1>4. (A \cup B) \cup {k} = A \cup {k} \cup B
  OBVIOUS
<1>5. Cardinality(A) \in Nat /\ Cardinality(B) \in Nat
  BY FS_CardinalityType
<1> QED BY <1>2, <1>3, <1>4, <1>5

LEMMA NodeParts ==
    ASSUME NEW k, NEW l, NEW r
    PROVE  /\ Node(k, l, r) # <<>> /\ Node(k, l, r)[1].key = k /\ Node(k, l, r)[1].left = l
           /\ Node(k, l, r)[1].right = r /\ Node(k, l, r)[1].subtree_size = 1 + Size(l) + Size(r)
BY DEF Node

LEMMA NodeTree ==
    ASSUME NEW l, NEW A, NEW r, NEW B, NEW k \in Int, Tree(l, A), Tree(r, B), Before(A, {k}), Before({k}, B)
    PROVE  Tree(Node(k, l, r), A \cup {k} \cup B)
<1> DEFINE S == A \cup {k} \cup B
           t == Node(k, l, r)
<1>1. A \in SUBSET Int /\ B \in SUBSET Int /\ IsFiniteSet(A) /\ IsFiniteSet(B)
  BY TreeSize
<1>2. Below(S, k) = A /\ Over(S, k) = B
  BY <1>1, Sides
<1>3. IsFiniteSet(S) /\ S \in SUBSET Int /\ Cardinality(S) = Cardinality(A) + 1 + Cardinality(B)
  BY <1>1, SidesSize
<1>4. Size(l) = Cardinality(A) /\ Size(r) = Cardinality(B) /\ Size(l) \in Nat /\ Size(r) \in Nat
  BY TreeSize
<1>5. t # <<>> /\ t[1].key = k /\ t[1].left = l /\ t[1].right = r /\ t[1].subtree_size = 1 + Size(l) + Size(r)
  BY NodeParts
<1>6. t[1].subtree_size = Cardinality(S) /\ k \in S
  BY <1>3, <1>4, <1>5
<1> HIDE DEF S, t
<1>7. Tree(t[1].left, Below(S, t[1].key)) /\ Tree(t[1].right, Over(S, t[1].key))
  BY ONLY <1>2, <1>5, Tree(l, A), Tree(r, B), Zenon
<1>8. Tree(t, S)
  BY <1>3, <1>5, <1>6, <1>7, TreeIs
<1> QED BY <1>8 DEF S, t

LEMMA Wrapped ==
    ASSUME NEW t, NEW S, Tree(t, S), t # <<>>
    PROVE  Tree(<<t[1]>>, S)
<1> DEFINE u == <<t[1]>>
<1>1. u # <<>> /\ u[1] = t[1]
  OBVIOUS
<1>2. S \in SUBSET Int /\ IsFiniteSet(S)
  BY TreeSize
<1>3. /\ t[1].key \in S /\ t[1].subtree_size = Cardinality(S)
      /\ Tree(t[1].left, Below(S, t[1].key)) /\ Tree(t[1].right, Over(S, t[1].key))
  BY TreeParts
<1> HIDE DEF u
<1>4. Tree(u, S)
  BY <1>1, <1>2, <1>3, TreeIs
<1> QED BY <1>4 DEF u

--------------------------------------------------------------------------------
(* The chains of Splay.                                                        *)

Listed(c) == \E X : c \in Seq(X)

LEMMA ListedLink ==
    ASSUME NEW c, Listed(c), NEW e
    PROVE  /\ Listed(Append(c, e)) /\ Len(c) \in Nat /\ Len(Append(c, e)) = Len(c) + 1
           /\ Append(c, e)[Len(c) + 1] = e /\ \A i \in 1..Len(c) : Append(c, e)[i] = c[i]
<1>1. PICK X : c \in Seq(X)
  BY DEF Listed
<1>2. Len(c) \in Nat /\ DOMAIN c = 1..Len(c) /\ c = [i \in 1..Len(c) |-> c[i]]
  BY <1>1
<1>3. \A i \in 1..Len(c) : c[i] \in X \cup {e}
  BY <1>1
<1>4. [i \in 1..Len(c) |-> c[i]] \in Seq(X \cup {e})
  BY <1>2, <1>3
<1>5. c \in Seq(X \cup {e}) /\ e \in X \cup {e}
  BY <1>2, <1>4
<1> DEFINE Y == X \cup {e}
<1> HIDE DEF Y
<1>6. c \in Seq(Y) /\ e \in Y
  BY <1>5 DEF Y
<1>7. /\ Append(c, e) \in Seq(Y) /\ Len(Append(c, e)) = Len(c) + 1
      /\ Append(c, e)[Len(c) + 1] = e /\ \A i \in 1..Len(c) : Append(c, e)[i] = c[i]
  BY <1>6
<1> QED BY <1>2, <1>7 DEF Listed

LEMMA ChainFrom ==
    ASSUME NEW c, Listed(c), NEW x
    PROVE  \E f : /\ f[0] = x
                  /\ \A k \in 1..Len(c) : f[k] = Joined(c[Len(c) - k + 1], f[k - 1])
                  /\ Chain(c, x) = f[Len(c)]
<1> DEFINE n == Len(c)
<1>0. n \in Nat
  BY DEF Listed
<1> DEFINE body(f, m) == [k \in 0..m |-> IF k = 0 THEN x ELSE Joined(c[n - k + 1], f[k - 1])]
           T == {m \in 0..n : \E f : f = body(f, m)}
<1> HIDE DEF n
<1>1. 0 \in T
  <2> DEFINE g == [k \in 0..0 |-> x]
  <2>1. g = body(g, 0)
    BY SMT
  <2>2. \E f : f = body(f, 0)
    BY <2>1
  <2> QED BY <1>0, <2>2
<1>2. ASSUME NEW m \in 1..n, m - 1 \in T
      PROVE  m \in T
  <2>1. PICK f : f = body(f, m - 1)
    BY <1>2
  <2> DEFINE g == [k \in 0..m |-> IF k <= m - 1 THEN f[k] ELSE Joined(c[n - m + 1], f[m - 1])]
  <2>2. g = body(g, m)
    <3>1. ASSUME NEW k \in 0..m
          PROVE  g[k] = IF k = 0 THEN x ELSE Joined(c[n - k + 1], g[k - 1])
      <4>1. CASE k = 0
        BY <1>0, <2>1, <4>1
      <4>2. CASE k \in 1..m - 1
        <5>0. k \in 0..m - 1 /\ k # 0
          BY <1>0, <4>2
        <5>1. f[k] = Joined(c[n - k + 1], f[k - 1])
          BY <2>1, <5>0, Zenon
        <5>2. g[k] = f[k] /\ g[k - 1] = f[k - 1]
          BY <1>0, <4>2
        <5> QED BY <5>1, <5>2, <4>2
      <4>3. CASE k = m
        <5>1. m - 1 \in 0..m /\ ~(m <= m - 1) /\ m # 0
          BY <1>0
        <5>2. g[m - 1] = f[m - 1] /\ g[m] = Joined(c[n - m + 1], f[m - 1])
          BY <1>0, <5>1
        <5> QED BY <5>1, <5>2, <4>3
      <4> QED BY <1>0, <4>1, <4>2, <4>3
    <3> QED BY <3>1
  <2>3. \E h : h = body(h, m)
    BY <2>2
  <2> QED BY <1>0, <2>3
<1>3. n \in T
  <2> HIDE DEF T
  <2>1. \A k \in 1..n : k - 1 \in T => k \in T
    BY <1>2
  <2>2. \A k \in 0..n : k \in T
    BY <1>0, <1>1, <2>1, UpTo
  <2> QED BY <1>0, <2>2
<1>4. \E f : f = body(f, n)
  BY <1>3
<1> DEFINE r == CHOOSE f : f = body(f, n)
<1>5. r = body(r, n)
  BY <1>4
<1>6. Chain(c, x) = r[n]
  BY DEF Chain, n
<1> HIDE DEF r
<1>7. r[0] = x
  BY <1>0, <1>5
<1>8. ASSUME NEW k \in 1..n
      PROVE  r[k] = Joined(c[n - k + 1], r[k - 1])
  <2>1. k \in 0..n /\ k # 0
    BY <1>0
  <2> QED BY <2>1, <1>5
<1>9. /\ r[0] = x /\ (\A k \in 1..n : r[k] = Joined(c[n - k + 1], r[k - 1])) /\ Chain(c, x) = r[n]
  BY <1>6, <1>7, <1>8
<1> QED BY <1>9 DEF n

LEMMA ChainEmpty ==
    ASSUME NEW x
    PROVE  Chain(<<>>, x) = x /\ Listed(<<>>)
<1>1. Listed(<<>>) /\ Len(<<>>) = 0
  BY DEF Listed
<1> QED BY <1>1, ChainFrom

LEMMA ChainAppend ==
    ASSUME NEW c, Listed(c), NEW e, NEW x
    PROVE  Chain(Append(c, e), x) = Chain(c, Joined(e, x))
<1> DEFINE n == Len(c)
           d == Append(c, e)
<1>1. Listed(d) /\ n \in Nat /\ Len(d) = n + 1 /\ d[n + 1] = e /\ \A i \in 1..n : d[i] = c[i]
  BY ListedLink
<1> HIDE DEF n, d
<1>2. PICK f : /\ f[0] = x /\ (\A k \in 1..n + 1 : f[k] = Joined(d[(n + 1) - k + 1], f[k - 1]))
               /\ Chain(d, x) = f[n + 1]
  <2>1. \E f : /\ f[0] = x /\ (\A k \in 1..Len(d) : f[k] = Joined(d[Len(d) - k + 1], f[k - 1]))
               /\ Chain(d, x) = f[Len(d)]
    <3>1. Listed(d)
      BY <1>1
    <3> QED BY ONLY <3>1, ChainFrom
  <2> QED BY ONLY <1>1, <2>1, Zenon
<1>3. PICK g : /\ g[0] = Joined(e, x) /\ (\A k \in 1..n : g[k] = Joined(c[n - k + 1], g[k - 1]))
               /\ Chain(c, Joined(e, x)) = g[n]
  BY ChainFrom DEF n
<1> DEFINE T == {k \in 0..n : g[k] = f[k + 1]}
<1>4. 0 \in T
  <2>1. f[0 + 1] = Joined(d[n + 1], f[(0 + 1) - 1]) 
    <3>1. 0 + 1 \in 1..n + 1 /\ (n + 1) - (0 + 1) + 1 = n + 1
      BY <1>1
    <3>2. f[0 + 1] = Joined(d[(n + 1) - (0 + 1) + 1], f[(0 + 1) - 1])
      BY <1>2, <3>1
    <3> QED BY ONLY <3>1, <3>2, Zenon
  <2>2. (0 + 1) - 1 = 0
    OBVIOUS
  <2>3. g[0] = f[0 + 1]
    BY ONLY <1>1, <1>2, <1>3, <2>1, <2>2, Zenon
  <2> QED BY <1>1, <2>3
<1>5. ASSUME NEW k \in 1..n, k - 1 \in T
      PROVE  k \in T
  <2>1. k + 1 \in 1..n + 1 /\ (n + 1) - (k + 1) + 1 = n - k + 1 /\ n - k + 1 \in 1..n /\ (k + 1) - 1 = k /\ (k - 1) + 1 = k
    BY <1>1
  <2>2. f[k + 1] = Joined(d[(n + 1) - (k + 1) + 1], f[(k + 1) - 1])
    BY <1>2, <2>1
  <2>3. g[k] = Joined(c[n - k + 1], g[k - 1]) /\ d[n - k + 1] = c[n - k + 1]
    BY <1>1, <1>3, <2>1
  <2>4. g[k - 1] = f[(k - 1) + 1]
    BY <1>5
  <2>5. g[k] = f[k + 1]
    BY ONLY <2>1, <2>2, <2>3, <2>4, Zenon
  <2> QED BY <2>5
<1>6. n \in T
  <2> HIDE DEF T
  <2>2. \A k \in 0..n : k \in T
    BY <1>1, <1>4, <1>5, UpTo
  <2> QED BY <1>1, <2>2
<1>7. g[n] = f[n + 1]
  BY <1>6
<1>8. Chain(d, x) = Chain(c, Joined(e, x))
  BY ONLY <1>2, <1>3, <1>7, Zenon
<1> QED BY <1>8 DEF d

\* The chain c takes the keys L, all smaller (GoodL), or R, all larger (GoodR).
GoodL(c, L) == Listed(c) /\ \A u, U : Tree(u, U) /\ Before(L, U) => Tree(Chain(c, u), L \cup U)
GoodR(c, R) == Listed(c) /\ \A u, U : Tree(u, U) /\ Before(U, R) => Tree(Chain(c, u), U \cup R)

LEMMA GoodEmpty == GoodL(<<>>, {}) /\ GoodR(<<>>, {})
<1>1. Listed(<<>>) /\ \A u : Chain(<<>>, u) = u
  BY ChainEmpty
<1>2. \A U : {} \cup U = U /\ U \cup {} = U
  OBVIOUS
<1> QED BY ONLY <1>1, <1>2, Zenon DEF GoodL, GoodR

LEMMA GoodSets ==
    ASSUME NEW c, NEW L
    PROVE  GoodL(c, L) \/ GoodR(c, L) => L \in SUBSET Int /\ IsFiniteSet(L)
<1>1. Tree(<<>>, {}) /\ Before(L, {}) /\ Before({}, L)
  BY EmptyTree DEF Before
<1>2. L \cup {} = L /\ {} \cup L = L
  OBVIOUS
<1>3. CASE GoodL(c, L)
  <2>1. Tree(Chain(c, <<>>), L)
    BY ONLY <1>1, <1>2, <1>3, Zenon DEF GoodL
  <2> QED BY <2>1, TreeSize
<1>4. CASE GoodR(c, L)
  <2>1. Tree(Chain(c, <<>>), L)
    BY ONLY <1>1, <1>2, <1>4, Zenon DEF GoodR
  <2> QED BY <2>1, TreeSize
<1> QED BY <1>3, <1>4

LEMMA LinkLeft ==
    ASSUME NEW c, NEW L, GoodL(c, L), NEW k \in Int, NEW l, NEW A, Tree(l, A),
           Before(L, A), Before(L, {k}), Before(A, {k})
    PROVE  GoodL(Link(c, "left", k, l), L \cup A \cup {k})
<1> DEFINE e == [side |-> "left", key |-> k, sub |-> l]
           M == L \cup A \cup {k}
<1>1. Listed(c) /\ Listed(Append(c, e))
  BY ListedLink DEF GoodL
<1>2. Link(c, "left", k, l) = Append(c, e)
  BY DEF Link
<1>3. \A u : Joined(e, u) = Node(k, l, u)
  BY DEF Joined
<1>5. ASSUME NEW u, NEW U, Tree(u, U), Before(M, U)
      PROVE  Tree(Chain(Append(c, e), u), M \cup U)
  <2>1. Before({k}, U)
    BY <1>5 DEF Before
  <2>2. Tree(Node(k, l, u), A \cup {k} \cup U)
    BY <1>5, <2>1, NodeTree
  <2>3. Before(L, A \cup {k} \cup U)
    BY <1>5 DEF Before
  <2>4. Tree(Chain(c, Node(k, l, u)), L \cup (A \cup {k} \cup U))
    BY <2>2, <2>3, Zenon DEF GoodL
  <2>5. L \cup (A \cup {k} \cup U) = M \cup U
    OBVIOUS
  <2>6. Chain(Append(c, e), u) = Chain(c, Joined(e, u))
    <3> HIDE DEF e
    <3> QED BY ONLY <1>1, ChainAppend
  <2> HIDE DEF M, e
  <2> QED BY ONLY <1>3, <2>4, <2>5, <2>6, Zenon
<1> HIDE DEF M, e
<1>6. GoodL(Append(c, e), M)
  BY ONLY <1>1, <1>5, Zenon DEF GoodL
<1> QED BY ONLY <1>2, <1>6, Zenon DEF M

LEMMA LinkRight ==
    ASSUME NEW c, NEW R, GoodR(c, R), NEW k \in Int, NEW r, NEW B, Tree(r, B),
           Before(B, R), Before({k}, R), Before({k}, B)
    PROVE  GoodR(Link(c, "right", k, r), {k} \cup B \cup R)
<1> DEFINE e == [side |-> "right", key |-> k, sub |-> r]
           M == {k} \cup B \cup R
<1>1. Listed(c) /\ Listed(Append(c, e))
  BY ListedLink DEF GoodR
<1>2. Link(c, "right", k, r) = Append(c, e)
  BY DEF Link
<1>3. \A u : Joined(e, u) = Node(k, u, r)
  BY DEF Joined
<1>5. ASSUME NEW u, NEW U, Tree(u, U), Before(U, M)
      PROVE  Tree(Chain(Append(c, e), u), U \cup M)
  <2>1. Before(U, {k})
    BY <1>5 DEF Before
  <2>2. Tree(Node(k, u, r), U \cup {k} \cup B)
    BY <1>5, <2>1, NodeTree
  <2>3. Before(U \cup {k} \cup B, R)
    BY <1>5 DEF Before
  <2>4. Tree(Chain(c, Node(k, u, r)), (U \cup {k} \cup B) \cup R)
    BY <2>2, <2>3, Zenon DEF GoodR
  <2>5. (U \cup {k} \cup B) \cup R = U \cup M
    OBVIOUS
  <2>6. Chain(Append(c, e), u) = Chain(c, Joined(e, u))
    <3> HIDE DEF e
    <3> QED BY ONLY <1>1, ChainAppend
  <2> HIDE DEF M, e
  <2> QED BY ONLY <1>3, <2>4, <2>5, <2>6, Zenon
<1> HIDE DEF M, e
<1>6. GoodR(Append(c, e), M)
  BY ONLY <1>1, <1>5, Zenon DEF GoodR
<1> QED BY ONLY <1>2, <1>6, Zenon DEF M

\* Below a node.
LEMMA BelowOver ==
    ASSUME NEW S \in SUBSET Int, NEW k \in S
    PROVE  /\ S = Below(S, k) \cup {k} \cup Over(S, k) /\ Below(S, k) \in SUBSET S /\ Over(S, k) \in SUBSET S
           /\ Before(Below(S, k), {k}) /\ Before({k}, Over(S, k)) /\ Before(Below(S, k), Over(S, k))
<1>1. \A x \in S : x \in Int /\ (x < k \/ x = k \/ x > k)
  OBVIOUS
<1>2. S = Below(S, k) \cup {k} \cup Over(S, k) /\ Below(S, k) \in SUBSET S /\ Over(S, k) \in SUBSET S
  BY <1>1 DEF Below, Over
<1>3. Before(Below(S, k), {k}) /\ Before({k}, Over(S, k)) /\ Before(Below(S, k), Over(S, k))
  BY <1>1 DEF Below, Over, Before
<1> QED BY <1>2, <1>3

LEMMA RotateRight ==
    ASSUME NEW t, NEW S, Tree(t, S), t # <<>>, t[1].left # <<>>
    PROVE  /\ Tree(RightRotate(t), S) /\ RightRotate(t) # <<>>
           /\ RightRotate(t)[1].key = t[1].left[1].key /\ RightRotate(t)[1].left = t[1].left[1].left
           /\ RightRotate(t)[1].key < t[1].key
<1> DEFINE k == t[1].key
           l == t[1].left
           j == l[1].key
           A == Below(S, k)
           C == Over(S, k)
           D == Below(A, j)
           E == Over(A, j)
<1>1. k \in S /\ k \in Int /\ Tree(l, A) /\ Tree(t[1].right, C) /\ S \in SUBSET Int
  BY TreeParts, TreeSize
<1>2. j \in A /\ j \in Int /\ Tree(l[1].left, D) /\ Tree(l[1].right, E) /\ A \in SUBSET Int
  BY <1>1, TreeParts, TreeSize
<1>3. /\ S = A \cup {k} \cup C /\ Before(A, {k}) /\ Before({k}, C) /\ Before(A, C)
      /\ A = D \cup {j} \cup E /\ Before(D, {j}) /\ Before({j}, E) /\ D \in SUBSET A /\ E \in SUBSET A
  BY <1>1, <1>2, BelowOver
<1>4. Before(E, {k}) /\ j < k
  BY <1>2, <1>3 DEF Before
<1>5. Tree(Node(k, l[1].right, t[1].right), E \cup {k} \cup C)
  BY <1>1, <1>2, <1>3, <1>4, NodeTree
<1>6. Before({j}, E \cup {k} \cup C)
  BY <1>2, <1>3, <1>4 DEF Before
<1> DEFINE F == E \cup {k} \cup C
           u == Node(k, l[1].right, t[1].right)
<1>7. RightRotate(t) = Node(j, l[1].left, u)
  BY DEF RightRotate
<1>8. Tree(Node(j, l[1].left, u), D \cup {j} \cup F)
  <2> HIDE DEF j, D, E, F, u
  <2>1. Tree(u, F) /\ Before({j}, F)
    BY <1>5, <1>6 DEF u, F
  <2> QED BY <1>2, <1>3, <2>1, NodeTree
<1>9. D \cup {j} \cup F = S
  <2> HIDE DEF A, C, D, E, j, k
  <2>1. D \cup {j} \cup F = (D \cup {j} \cup E) \cup {k} \cup C
    OBVIOUS
  <2> HIDE DEF F
  <2> QED BY ONLY <1>3, <2>1, Zenon
<1>10. Tree(RightRotate(t), S)
  <2> HIDE DEF A, C, D, E, j, k, u, F
  <2> QED BY ONLY <1>7, <1>8, <1>9, Zenon
<1>11. RightRotate(t) # <<>> /\ RightRotate(t)[1].key = j /\ RightRotate(t)[1].left = l[1].left
  <2> HIDE DEF u, j, l
  <2> QED BY <1>7, NodeParts
<1> QED BY <1>4, <1>10, <1>11

LEMMA RotateLeft ==
    ASSUME NEW t, NEW S, Tree(t, S), t # <<>>, t[1].right # <<>>
    PROVE  /\ Tree(LeftRotate(t), S) /\ LeftRotate(t) # <<>>
           /\ LeftRotate(t)[1].key = t[1].right[1].key /\ LeftRotate(t)[1].right = t[1].right[1].right
           /\ LeftRotate(t)[1].key > t[1].key
<1> DEFINE k == t[1].key
           r == t[1].right
           j == r[1].key
           A == Below(S, k)
           C == Over(S, k)
           D == Below(C, j)
           E == Over(C, j)
<1>1. k \in S /\ k \in Int /\ Tree(r, C) /\ Tree(t[1].left, A) /\ S \in SUBSET Int
  BY TreeParts, TreeSize
<1>2. j \in C /\ j \in Int /\ Tree(r[1].left, D) /\ Tree(r[1].right, E) /\ C \in SUBSET Int
  BY <1>1, TreeParts, TreeSize
<1>3. /\ S = A \cup {k} \cup C /\ Before(A, {k}) /\ Before({k}, C) /\ Before(A, C)
      /\ C = D \cup {j} \cup E /\ Before(D, {j}) /\ Before({j}, E) /\ D \in SUBSET C /\ E \in SUBSET C
  BY <1>1, <1>2, BelowOver
<1>4. Before({k}, D) /\ j > k
  BY <1>1, <1>2, <1>3 DEF Before
<1>5. Tree(Node(k, t[1].left, r[1].left), A \cup {k} \cup D)
  BY <1>1, <1>2, <1>3, <1>4, NodeTree
<1>6. Before(A \cup {k} \cup D, {j})
  BY <1>1, <1>2, <1>3, <1>4 DEF Before
<1> DEFINE F == A \cup {k} \cup D
           u == Node(k, t[1].left, r[1].left)
<1>7. LeftRotate(t) = Node(j, u, r[1].right)
  BY DEF LeftRotate
<1>8. Tree(Node(j, u, r[1].right), F \cup {j} \cup E)
  <2> HIDE DEF j, D, E, F, u
  <2>1. Tree(u, F) /\ Before(F, {j})
    BY <1>5, <1>6 DEF u, F
  <2> QED BY <1>2, <1>3, <2>1, NodeTree
<1>9. F \cup {j} \cup E = S
  <2> HIDE DEF A, C, D, E, j, k
  <2>1. F \cup {j} \cup E = A \cup {k} \cup (D \cup {j} \cup E)
    OBVIOUS
  <2> HIDE DEF F
  <2> QED BY ONLY <1>3, <2>1, Zenon
<1>10. Tree(LeftRotate(t), S)
  <2> HIDE DEF A, C, D, E, j, k, u, F
  <2> QED BY ONLY <1>7, <1>8, <1>9, Zenon
<1>11. LeftRotate(t) # <<>> /\ LeftRotate(t)[1].key = j /\ LeftRotate(t)[1].right = r[1].right
  <2> HIDE DEF u, j, r
  <2> QED BY <1>7, NodeParts
<1> QED BY <1>4, <1>10, <1>11

\* The keys S of the tree, divided between what is left of it and the chains.
Part(key, s, S, T, L, R) ==
    /\ s = [root |-> s.root, ltree |-> s.ltree, rtree |-> s.rtree]
    /\ Tree(s.root, T) /\ T # {} /\ GoodL(s.ltree, L) /\ GoodR(s.rtree, R)
    /\ S = L \cup T \cup R
    /\ Before(L, T) /\ Before(T, R) /\ Before(L, {key}) /\ Before({key}, R)

\* Where the loop breaks.
Ended(key, t) == ~(key < t[1].key /\ t[1].left # <<>>) /\ ~(key > t[1].key /\ t[1].right # <<>>)

LEMMA Smaller ==
    ASSUME NEW S \in SUBSET Int, IsFiniteSet(S), NEW k \in S
    PROVE  /\ Cardinality(Below(S, k)) < Cardinality(S) /\ Cardinality(Over(S, k)) < Cardinality(S)
           /\ Cardinality(Below(S, k)) \in Nat /\ Cardinality(Over(S, k)) \in Nat /\ Cardinality(S) \in Nat
<1>1. Below(S, k) \in SUBSET (S \ {k}) /\ Over(S, k) \in SUBSET (S \ {k})
  BY DEF Below, Over
<1>2. IsFiniteSet(S \ {k}) /\ Cardinality(S \ {k}) = Cardinality(S) - 1
  BY FS_RemoveElement
<1>3. /\ IsFiniteSet(Below(S, k)) /\ Cardinality(Below(S, k)) <= Cardinality(S \ {k})
      /\ IsFiniteSet(Over(S, k)) /\ Cardinality(Over(S, k)) <= Cardinality(S \ {k})
  BY <1>1, <1>2, FS_Subset
<1>4. Cardinality(Below(S, k)) \in Nat /\ Cardinality(Over(S, k)) \in Nat /\ Cardinality(S) \in Nat
  BY <1>3, FS_CardinalityType
<1> QED BY <1>2, <1>3, <1>4

LEMMA LinkedRight ==
    ASSUME NEW key \in Int, NEW s, NEW S, NEW T, NEW L, NEW R, Part(key, s, S, T, L, R),
           NEW w, Tree(w, T), w # <<>>, w[1].left # <<>>, key < w[1].key
    PROVE  LET k == w[1].key IN
           /\ Part(key, [s EXCEPT !.root = w[1].left, !.rtree = Link(@, "right", k, w[1].right)],
                   S, Below(T, k), L, {k} \cup Over(T, k) \cup R)
           /\ Cardinality(Below(T, k)) < Cardinality(T)
<1> DEFINE k == w[1].key
           A == Below(T, k)
           B == Over(T, k)
           R1 == {k} \cup B \cup R
           c == Link(s.rtree, "right", k, w[1].right)
           u == [s EXCEPT !.root = w[1].left, !.rtree = c]
<1>1. /\ s = [root |-> s.root, ltree |-> s.ltree, rtree |-> s.rtree]
      /\ GoodL(s.ltree, L) /\ GoodR(s.rtree, R) /\ S = L \cup T \cup R
      /\ Before(L, T) /\ Before(T, R) /\ Before(L, {key}) /\ Before({key}, R)
  BY DEF Part
<1>2. /\ k \in T /\ k \in Int /\ Tree(w[1].left, A) /\ Tree(w[1].right, B)
      /\ T \in SUBSET Int /\ IsFiniteSet(T) /\ A # {}
  BY TreeParts, TreeSize, TreeEmpty
<1>3. /\ T = A \cup {k} \cup B /\ A \in SUBSET T /\ B \in SUBSET T
      /\ Before(A, {k}) /\ Before({k}, B) /\ Before(A, B)
  BY <1>2, BelowOver
<1>4. Cardinality(A) < Cardinality(T)
  BY <1>2, Smaller
<1>5. key < k
  OBVIOUS
<1> HIDE DEF k, A, B
<1>6. Before(B, R) /\ Before({k}, R)
  BY <1>1, <1>2, <1>3 DEF Before
<1>7. GoodR(c, R1)
  BY <1>1, <1>2, <1>3, <1>6, LinkRight
<1>8. u = [root |-> w[1].left, ltree |-> s.ltree, rtree |-> c]
  <2> DEFINE p == w[1].left
  <2> HIDE DEF p, c
  <2>1. PICK x, y, z : s = [root |-> x, ltree |-> y, rtree |-> z]
    BY <1>1, Zenon
  <2>2. s.ltree = y
    BY ONLY <2>1
  <2>3. [s EXCEPT !.root = p, !.rtree = c] = [root |-> p, ltree |-> y, rtree |-> c]
    <3> DEFINE q == [s EXCEPT !.root = p]
    <3>1. [s EXCEPT !.root = p, !.rtree = c] = [q EXCEPT !.rtree = c]
      BY Zenon
    <3>2. q = [root |-> p, ltree |-> y, rtree |-> z]
      BY ONLY <2>1
    <3> HIDE DEF q
    <3>3. [q EXCEPT !.rtree = c] = [root |-> p, ltree |-> y, rtree |-> c]
      BY ONLY <3>2
    <3> QED BY ONLY <3>1, <3>3, Zenon
  <2>4. u = [s EXCEPT !.root = p, !.rtree = c]
    BY DEF p
  <2> HIDE DEF u
  <2>5. u = [root |-> p, ltree |-> s.ltree, rtree |-> c]
    BY ONLY <2>2, <2>3, <2>4, Zenon
  <2> QED BY <2>5 DEF p
<1>9. S = L \cup A \cup R1
  <2>1. L \cup A \cup R1 = L \cup (A \cup {k} \cup B) \cup R
    OBVIOUS
  <2> HIDE DEF R1
  <2> QED BY ONLY <1>1, <1>3, <2>1, Zenon
<1>10. Before(L, A) /\ Before(A, R1)
  BY <1>1, <1>3 DEF Before
<1>11. Before({key}, R1)
  BY <1>1, <1>2, <1>3, <1>5 DEF Before
<1> HIDE DEF c, R1, u
<1>12. /\ u.root = w[1].left /\ u.ltree = s.ltree /\ u.rtree = c
       /\ u = [root |-> u.root, ltree |-> u.ltree, rtree |-> u.rtree]
  BY <1>8
<1>13. Part(key, u, S, A, L, R1)
  <2>1. Tree(u.root, A) /\ GoodL(u.ltree, L) /\ GoodR(u.rtree, R1)
    BY ONLY <1>1, <1>2, <1>7, <1>12, Zenon
  <2> QED BY ONLY <1>1, <1>2, <1>9, <1>10, <1>11, <1>12, <2>1, Zenon DEF Part
<1> QED BY <1>4, <1>13 DEF k, A, B, R1, c, u

LEMMA LinkedLeft ==
    ASSUME NEW key \in Int, NEW s, NEW S, NEW T, NEW L, NEW R, Part(key, s, S, T, L, R),
           NEW w, Tree(w, T), w # <<>>, w[1].right # <<>>, key > w[1].key
    PROVE  LET k == w[1].key IN
           /\ Part(key, [s EXCEPT !.root = w[1].right, !.ltree = Link(@, "left", k, w[1].left)],
                   S, Over(T, k), L \cup Below(T, k) \cup {k}, R)
           /\ Cardinality(Over(T, k)) < Cardinality(T)
<1> DEFINE k == w[1].key
           A == Below(T, k)
           B == Over(T, k)
           L1 == L \cup A \cup {k}
           c == Link(s.ltree, "left", k, w[1].left)
           u == [s EXCEPT !.root = w[1].right, !.ltree = c]
<1>1. /\ s = [root |-> s.root, ltree |-> s.ltree, rtree |-> s.rtree]
      /\ GoodL(s.ltree, L) /\ GoodR(s.rtree, R) /\ S = L \cup T \cup R
      /\ Before(L, T) /\ Before(T, R) /\ Before(L, {key}) /\ Before({key}, R)
  BY DEF Part
<1>2. /\ k \in T /\ k \in Int /\ Tree(w[1].left, A) /\ Tree(w[1].right, B)
      /\ T \in SUBSET Int /\ IsFiniteSet(T) /\ B # {}
  BY TreeParts, TreeSize, TreeEmpty
<1>3. /\ T = A \cup {k} \cup B /\ A \in SUBSET T /\ B \in SUBSET T
      /\ Before(A, {k}) /\ Before({k}, B) /\ Before(A, B)
  BY <1>2, BelowOver
<1>4. Cardinality(B) < Cardinality(T)
  BY <1>2, Smaller
<1>5. k < key
  BY <1>2
<1> HIDE DEF k, A, B
<1>6. Before(L, A) /\ Before(L, {k})
  BY <1>1, <1>2, <1>3 DEF Before
<1>7. GoodL(c, L1)
  BY <1>1, <1>2, <1>3, <1>6, LinkLeft
<1>8. u = [root |-> w[1].right, ltree |-> c, rtree |-> s.rtree]
  <2> DEFINE p == w[1].right
  <2> HIDE DEF p, c
  <2>1. PICK x, y, z : s = [root |-> x, ltree |-> y, rtree |-> z]
    BY <1>1, Zenon
  <2>2. s.rtree = z
    BY ONLY <2>1
  <2>3. [s EXCEPT !.root = p, !.ltree = c] = [root |-> p, ltree |-> c, rtree |-> z]
    <3> DEFINE q == [s EXCEPT !.root = p]
    <3>1. [s EXCEPT !.root = p, !.ltree = c] = [q EXCEPT !.ltree = c]
      BY Zenon
    <3>2. q = [root |-> p, ltree |-> y, rtree |-> z]
      BY ONLY <2>1
    <3> HIDE DEF q
    <3>3. [q EXCEPT !.ltree = c] = [root |-> p, ltree |-> c, rtree |-> z]
      BY ONLY <3>2
    <3> QED BY ONLY <3>1, <3>3, Zenon
  <2>4. u = [s EXCEPT !.root = p, !.ltree = c]
    BY DEF p
  <2> HIDE DEF u
  <2>5. u = [root |-> p, ltree |-> c, rtree |-> s.rtree]
    BY ONLY <2>2, <2>3, <2>4, Zenon
  <2> QED BY <2>5 DEF p
<1>9. S = L1 \cup B \cup R
  <2>1. L1 \cup B \cup R = L \cup (A \cup {k} \cup B) \cup R
    OBVIOUS
  <2> HIDE DEF L1
  <2> QED BY ONLY <1>1, <1>3, <2>1, Zenon
<1>10. Before(L1, B) /\ Before(B, R)
  BY <1>1, <1>3 DEF Before
<1>11. Before(L1, {key})
  <2>1. \A a \in A : a < k /\ a \in Int
    BY <1>2, <1>3 DEF Before
  <2>2. \A a \in A : a < key
    BY <1>2, <1>5, <2>1
  <2> QED BY <1>1, <1>5, <2>2 DEF Before
<1> HIDE DEF c, L1, u
<1>12. /\ u.root = w[1].right /\ u.ltree = c /\ u.rtree = s.rtree
       /\ u = [root |-> u.root, ltree |-> u.ltree, rtree |-> u.rtree]
  BY <1>8
<1>13. Part(key, u, S, B, L1, R)
  <2>1. Tree(u.root, B) /\ GoodL(u.ltree, L1) /\ GoodR(u.rtree, R)
    BY ONLY <1>1, <1>2, <1>7, <1>12, Zenon
  <2> QED BY ONLY <1>1, <1>2, <1>9, <1>10, <1>11, <1>12, <2>1, Zenon DEF Part
<1> QED BY <1>4, <1>13 DEF k, A, B, L1, c, u

LEMMA TurnEnded ==
    ASSUME NEW key, NEW s, Ended(key, s.root)
    PROVE  Turn(key, s) = s
BY Zenon DEF Turn, Ended

LEMMA NewRoot ==
    ASSUME NEW key, NEW s, NEW S, NEW T, NEW L, NEW R, Part(key, s, S, T, L, R), NEW w, Tree(w, T), w # <<>>
    PROVE  Part(key, [s EXCEPT !.root = <<w[1]>>], S, T, L, R) /\ [s EXCEPT !.root = <<w[1]>>].root = <<w[1]>>
<1> DEFINE p == <<w[1]>>
           u == [s EXCEPT !.root = p]
<1>1. Tree(p, T)
  BY Wrapped
<1> HIDE DEF p
<1>2. s = [root |-> s.root, ltree |-> s.ltree, rtree |-> s.rtree]
  BY DEF Part
<1>3. PICK x, y, z : s = [root |-> x, ltree |-> y, rtree |-> z]
  BY <1>2, Zenon
<1>4. u = [root |-> p, ltree |-> y, rtree |-> z] /\ s.ltree = y /\ s.rtree = z
  BY ONLY <1>3
<1> HIDE DEF u
<1>5. u.root = p /\ u.ltree = s.ltree /\ u.rtree = s.rtree /\ u = [root |-> u.root, ltree |-> u.ltree, rtree |-> u.rtree]
  BY ONLY <1>4
<1>6. Part(key, u, S, T, L, R)
  <2>1. Tree(u.root, T) /\ GoodL(u.ltree, L) /\ GoodR(u.rtree, R)
    <3>1. GoodL(s.ltree, L) /\ GoodR(s.rtree, R)
      BY DEF Part
    <3> QED BY ONLY <1>1, <1>5, <3>1, Zenon
  <2> QED BY ONLY Part(key, s, S, T, L, R), <1>5, <2>1, Zenon DEF Part
<1> QED BY <1>5, <1>6 DEF p, u

LEMMA TurnPart ==
    ASSUME NEW key \in Int, NEW s, NEW S, NEW T, NEW L, NEW R, Part(key, s, S, T, L, R)
    PROVE  \E T1, L1, R1 : /\ Part(key, Turn(key, s), S, T1, L1, R1)
                           /\ Ended(key, Turn(key, s).root) \/ Cardinality(T1) < Cardinality(T)
<1> DEFINE root == s.root[1]
           right == IF key < root.left[1].key THEN RightRotate(s.root)[1] ELSE root
           left == IF key > root.right[1].key THEN LeftRotate(s.root)[1] ELSE root
           u == Turn(key, s)
<1>1. Tree(s.root, T) /\ T # {} /\ s.root # <<>>
  BY TreeEmpty DEF Part
<1>2. root.key \in Int
  BY <1>1, TreeParts
<1>3. CASE key < root.key /\ root.left # <<>>
  <2> DEFINE w == IF key < root.left[1].key THEN RightRotate(s.root) ELSE s.root
  <2>1. right = w[1]
    BY Zenon
  <2>2. Tree(w, T) /\ w # <<>> /\ key < w[1].key
    <3>1. CASE key < root.left[1].key
      BY <1>1, <1>3, <3>1, RotateRight
    <3>2. CASE ~(key < root.left[1].key)
      BY <1>1, <1>3, <3>2
    <3> QED BY <3>1, <3>2
  <2>3. u = IF right.left = <<>> THEN [s EXCEPT !.root = <<right>>]
            ELSE [s EXCEPT !.root = right.left, !.rtree = Link(@, "right", right.key, right.right)]
    <3>1. ~(key > root.key /\ root.right # <<>>)
      BY <1>2, <1>3
    <3> QED BY <1>3, <3>1, Zenon DEF Turn, GoLeft
  <2> HIDE DEF w, right, left, u
  <2>4. CASE w[1].left = <<>>
    <3>1. u = [s EXCEPT !.root = <<w[1]>>]
      BY ONLY <2>1, <2>3, <2>4, Zenon
    <3>2. Part(key, u, S, T, L, R) /\ u.root = <<w[1]>>
      <4>1. Part(key, [s EXCEPT !.root = <<w[1]>>], S, T, L, R) /\ [s EXCEPT !.root = <<w[1]>>].root = <<w[1]>>
        BY <2>2, NewRoot
      <4> QED BY ONLY <3>1, <4>1, Zenon
    <3>3. w[1].key \in Int
      BY <2>2, TreeParts
    <3>4. Ended(key, <<w[1]>>)
      BY <2>2, <2>4, <3>3 DEF Ended
    <3>5. Ended(key, u.root)
      BY ONLY <3>2, <3>4, Zenon
    <3> QED BY ONLY <3>2, <3>5, Zenon DEF u
  <2>5. CASE w[1].left # <<>>
    <3> DEFINE k == w[1].key
               v == [s EXCEPT !.root = w[1].left, !.rtree = Link(@, "right", k, w[1].right)]
    <3>1. u = v
      BY ONLY <2>1, <2>3, <2>5, Zenon
    <3>2. Part(key, v, S, Below(T, k), L, {k} \cup Over(T, k) \cup R) /\ Cardinality(Below(T, k)) < Cardinality(T)
      BY <2>2, <2>5, LinkedRight
    <3> HIDE DEF v, k
    <3> QED BY ONLY <3>1, <3>2, Zenon DEF u
  <2> QED BY <2>4, <2>5
<1>4. CASE key > root.key /\ root.right # <<>>
  <2> DEFINE w == IF key > root.right[1].key THEN LeftRotate(s.root) ELSE s.root
  <2>1. left = w[1]
    BY Zenon
  <2>2. Tree(w, T) /\ w # <<>> /\ key > w[1].key
    <3>1. CASE key > root.right[1].key
      BY <1>1, <1>4, <3>1, RotateLeft
    <3>2. CASE ~(key > root.right[1].key)
      BY <1>1, <1>4, <3>2
    <3> QED BY <3>1, <3>2
  <2>0. ~(key < root.key /\ root.left # <<>>)
    BY <1>2, <1>4
  <2>3. u = IF left.right = <<>> THEN [s EXCEPT !.root = <<left>>]
            ELSE [s EXCEPT !.root = left.right, !.ltree = Link(@, "left", left.key, left.left)]
    BY <1>4, <2>0, Zenon DEF Turn, GoRight
  <2> HIDE DEF w, right, left, u
  <2>4. CASE w[1].right = <<>>
    <3>1. u = [s EXCEPT !.root = <<w[1]>>]
      BY ONLY <2>1, <2>3, <2>4, Zenon
    <3>2. Part(key, u, S, T, L, R) /\ u.root = <<w[1]>>
      <4>1. Part(key, [s EXCEPT !.root = <<w[1]>>], S, T, L, R) /\ [s EXCEPT !.root = <<w[1]>>].root = <<w[1]>>
        BY <2>2, NewRoot
      <4> QED BY ONLY <3>1, <4>1, Zenon
    <3>3. w[1].key \in Int
      BY <2>2, TreeParts
    <3>4. Ended(key, <<w[1]>>)
      BY <2>2, <2>4, <3>3 DEF Ended
    <3>5. Ended(key, u.root)
      BY ONLY <3>2, <3>4, Zenon
    <3> QED BY ONLY <3>2, <3>5, Zenon DEF u
  <2>5. CASE w[1].right # <<>>
    <3> DEFINE k == w[1].key
               v == [s EXCEPT !.root = w[1].right, !.ltree = Link(@, "left", k, w[1].left)]
    <3>1. u = v
      BY ONLY <2>1, <2>3, <2>5, Zenon
    <3>2. Part(key, v, S, Over(T, k), L \cup Below(T, k) \cup {k}, R) /\ Cardinality(Over(T, k)) < Cardinality(T)
      BY <2>2, <2>5, LinkedLeft
    <3> HIDE DEF v, k
    <3> QED BY ONLY <3>1, <3>2, Zenon DEF u
  <2> QED BY <2>4, <2>5
<1>5. CASE ~(key < root.key /\ root.left # <<>>) /\ ~(key > root.key /\ root.right # <<>>)
  <2>1. Ended(key, s.root)
    BY <1>5 DEF Ended
  <2>2. Turn(key, s) = s
    BY <2>1, TurnEnded
  <2> QED BY ONLY Part(key, s, S, T, L, R), <2>1, <2>2, Zenon
<1> QED BY <1>3, <1>4, <1>5

LEMMA LoopFrom ==
    ASSUME NEW key, NEW t, Size(t) \in Nat
    PROVE  \E f : /\ f[0] = [root |-> t, ltree |-> <<>>, rtree |-> <<>>]
                  /\ \A k \in 1..Size(t) : f[k] = Turn(key, f[k - 1])
                  /\ SplayLoop(key, t) = f[Size(t)]
<1> DEFINE n == Size(t)
           x == [root |-> t, ltree |-> <<>>, rtree |-> <<>>]
<1>0. n \in Nat
  OBVIOUS
<1> DEFINE body(f, m) == [k \in 0..m |-> IF k = 0 THEN x ELSE Turn(key, f[k - 1])]
           T == {m \in 0..n : \E f : f = body(f, m)}
<1> HIDE DEF n
<1>1. 0 \in T
  <2> HIDE DEF x
  <2> DEFINE g == [k \in 0..0 |-> x]
  <2>1. g = body(g, 0)
    BY SMT
  <2>2. \E f : f = body(f, 0)
    BY <2>1
  <2> QED BY <1>0, <2>2
<1>2. ASSUME NEW m \in 1..n, m - 1 \in T
      PROVE  m \in T
  <2> HIDE DEF x
  <2>1. PICK f : f = body(f, m - 1)
    BY <1>2
  <2> DEFINE g == [k \in 0..m |-> IF k <= m - 1 THEN f[k] ELSE Turn(key, f[m - 1])]
  <2>2. g = body(g, m)
    <3>1. ASSUME NEW k \in 0..m
          PROVE  g[k] = IF k = 0 THEN x ELSE Turn(key, g[k - 1])
      <4>1. CASE k = 0
        BY <1>0, <2>1, <4>1
      <4>2. CASE k \in 1..m - 1
        <5>0. k \in 0..m - 1 /\ k # 0
          BY <1>0, <4>2
        <5>1. f[k] = Turn(key, f[k - 1])
          BY <2>1, <5>0, Zenon
        <5>2. g[k] = f[k] /\ g[k - 1] = f[k - 1]
          BY <1>0, <4>2
        <5> QED BY <5>1, <5>2, <4>2
      <4>3. CASE k = m
        <5>1. m - 1 \in 0..m /\ ~(m <= m - 1) /\ m # 0
          BY <1>0
        <5>2. g[m - 1] = f[m - 1] /\ g[m] = Turn(key, f[m - 1])
          BY <1>0, <5>1
        <5> QED BY <5>1, <5>2, <4>3
      <4> QED BY <1>0, <4>1, <4>2, <4>3
    <3> QED BY <3>1
  <2>3. \E h : h = body(h, m)
    BY <2>2
  <2> QED BY <1>0, <2>3
<1>3. n \in T
  <2> HIDE DEF T
  <2>1. \A k \in 1..n : k - 1 \in T => k \in T
    BY <1>2
  <2>2. \A k \in 0..n : k \in T
    BY <1>0, <1>1, <2>1, UpTo
  <2> QED BY <1>0, <2>2
<1>4. \E f : f = body(f, n)
  BY <1>3
<1> DEFINE r == CHOOSE f : f = body(f, n)
<1>5. r = body(r, n)
  BY <1>4
<1>6. SplayLoop(key, t) = r[n]
  BY Zenon DEF SplayLoop, n
<1> HIDE DEF r
<1>7. r[0] = x
  BY <1>0, <1>5
<1>8. ASSUME NEW k \in 1..n
      PROVE  r[k] = Turn(key, r[k - 1])
  <2>1. k \in 0..n /\ k # 0
    BY <1>0
  <2> QED BY <2>1, <1>5
<1>9. /\ r[0] = x /\ (\A k \in 1..n : r[k] = Turn(key, r[k - 1])) /\ SplayLoop(key, t) = r[n]
  BY <1>6, <1>7, <1>8
<1> QED BY <1>9, Zenon DEF n

\* The loop ends within as many turns as the tree has nodes.
LEMMA LoopEnds ==
    ASSUME NEW key \in Int, NEW t, NEW S, Tree(t, S), S # {}
    PROVE  \E T, L, R : Part(key, SplayLoop(key, t), S, T, L, R) /\ Ended(key, SplayLoop(key, t).root)
<1> DEFINE n == Size(t)
<1>1. n \in Nat /\ n = Cardinality(S) /\ IsFiniteSet(S) /\ S \in SUBSET Int
  BY TreeSize
<1>2. PICK f : /\ f[0] = [root |-> t, ltree |-> <<>>, rtree |-> <<>>]
               /\ \A k \in 1..n : f[k] = Turn(key, f[k - 1])
               /\ SplayLoop(key, t) = f[n]
  <2>1. Size(t) \in Nat
    BY <1>1
  <2> QED BY ONLY <2>1, LoopFrom
<1> HIDE DEF n
<1> DEFINE At(k) == \E T, L, R : /\ Part(key, f[k], S, T, L, R)
                                 /\ Ended(key, f[k].root) \/ Cardinality(T) <= n - k
           Q == {k \in 0..n : At(k)}
<1>3. At(0)
  <2>1. f[0].root = t /\ f[0].ltree = <<>> /\ f[0].rtree = <<>> /\ f[0] = [root |-> f[0].root, ltree |-> f[0].ltree, rtree |-> f[0].rtree]
    BY ONLY <1>2
  <2>2. GoodL(<<>>, {}) /\ GoodR(<<>>, {})
    BY GoodEmpty
  <2>3. S = {} \cup S \cup {} /\ Before({}, S) /\ Before(S, {}) /\ Before({}, {key}) /\ Before({key}, {})
    BY DEF Before
  <2>4. Tree(f[0].root, S) /\ GoodL(f[0].ltree, {}) /\ GoodR(f[0].rtree, {})
    BY ONLY Tree(t, S), <2>1, <2>2, Zenon
  <2>5. Part(key, f[0], S, S, {}, {})
    BY ONLY S # {}, <2>1, <2>3, <2>4, Zenon DEF Part
  <2>6. Cardinality(S) <= n - 0
    BY <1>1
  <2> QED BY ONLY <2>5, <2>6, Zenon
<1>4. ASSUME NEW k \in 1..n, k - 1 \in Q
      PROVE  k \in Q
  <2>1. f[k] = Turn(key, f[k - 1])
    BY <1>2
  <2>2. PICK T, L, R : Part(key, f[k - 1], S, T, L, R) /\ (Ended(key, f[k - 1].root) \/ Cardinality(T) <= n - (k - 1))
    BY <1>4
  <2>3. CASE Ended(key, f[k - 1].root)
    <3>1. f[k] = f[k - 1]
      BY <2>1, <2>3, TurnEnded
    <3>2. Part(key, f[k], S, T, L, R) /\ Ended(key, f[k].root)
      BY ONLY <2>2, <2>3, <3>1, Zenon
    <3>3. At(k)
      BY <3>2
    <3> QED BY <3>3
  <2>4. CASE Cardinality(T) <= n - (k - 1)
    <3>1. PICK T1, L1, R1 : /\ Part(key, Turn(key, f[k - 1]), S, T1, L1, R1)
                            /\ Ended(key, Turn(key, f[k - 1]).root) \/ Cardinality(T1) < Cardinality(T)
      BY <2>2, TurnPart
    <3>2. Part(key, f[k], S, T1, L1, R1) /\ (Ended(key, f[k].root) \/ Cardinality(T1) < Cardinality(T))
      BY ONLY <2>1, <3>1, Zenon
    <3>3. Cardinality(T) \in Nat /\ Cardinality(T1) \in Nat
      <4>1. Tree(f[k - 1].root, T) /\ Tree(f[k].root, T1)
        BY ONLY <2>2, <3>2, Zenon DEF Part
      <4> QED BY <4>1, TreeSize
    <3>4. Cardinality(T1) < Cardinality(T) => Cardinality(T1) <= n - k
      BY <1>1, <2>4, <3>3
    <3>5. At(k)
      BY ONLY <3>2, <3>4, Zenon
    <3> QED BY <3>5
  <2> QED BY <2>2, <2>3, <2>4
<1>5. n \in Q
  <2>1. 0 \in Q
    BY <1>1, <1>3
  <2> HIDE DEF Q
  <2>2. \A k \in 0..n : k \in Q
    BY <1>1, <1>4, <2>1, UpTo
  <2> QED BY <1>1, <2>2
<1>6. PICK T, L, R : Part(key, f[n], S, T, L, R) /\ (Ended(key, f[n].root) \/ Cardinality(T) <= n - n)
  BY <1>5
<1>7. ~(Cardinality(T) <= n - n)
  <2>1. Tree(f[n].root, T) /\ T # {}
    BY <1>6 DEF Part
  <2>2. IsFiniteSet(T) /\ Cardinality(T) \in Nat
    BY <2>1, TreeSize
  <2>3. Cardinality(T) # 0
    BY <2>1, <2>2, FS_EmptySet
  <2> QED BY <1>1, <2>2, <2>3
<1>8. Part(key, f[n], S, T, L, R) /\ Ended(key, f[n].root)
  BY ONLY <1>6, <1>7, Zenon
<1> QED BY ONLY <1>2, <1>8, Zenon

--------------------------------------------------------------------------------
(* The operations of splay.cc.                                                 *)

\* No key lies between key and k, the root after Splay.
Nearest(key, k, S) ==
    /\ key < k => \A x \in S : x < k => x < key
    /\ key > k => \A x \in S : x > k => x > key

LEMMA SplayNode ==
    ASSUME NEW key \in Int, NEW t, NEW S, Tree(t, S), S # {}
    PROVE  \E k, l, r : /\ SplayTo(key, t) = Node(k, l, r) /\ Tree(Node(k, l, r), S)
                        /\ Nearest(key, k, S)
<1> DEFINE s == SplayLoop(key, t)
           root == s.root[1]
           k == root.key
<1>0. PICK T, L, R : Part(key, s, S, T, L, R) /\ Ended(key, s.root)
  BY LoopEnds
<1>1. t # <<>> /\ S \in SUBSET Int
  BY TreeEmpty, TreeSize
<1>2. SplayTo(key, t) = Node(k, Chain(s.ltree, root.left), Chain(s.rtree, root.right))
  BY <1>1, Zenon DEF SplayTo, Assemble
<1> HIDE DEF s
<1>3. /\ Tree(s.root, T) /\ T # {} /\ s.root # <<>> /\ GoodL(s.ltree, L) /\ GoodR(s.rtree, R)
      /\ S = L \cup T \cup R /\ Before(L, T) /\ Before(T, R) /\ Before(L, {key}) /\ Before({key}, R)
  BY <1>0, TreeEmpty DEF Part
<1> DEFINE A == Below(T, k)
           B == Over(T, k)
<1>4. /\ k \in T /\ k \in Int /\ Tree(root.left, A) /\ Tree(root.right, B) /\ T \in SUBSET Int
  BY <1>3, TreeParts, TreeSize
<1>5. /\ T = A \cup {k} \cup B /\ A \in SUBSET T /\ B \in SUBSET T
      /\ Before(A, {k}) /\ Before({k}, B) /\ Before(A, B)
  BY <1>4, BelowOver
<1>6. (key < k => A = {}) /\ (key > k => B = {})
  BY <1>0, <1>4, TreeEmpty DEF Ended
<1> HIDE DEF k, A, B
<1>7. Before(L, A) /\ Before(B, R) /\ Before(L, {k}) /\ Before({k}, R)
  BY <1>3, <1>4, <1>5 DEF Before
<1>8. Tree(Chain(s.ltree, root.left), L \cup A) /\ Tree(Chain(s.rtree, root.right), B \cup R)
  BY <1>3, <1>4, <1>7, Zenon DEF GoodL, GoodR
<1>9. Before(L \cup A, {k}) /\ Before({k}, B \cup R)
  BY <1>5, <1>7 DEF Before
<1> DEFINE l == Chain(s.ltree, root.left)
           r == Chain(s.rtree, root.right)
           M == L \cup A
           N == B \cup R
<1>10. Tree(Node(k, l, r), M \cup {k} \cup N)
  <2> HIDE DEF l, r, M, N
  <2>1. Tree(l, M) /\ Tree(r, N) /\ Before(M, {k}) /\ Before({k}, N)
    BY <1>8, <1>9 DEF l, r, M, N
  <2> QED BY <1>4, <2>1, NodeTree
<1>11. M \cup {k} \cup N = S
  <2>1. M \cup {k} \cup N = L \cup (A \cup {k} \cup B) \cup R
    OBVIOUS
  <2> HIDE DEF M, N
  <2> QED BY ONLY <1>3, <1>5, <2>1, Zenon
<1>12. Nearest(key, k, S)
  <2>1. \A x \in S : x \in Int /\ (x \in L \/ x \in A \/ x = k \/ x \in B \/ x \in R)
    BY <1>1, <1>3, <1>5
  <2>2. ASSUME key < k, NEW x \in S, x < k
        PROVE  x < key
    <3>1. x \notin A /\ x # k /\ x \notin B /\ x \notin R
      BY <1>4, <1>5, <1>6, <1>7, <2>1, <2>2 DEF Before
    <3> QED BY <1>3, <2>1, <3>1 DEF Before
  <2>3. ASSUME key > k, NEW x \in S, x > k
        PROVE  x > key
    <3>1. x \notin B /\ x # k /\ x \notin A /\ x \notin L
      BY <1>4, <1>5, <1>6, <1>7, <2>1, <2>3 DEF Before
    <3>2. key < x
      BY <1>3, <2>1, <3>1 DEF Before
    <3> QED BY <2>1, <3>2
  <2> QED BY <2>2, <2>3 DEF Nearest
<1> HIDE DEF l, r, M, N
<1>13. SplayTo(key, t) = Node(k, l, r)
  BY <1>2 DEF l, r
<1>14. Tree(Node(k, l, r), S)
  BY ONLY <1>10, <1>11, Zenon
<1> QED BY ONLY <1>12, <1>13, <1>14, Zenon

LEMMA SplayFacts ==
    ASSUME NEW key \in Int, NEW t, NEW S, Tree(t, S)
    PROVE  /\ Tree(SplayTo(key, t), S)
           /\ S # {} => /\ SplayTo(key, t) # <<>> /\ SplayTo(key, t)[1].key \in S
                        /\ Nearest(key, SplayTo(key, t)[1].key, S)
                        /\ SplayTo(key, t)[1].key = key <=> key \in S
<1>1. CASE S = {}
  <2>1. t = <<>>
    BY <1>1, TreeEmpty
  <2>2. SplayTo(key, t) = t
    BY <2>1 DEF SplayTo
  <2> QED BY <1>1, <2>2
<1>2. CASE S # {}
  <2>1. PICK k, l, r : SplayTo(key, t) = Node(k, l, r) /\ Tree(Node(k, l, r), S) /\ Nearest(key, k, S)
    BY <1>2, SplayNode
  <2>2. Tree(SplayTo(key, t), S)
    BY ONLY <2>1, Zenon
  <2>3. Node(k, l, r) # <<>> /\ Node(k, l, r)[1].key = k
    BY NodeParts
  <2>4. SplayTo(key, t) # <<>> /\ SplayTo(key, t)[1].key = k
    BY ONLY <2>1, <2>3, Zenon
  <2>5. k \in S /\ S \in SUBSET Int /\ k \in Int
    BY <2>2, <2>4, TreeParts, TreeSize
  <2>6. k = key <=> key \in S
    <3>1. ASSUME key \in S, k # key
          PROVE  FALSE
      <4>1. key < k \/ key > k
        BY <2>5, <3>1
      <4>2. ~(key < key) /\ ~(key > key)
        OBVIOUS
      <4> QED BY ONLY <2>1, <3>1, <4>1, <4>2, Zenon DEF Nearest
    <3> QED BY <2>5, <3>1
  <2> QED BY <2>1, <2>2, <2>4, <2>5, <2>6
<1> QED BY <1>1, <1>2

LEMMA AboveNode ==
    ASSUME NEW key, NEW k, NEW l, NEW r, Size(l) \in Nat, Size(r) \in Nat, key \in Int, k \in Int
    PROVE  /\ key < k => Above(key, Node(k, l, r)[1]) = Node(key, l, Node(k, <<>>, r))
           /\ key > k => Above(key, Node(k, l, r)[1]) = Node(key, Node(k, l, <<>>), r)
<1> DEFINE a == Size(l)
           b == Size(r)
           root == [key |-> k, subtree_size |-> 1 + a + b, left |-> l, right |-> r]
<1>1. Node(k, l, r) = <<root>> /\ Node(k, l, r)[1] = root
  BY DEF Node
<1>2. Node(k, <<>>, r) = <<[key |-> k, subtree_size |-> 1 + 0 + b, left |-> <<>>, right |-> r]>>
  BY DEF Node, Size
<1>3. Node(k, l, <<>>) = <<[key |-> k, subtree_size |-> 1 + a + 0, left |-> l, right |-> <<>>]>>
  BY DEF Node, Size
<1>4. Size(Node(k, <<>>, r)) = 1 + 0 + b /\ Size(Node(k, l, <<>>)) = 1 + a + 0
  BY <1>2, <1>3 DEF Size
<1>5. /\ Node(key, l, Node(k, <<>>, r)) = <<[key |-> key, subtree_size |-> 1 + a + (1 + 0 + b), left |-> l, right |-> Node(k, <<>>, r)]>>
      /\ Node(key, Node(k, l, <<>>), r) = <<[key |-> key, subtree_size |-> 1 + (1 + a + 0) + b, left |-> Node(k, l, <<>>), right |-> r]>>
  BY <1>4, Zenon DEF Node
<1>6. root.key = k /\ root.left = l /\ root.right = r /\ root.subtree_size = 1 + a + b
  OBVIOUS
<1>7. a \in Nat /\ b \in Nat
  OBVIOUS
<1>8. Size(root.left) = a /\ Size(root.right) = b
  BY <1>6
<1> DEFINE lo == [root EXCEPT !.left = <<>>, !.subtree_size = @ - Size(root.left)]
           hi == [root EXCEPT !.right = <<>>, !.subtree_size = @ - Size(root.right)]
<1>9. <<lo>> = Node(k, <<>>, r)
  <2> DEFINE q == [root EXCEPT !.left = <<>>]
             c == root.subtree_size - Size(root.left)
  <2>1. lo = [q EXCEPT !.subtree_size = c]
    BY Zenon
  <2>2. q = [key |-> k, subtree_size |-> 1 + a + b, left |-> <<>>, right |-> r]
    <3> HIDE DEF a, b
    <3> QED BY SMT
  <2>3. c = 1 + 0 + b
    BY <1>6, <1>7, <1>8
  <2> HIDE DEF q, c, a, b
  <2>4. [q EXCEPT !.subtree_size = c] = [key |-> k, subtree_size |-> c, left |-> <<>>, right |-> r]
    BY ONLY <2>2
  <2> QED BY ONLY <1>2, <2>1, <2>3, <2>4, Zenon
<1>10. <<hi>> = Node(k, l, <<>>)
  <2> DEFINE q == [root EXCEPT !.right = <<>>]
             c == root.subtree_size - Size(root.right)
  <2>1. hi = [q EXCEPT !.subtree_size = c]
    BY Zenon
  <2>2. q = [key |-> k, subtree_size |-> 1 + a + b, left |-> l, right |-> <<>>]
    <3> HIDE DEF a, b
    <3> QED BY SMT
  <2>3. c = 1 + a + 0
    BY <1>6, <1>7, <1>8
  <2> HIDE DEF q, c, a, b
  <2>4. [q EXCEPT !.subtree_size = c] = [key |-> k, subtree_size |-> c, left |-> l, right |-> <<>>]
    BY ONLY <2>2
  <2> QED BY ONLY <1>3, <2>1, <2>3, <2>4, Zenon
<1>11. (key < k => ~(key > k)) /\ (key > k => ~(key < k))
  OBVIOUS
<1>12. /\ key < k => Above(key, root) = <<[key |-> key, subtree_size |-> root.subtree_size + 1, left |-> root.left, right |-> <<lo>>]>>
       /\ key > k => Above(key, root) = <<[key |-> key, subtree_size |-> root.subtree_size + 1, right |-> root.right, left |-> <<hi>>]>>
  <2>1. \A R : R.key = k => /\ key < k => Above(key, R) =
                                 <<[key |-> key, subtree_size |-> R.subtree_size + 1, left |-> R.left,
                                    right |-> <<[R EXCEPT !.left = <<>>, !.subtree_size = @ - Size(R.left)]>>]>>
                            /\ key > k => Above(key, R) =
                                 <<[key |-> key, subtree_size |-> R.subtree_size + 1, right |-> R.right,
                                    left |-> <<[R EXCEPT !.right = <<>>, !.subtree_size = @ - Size(R.right)]>>]>>
    BY <1>11, Zenon DEF Above
  <2> HIDE DEF root
  <2> QED BY <1>6, <2>1, Zenon
<1>13. root.subtree_size + 1 = 1 + a + (1 + 0 + b) /\ root.subtree_size + 1 = 1 + (1 + a + 0) + b
  BY <1>6, <1>7
<1> DEFINE u == Node(k, <<>>, r)
           v == Node(k, l, <<>>)
<1> HIDE DEF root, a, b, lo, hi, u, v
<1>14. ASSUME key < k
       PROVE  Above(key, root) = Node(key, l, u)
  <2>1. Above(key, root) = <<[key |-> key, subtree_size |-> root.subtree_size + 1, left |-> root.left, right |-> <<lo>>]>>
    BY ONLY <1>12, <1>14
  <2>2. Node(key, l, u) = <<[key |-> key, subtree_size |-> 1 + a + (1 + 0 + b), left |-> l, right |-> u]>>
    BY ONLY <1>5, Zenon DEF u
  <2>3. <<lo>> = u
    BY <1>9 DEF u
  <2> QED BY ONLY <1>6, <1>13, <2>1, <2>2, <2>3, Zenon
<1>15. ASSUME key > k
       PROVE  Above(key, root) = Node(key, v, r)
  <2> DEFINE c == root.subtree_size + 1
  <2>1. Above(key, root) = <<[key |-> key, subtree_size |-> c, right |-> root.right, left |-> <<hi>>]>>
    BY ONLY <1>12, <1>15
  <2>2. Node(key, v, r) = <<[key |-> key, subtree_size |-> 1 + (1 + a + 0) + b, left |-> v, right |-> r]>>
    BY ONLY <1>5, Zenon DEF v
  <2>3. <<hi>> = v /\ c = 1 + (1 + a + 0) + b
    BY <1>10, <1>13 DEF v
  <2> HIDE DEF c
  <2>4. Above(key, root) = <<[key |-> key, subtree_size |-> c, right |-> r, left |-> v]>>
    BY ONLY <1>6, <2>1, <2>3, Zenon
  <2>5. [key |-> key, subtree_size |-> c, right |-> r, left |-> v] = [key |-> key, subtree_size |-> c, left |-> v, right |-> r]
    BY ONLY SMT
  <2> QED BY ONLY <2>2, <2>3, <2>4, <2>5, Zenon
<1> QED BY ONLY <1>1, <1>14, <1>15, Zenon DEF u, v

LEMMA AboveSame ==
    ASSUME NEW k \in Int, NEW l, NEW r
    PROVE  Above(k, Node(k, l, r)[1]) = Node(k, l, r)
<1> DEFINE n == Node(k, l, r)
<1>1. n = <<n[1]>> /\ n[1].key = k
  BY DEF Node
<1>2. ~(k < k) /\ ~(k > k)
  OBVIOUS
<1> HIDE DEF n
<1>3. Above(k, n[1]) = <<n[1]>>
  BY <1>1, <1>2, Zenon DEF Above
<1>4. Above(k, n[1]) = n
  BY ONLY <1>1, <1>3, Zenon
<1> QED BY <1>4 DEF n

LEMMA AboveTree ==
    ASSUME NEW key \in Int, NEW t, NEW S, Tree(t, S), S # {}
    PROVE  Tree(Above(key, SplayTo(key, t)[1]), S \cup {key})
<1>1. PICK k, l, r : SplayTo(key, t) = Node(k, l, r) /\ Tree(Node(k, l, r), S) /\ Nearest(key, k, S)
  BY SplayNode
<1> DEFINE A == Below(S, k)
           B == Over(S, k)
           u == Above(key, Node(k, l, r)[1])
<1>2. k \in S /\ k \in Int /\ Tree(l, A) /\ Tree(r, B) /\ S \in SUBSET Int
  <2> DEFINE n == Node(k, l, r)
  <2>1. n # <<>> /\ n[1].key = k /\ n[1].left = l /\ n[1].right = r
    BY NodeParts
  <2> HIDE DEF n
  <2>2. Tree(n, S)
    BY <1>1 DEF n
  <2> QED BY <2>1, <2>2, TreeParts, TreeSize
<1>3. Size(l) \in Nat /\ Size(r) \in Nat
  BY <1>2, TreeSize
<1>4. /\ S = A \cup {k} \cup B /\ A \in SUBSET S /\ B \in SUBSET S
      /\ Before(A, {k}) /\ Before({k}, B) /\ Before(A, B)
  BY <1>2, BelowOver
<1>5. /\ key < k => u = Node(key, l, Node(k, <<>>, r))
      /\ key > k => u = Node(key, Node(k, l, <<>>), r)
      /\ key = k => u = Node(k, l, r)
  <2>1. key \in Int /\ k \in Int /\ Size(l) \in Nat /\ Size(r) \in Nat
    BY <1>2, <1>3
  <2>2. key < k => Above(key, Node(k, l, r)[1]) = Node(key, l, Node(k, <<>>, r))
    BY ONLY <2>1, AboveNode
  <2>3. key > k => Above(key, Node(k, l, r)[1]) = Node(key, Node(k, l, <<>>), r)
    BY ONLY <2>1, AboveNode
  <2>4. Above(k, Node(k, l, r)[1]) = Node(k, l, r)
    BY <2>1, AboveSame
  <2> QED BY ONLY <2>2, <2>3, <2>4, Zenon DEF u
<1>6. (key < k => Before(A, {key})) /\ (key > k => Before({key}, B))
  <2>1. \A x \in A : x < k /\ x \in S
    BY <1>4 DEF Before
  <2>2. \A x \in B : k < x /\ x \in S /\ x \in Int
    BY <1>2, <1>4 DEF Before
  <2>3. \A x \in B : x > k /\ (x > key => key < x)
    BY <1>2, <2>2
  <2> QED BY <1>1, <2>1, <2>2, <2>3 DEF Nearest, Before
<1> HIDE DEF A, B, u
<1>7. Tree(<<>>, {}) /\ (\A X : Before({}, X) /\ Before(X, {}))
  BY EmptyTree DEF Before
<1>8. CASE key < k
  <2> DEFINE F == {} \cup {k} \cup B
             v == Node(k, <<>>, r)
  <2>1. Tree(v, F)
    BY <1>2, <1>4, <1>7, NodeTree
  <2>2. Before({key}, F)
    <3>1. \A x \in B : k < x /\ x \in Int
      BY <1>2, <1>4 DEF Before
    <3> QED BY <1>2, <1>8, <3>1 DEF Before
  <2>3. A \cup {key} \cup F = (A \cup {k} \cup B) \cup {key}
    OBVIOUS
  <2> HIDE DEF F, v
  <2>4. Tree(Node(key, l, v), A \cup {key} \cup F)
    BY <1>2, <1>6, <1>8, <2>1, <2>2, NodeTree
  <2>5. u = Node(key, l, v)
    BY <1>5, <1>8 DEF v
  <2>6. Tree(u, S \cup {key})
    BY ONLY <1>4, <2>3, <2>4, <2>5, Zenon
  <2> QED BY ONLY <1>1, <2>6, Zenon DEF u
<1>9. CASE key > k
  <2> DEFINE F == A \cup {k} \cup {}
             v == Node(k, l, <<>>)
  <2>1. Tree(v, F)
    BY <1>2, <1>4, <1>7, NodeTree
  <2>2. Before(F, {key})
    <3>1. \A x \in A : x < k /\ x \in Int
      BY <1>2, <1>4 DEF Before
    <3> QED BY <1>2, <1>9, <3>1 DEF Before
  <2>3. F \cup {key} \cup B = (A \cup {k} \cup B) \cup {key}
    OBVIOUS
  <2> HIDE DEF F, v
  <2>4. Tree(Node(key, v, r), F \cup {key} \cup B)
    BY <1>2, <1>6, <1>9, <2>1, <2>2, NodeTree
  <2>5. u = Node(key, v, r)
    BY <1>5, <1>9 DEF v
  <2>6. Tree(u, S \cup {key})
    BY ONLY <1>4, <2>3, <2>4, <2>5, Zenon
  <2> QED BY ONLY <1>1, <2>6, Zenon DEF u
<1>10. CASE key = k
  <2>1. S \cup {key} = S
    BY <1>2, <1>10
  <2>2. u = Node(k, l, r)
    BY <1>5, <1>10
  <2>3. Tree(u, S \cup {key})
    BY ONLY <1>1, <2>1, <2>2, Zenon
  <2> QED BY ONLY <1>1, <2>3, Zenon DEF u
<1> QED BY <1>2, <1>8, <1>9, <1>10

LEMMA NewTree ==
    ASSUME NEW key \in Int
    PROVE  Tree(NewNode(key), {key})
<1>1. Tree(<<>>, {}) /\ Before({}, {key}) /\ Before({key}, {})
  BY EmptyTree DEF Before
<1>2. Tree(Node(key, <<>>, <<>>), {} \cup {key} \cup {})
  BY <1>1, NodeTree
<1>3. {} \cup {key} \cup {} = {key}
  OBVIOUS
<1> QED BY ONLY <1>2, <1>3, Zenon DEF NewNode

LEMMA InsertTree ==
    ASSUME NEW key \in Int, NEW t, NEW S, Tree(t, S)
    PROVE  Tree(Insert(key, t), S \cup {key})
<1>1. CASE S = {}
  <2>1. t = <<>> /\ S \cup {key} = {key}
    BY <1>1, TreeEmpty
  <2>2. Tree(NewNode(key), {key})
    BY NewTree
  <2> QED BY ONLY <2>1, <2>2, Zenon DEF Insert
<1>2. CASE S # {}
  <2>1. t # <<>>
    BY <1>2, TreeEmpty
  <2>2. Tree(Above(key, SplayTo(key, t)[1]), S \cup {key})
    BY <1>2, AboveTree
  <2> QED BY ONLY <2>1, <2>2, Zenon DEF Insert
<1> QED BY <1>1, <1>2

LEMMA UnlinkedTree ==
    ASSUME NEW t, NEW S, Tree(t, S), t # <<>>
    PROVE  Tree(Unlinked(t[1]), S \ {t[1].key})
<1> DEFINE root == t[1]
           k == root.key
           A == Below(S, k)
           B == Over(S, k)
<1>1. k \in S /\ k \in Int /\ Tree(root.left, A) /\ Tree(root.right, B) /\ S \in SUBSET Int
  BY TreeParts, TreeSize
<1>2. /\ S = A \cup {k} \cup B /\ A \in SUBSET S /\ B \in SUBSET S
      /\ Before(A, {k}) /\ Before({k}, B) /\ Before(A, B)
  BY <1>1, BelowOver
<1>3. k \notin A /\ k \notin B
  BY <1>1, <1>2 DEF Before
<1> HIDE DEF A, B, k, root
<1>4. S \ {k} = A \cup B
  BY <1>2, <1>3
<1>5. Tree(Unlinked(root), S \ {k})
  <2>1. CASE A = {}
    <3>1. root.left = <<>>
      BY <1>1, <2>1, TreeEmpty
    <3>2. S \ {k} = B
      BY <1>4, <2>1
    <3> QED BY ONLY <1>1, <3>1, <3>2, Zenon DEF Unlinked
  <2>2. CASE A # {}
    <3> DEFINE s == SplayTo(k, root.left)
               j == s[1].key
               D == Below(A, j)
               E == Over(A, j)
    <3>1. root.left # <<>>
      BY <1>1, <2>2, TreeEmpty
    <3>2. Tree(s, A) /\ s # <<>> /\ j \in A /\ Nearest(k, j, A)
      BY <1>1, <2>2, SplayFacts
    <3>3. Unlinked(root) = Node(j, s[1].left, root.right)
      BY <3>1, Zenon DEF Unlinked, Topped, k
    <3> HIDE DEF s
    <3>4. Tree(s[1].left, D) /\ A \in SUBSET Int /\ j \in Int
      BY <3>2, TreeParts, TreeSize
    <3>5. A = D \cup {j} \cup E /\ E \in SUBSET A /\ Before({j}, E) /\ Before(D, {j})
      BY <3>2, <3>4, BelowOver
    <3> HIDE DEF j, D, E
    <3>6. E = {}
      <4>1. j < k
        BY <1>2, <3>2 DEF Before
      <4>2. k > j
        BY <1>1, <3>4, <4>1
      <4>3. \A x \in A : x > j => x > k
        BY <3>2, <4>2 DEF Nearest
      <4>4. \A x \in A : x < k /\ x \in Int
        BY <1>2, <3>4 DEF Before
      <4>5. \A x \in E : x \in A /\ j < x
        BY <3>5 DEF Before
      <4>6. ASSUME NEW x \in E
            PROVE  FALSE
        <5>1. x \in A /\ j < x /\ x \in Int
          BY <4>4, <4>5, <4>6
        <5>2. x > j
          BY <3>4, <5>1
        <5>3. x > k /\ x < k
          BY <4>3, <4>4, <5>1, <5>2
        <5> QED BY <1>1, <5>1, <5>3
      <4> QED BY <4>6
    <3>7. Before({j}, B)
      BY <1>2, <3>2 DEF Before
    <3>8. Tree(Node(j, s[1].left, root.right), D \cup {j} \cup B)
      BY <1>1, <3>4, <3>5, <3>7, NodeTree
    <3>9. D \cup {j} \cup B = A \cup B
      BY <3>5, <3>6
    <3> QED BY ONLY <1>4, <3>3, <3>8, <3>9, Zenon
  <2> QED BY <2>1, <2>2
<1> QED BY <1>5 DEF root, k

LEMMA DeleteTree ==
    ASSUME NEW key \in Int, NEW t, NEW S, Tree(t, S)
    PROVE  Tree(Delete(key, t), S \ {key})
<1>1. CASE S = {}
  <2>1. t = <<>> /\ S \ {key} = {}
    BY <1>1, TreeEmpty
  <2>2. Tree(<<>>, {})
    BY EmptyTree
  <2> QED BY ONLY <2>1, <2>2, Zenon DEF Delete
<1>2. CASE S # {}
  <2> DEFINE s == SplayTo(key, t)
  <2>1. t # <<>>
    BY <1>2, TreeEmpty
  <2>2. Tree(s, S) /\ s # <<>> /\ (s[1].key = key <=> key \in S)
    BY <1>2, SplayFacts
  <2>3. Delete(key, t) = IF s[1].key # key THEN s ELSE Unlinked(s[1])
    BY <2>1, Zenon DEF Delete, WithoutRoot
  <2> HIDE DEF s
  <2>4. CASE key \in S
    <3>1. Tree(Unlinked(s[1]), S \ {s[1].key})
      BY <2>2, UnlinkedTree
    <3> QED BY ONLY <2>2, <2>3, <2>4, <3>1, Zenon
  <2>5. CASE key \notin S
    <3>1. S \ {key} = S
      BY <2>5
    <3> QED BY ONLY <2>2, <2>3, <2>5, <3>1, Zenon
  <2> QED BY <2>4, <2>5
<1> QED BY <1>1, <1>2

LEMMA UpdateTree ==
    ASSUME NEW previous \in Int, NEW key \in Int, NEW t, NEW S, Tree(t, S)
    PROVE  Tree(Update(previous, key, t), (S \ {previous}) \cup {key})
<1>1. Tree(Delete(previous, t), S \ {previous})
  BY DeleteTree
<1> QED BY <1>1, InsertTree DEF Update

\* The distance is the number of larger keys.
LEMMA DistanceIs ==
    ASSUME NEW key \in Int, NEW t, NEW S, Tree(t, S), key \in S
    PROVE  DistanceIn(key, t) = Cardinality(Over(S, key))
<1> DEFINE s == SplayTo(key, t)
<1>1. S # {} /\ Tree(s, S) /\ s # <<>> /\ s[1].key = key
  <2>1. S # {}
    OBVIOUS
  <2> QED BY <2>1, SplayFacts
<1>2. DistanceIn(key, t) = Size(s[1].right)
  BY <1>1, Zenon DEF DistanceIn, SizeAbove, AtRoot
<1> HIDE DEF s
<1>3. Tree(s[1].right, Over(S, key))
  BY <1>1, TreeParts
<1>4. Size(s[1].right) = Cardinality(Over(S, key))
  BY <1>3, TreeSize
<1> QED BY ONLY <1>2, <1>4, Zenon

--------------------------------------------------------------------------------
(* The times of the last accesses: the keys of the trees.                      *)

\* No two lines were last accessed at the same time, and none after n.
Times(l, n) ==
    /\ IsFiniteSet(DOMAIN l)
    /\ \A a \in DOMAIN l : l[a] \in 1..n
    /\ \A a, b \in DOMAIN l : l[a] = l[b] => a = b

\* The keys once the line a has been accessed at now.
Renewed(l, a, now) == (IF a \in DOMAIN l THEN Range(l) \ {l[a]} ELSE Range(l)) \cup {now}

LEMMA PutTimes ==
    ASSUME NEW l, NEW n \in Nat, Times(l, n), NEW a
    PROVE  Times(Put(l, a, n + 1), n + 1) /\ Range(Put(l, a, n + 1)) = Renewed(l, a, n + 1)
<1> DEFINE p == Put(l, a, n + 1)
           now == n + 1
<1>1. /\ DOMAIN p = DOMAIN l \cup {a} /\ p[a] = now
      /\ \A b \in DOMAIN l : b # a => p[b] = l[b]
  BY DEF Put
<1> HIDE DEF p
<1>2. IsFiniteSet(DOMAIN p)
  BY <1>1, FS_AddElement DEF Times
<1>3. \A b \in DOMAIN l : l[b] \in 1..n /\ l[b] \in 1..now /\ l[b] # now
  BY DEF Times
<1>4. now \in 1..now
  OBVIOUS
<1> HIDE DEF now
<1>5. \A b \in DOMAIN p : p[b] \in 1..now
  BY <1>1, <1>3, <1>4
<1>6. ASSUME NEW b \in DOMAIN p, NEW c \in DOMAIN p, p[b] = p[c]
      PROVE  b = c
  <2>1. \A x, y \in DOMAIN l : l[x] = l[y] => x = y
    BY DEF Times
  <2> QED BY <1>1, <1>3, <1>6, <2>1
<1>7. Range(p) = Renewed(l, a, now)
  <2>1. \A y : y \in Range(p) <=> \E b \in DOMAIN l \cup {a} : p[b] = y
    BY <1>1 DEF Range
  <2>2. \A y : y \in Range(l) <=> \E b \in DOMAIN l : l[b] = y
    BY DEF Range
  <2>3. \A x, y \in DOMAIN l : l[x] = l[y] => x = y
    BY DEF Times
  <2>4. ASSUME NEW y \in Range(p)
        PROVE  y \in Renewed(l, a, now)
    <3>1. PICK b \in DOMAIN l \cup {a} : p[b] = y
      BY <2>1
    <3>2. CASE b = a
      BY <1>1, <3>1, <3>2 DEF Renewed
    <3>3. CASE b # a
      <4>1. b \in DOMAIN l /\ y = l[b] /\ y \in Range(l)
        BY <1>1, <2>2, <3>1, <3>3
      <4>2. a \in DOMAIN l => y # l[a]
        BY <2>3, <3>3, <4>1
      <4> QED BY <4>1, <4>2 DEF Renewed
    <3> QED BY <3>2, <3>3
  <2>5. ASSUME NEW y \in Renewed(l, a, now)
        PROVE  y \in Range(p)
    <3>1. CASE y = now
      BY <1>1, <2>1, <3>1
    <3>2. CASE y # now
      <4>1. y \in Range(l) /\ (a \in DOMAIN l => y # l[a])
        BY <2>5, <3>2 DEF Renewed
      <4>2. PICK b \in DOMAIN l : l[b] = y
        BY <2>2, <4>1
      <4>3. b # a
        BY <4>1, <4>2
      <4> QED BY <1>1, <2>1, <4>2, <4>3
    <3> QED BY <3>1, <3>2
  <2> QED BY <2>4, <2>5
<1>8. Times(p, now)
  BY <1>2, <1>5, <1>6 DEF Times
<1> QED BY <1>7, <1>8 DEF p, now

\* Lines and times of their last accesses correspond one to one.
LEMMA ExactIs ==
    ASSUME NEW l, NEW n \in Nat, Times(l, n), NEW a \in DOMAIN l
    PROVE  Exact(l, a) = Cardinality(Over(Range(l), l[a]))
<1> DEFINE A == {b \in DOMAIN l : l[b] > l[a]}
           B == Over(Range(l), l[a])
           f == [b \in A |-> l[b]]
<1>1. IsFiniteSet(A)
  <2>1. A \subseteq DOMAIN l /\ IsFiniteSet(DOMAIN l)
    BY DEF Times
  <2> QED BY <2>1, FS_Subset
<1>2. \A b \in A : b \in DOMAIN l /\ l[b] \in B
  BY DEF Over, Range
<1>3. \A y \in B : \E b \in A : l[b] = y
  <2> SUFFICES ASSUME NEW y \in B
               PROVE  \E b \in A : l[b] = y
    OBVIOUS
  <2>1. y \in Range(l) /\ y > l[a]
    BY DEF Over
  <2>2. PICK b \in DOMAIN l : l[b] = y
    BY <2>1 DEF Range
  <2>3. b \in A
    BY <2>1, <2>2
  <2> QED BY <2>2, <2>3
<1>4. \A x, y \in A : l[x] = l[y] => x = y
  BY DEF Times
<1>5. Exact(l, a) = Cardinality(A)
  BY DEF Exact
<1> HIDE DEF A, B
<1>6. f \in [A -> B] /\ (\A x, y \in A : f[x] = f[y] => x = y) /\ (\A y \in B : \E x \in A : f[x] = y)
  BY <1>2, <1>3, <1>4
<1> HIDE DEF f
<1>7. f \in Bijection(A, B)
  BY <1>6 DEF Bijection, Injection, Surjection, IsInjective
<1>8. ExistsBijection(A, B)
  BY <1>7 DEF ExistsBijection
<1>9. Cardinality(B) = Cardinality(A)
  BY <1>1, <1>8, FS_Bijection
<1> QED BY <1>5, <1>9 DEF B

\* The keys are integers, and so is the largest one.
LEMMA LargestTime ==
    ASSUME NEW l, NEW n \in Nat, Times(l, n)
    PROVE  Range(l) \in SUBSET Nat /\ Max(Range(l) \cup {0}) \in Nat
<1> DEFINE S == Range(l) \cup {0}
           U == {m \in Nat : \A x \in S : x <= m}
<1>1. \A x \in S : x \in Nat /\ x <= n
  BY DEF Times, Range
<1>2. n \in U
  BY <1>1
<1>3. 0 \in S /\ Range(l) \in SUBSET S
  OBVIOUS
<1> HIDE DEF S
<1>4. PICK m \in U : \A k \in U : m <= k
  <2>1. U \in SUBSET Nat /\ U # {}
    BY <1>2
  <2> QED BY <2>1, Least
<1>5. m \in S
  <2> SUFFICES ASSUME m \notin S
               PROVE  FALSE
    OBVIOUS
  <2>1. m \in Nat /\ m # 0 /\ \A x \in S : x <= m /\ x # m /\ x \in Nat
    BY <1>1, <1>3
  <2>2. m - 1 \in U
    BY <2>1
  <2> QED BY <1>4, <2>1, <2>2
<1>6. \A y \in S : m >= y
  BY <1>1, <1>4
<1>7. Max(S) \in S
  BY <1>5, <1>6, Zenon DEF Max
<1> QED BY <1>1, <1>3, <1>7 DEF S

\* From a tree for these keys every operation leads to one with the right keys.
LEMMA TreeSound ==
    ASSUME NEW l, NEW n \in Nat, Times(l, n), NEW t, Tree(t, Range(l))
    PROVE  SoundOn(t, Range(l))
<1> DEFINE S == Range(l)
           K == S \cup {Max(S \cup {0}) + 1}
<1>1. S \in SUBSET Int /\ IsFiniteSet(S)
  BY TreeSize
<1>2. K \in SUBSET Int
  BY <1>1, LargestTime
<1> HIDE DEF K, S
<1>3. Tree(t, S)
  BY DEF S
<1>4. Holds(t, S)
  BY <1>1, <1>3, TreeHolds
<1>5. ASSUME NEW k \in K
      PROVE  Holds(SplayTo(k, t), S) /\ Holds(Delete(k, t), S \ {k}) /\ Holds(Insert(k, t), S \cup {k})
  <2>1. k \in Int
    BY <1>2
  <2>2. Tree(SplayTo(k, t), S) /\ Tree(Delete(k, t), S \ {k}) /\ Tree(Insert(k, t), S \cup {k})
    BY <1>3, <2>1, SplayFacts, DeleteTree, InsertTree
  <2>3. \A u, U : Tree(u, U) => Holds(u, U)
    BY TreeHolds, TreeSize
  <2> QED BY ONLY <2>2, <2>3, Zenon
<1> QED BY <1>4, <1>5 DEF SoundOn, S, K

\* An access to a line accessed before: the distance, and the tree afterwards.
LEMMA Again ==
    ASSUME NEW l, NEW n \in Nat, Times(l, n), NEW t, Tree(t, Range(l)), NEW a \in DOMAIN l
    PROVE  LET s == SplayTo(l[a], t) IN
           /\ s # <<>> /\ s[1].key = l[a]
           /\ DistanceIn(l[a], t) = Exact(l, a)
           /\ Tree(Update(l[a], n + 1, s), Renewed(l, a, n + 1))
<1> DEFINE s == SplayTo(l[a], t)
<1>1. l[a] \in Range(l) /\ l[a] \in Int /\ n + 1 \in Int
  BY DEF Times, Range
<1>2. Tree(s, Range(l)) /\ s # <<>> /\ s[1].key = l[a]
  <2>1. Range(l) # {}
    BY <1>1
  <2> QED BY <1>1, <2>1, SplayFacts
<1>3. DistanceIn(l[a], t) = Exact(l, a)
  <2>1. DistanceIn(l[a], t) = Cardinality(Over(Range(l), l[a]))
    BY <1>1, DistanceIs
  <2>2. Exact(l, a) = Cardinality(Over(Range(l), l[a]))
    BY ExactIs
  <2> QED BY ONLY <2>1, <2>2, Zenon
<1> HIDE DEF s
<1>4. Tree(Update(l[a], n + 1, s), (Range(l) \ {l[a]}) \cup {n + 1})
  BY <1>1, <1>2, UpdateTree
<1>5. Renewed(l, a, n + 1) = (Range(l) \ {l[a]}) \cup {n + 1}
  BY DEF Renewed
<1>6. Tree(Update(l[a], n + 1, s), Renewed(l, a, n + 1))
  BY ONLY <1>4, <1>5, Zenon
<1> QED BY <1>2, <1>3, <1>6 DEF s

LEMMA FirstTime ==
    ASSUME NEW l, NEW n \in Nat, Times(l, n), NEW t, Tree(t, Range(l)), NEW a, a \notin DOMAIN l
    PROVE  Tree(Insert(n + 1, t), Renewed(l, a, n + 1))
<1>1. Tree(Insert(n + 1, t), Range(l) \cup {n + 1})
  BY InsertTree
<1>2. Renewed(l, a, n + 1) = Range(l) \cup {n + 1}
  BY DEF Renewed
<1> QED BY ONLY <1>1, <1>2, Zenon

--------------------------------------------------------------------------------
(* One round of DataTempReuse::visit.                                          *)

Start(l, t) == [found |-> FALSE, distance |-> 0, previous |-> 0, last |-> l, tree |-> t]

LEMMA ByteAgain ==
    ASSUME NEW l, NEW n \in Nat, Times(l, n), NEW t, Tree(t, Range(l)), NEW a \in DOMAIN l
    PROVE  OneByte(Start(l, t), a, n + 1) =
             [found |-> TRUE, last |-> Put(l, a, n + 1), tree |-> SplayTo(l[a], t),
              distance |-> Exact(l, a), previous |-> l[a]]
<1> DEFINE s == SplayTo(l[a], t)
           d == DistanceIn(l[a], t)
<1>1. s # <<>> /\ s[1].key = l[a] /\ d = Exact(l, a)
  BY Again
<1> DEFINE b == Start(l, t)
           p == Put(l, a, n + 1)
<1>2. b.found = FALSE /\ b.distance = 0 /\ b.previous = 0 /\ b.last = l /\ b.tree = t
  BY DEF Start
<1> HIDE DEF b
<1>3. OneByte(b, a, n + 1) = [found |-> TRUE, last |-> p, tree |-> s, distance |-> d, previous |-> l[a]]
  BY <1>1, <1>2, Zenon DEF OneByte, Min0, AtRoot
<1> HIDE DEF s, d, p
<1> QED BY ONLY <1>1, <1>3, Zenon DEF b, s, p

LEMMA ByteFirst ==
    ASSUME NEW l, NEW t, NEW a, a \notin DOMAIN l, NEW now
    PROVE  OneByte(Start(l, t), a, now) =
             [found |-> FALSE, last |-> Put(l, a, now), tree |-> t, distance |-> 0, previous |-> 0]
<1> DEFINE b == Start(l, t)
<1>2. b.found = FALSE /\ b.distance = 0 /\ b.previous = 0 /\ b.last = l /\ b.tree = t
  BY DEF Start
<1> HIDE DEF b
<1>3. OneByte(b, a, now) = [found |-> FALSE, last |-> Put(l, a, now), tree |-> t, distance |-> 0, previous |-> 0]
  BY <1>2, Zenon DEF OneByte
<1> QED BY <1>3 DEF b

LEMMA OneRoundIs ==
    ASSUME NEW s, NEW a \in Int, NEW now
    PROVE  EachByte(s, a, 1, now) = OneByte(s, a, now)
<1> DEFINE body(f) == [k \in 0..1 |-> IF k = 0 THEN s ELSE OneByte(f[k - 1], a + k - 1, now)]
           x == OneByte(s, a, now)
           g == [k \in 0..1 |-> IF k = 0 THEN s ELSE x]
           r == CHOOSE f : f = body(f)
<1>1. a + 1 - 1 = a
  OBVIOUS
<1>2. g = body(g)
  <2>1. ASSUME NEW k \in 0..1
        PROVE  g[k] = IF k = 0 THEN s ELSE OneByte(g[k - 1], a + k - 1, now)
    <3>1. CASE k = 0
      BY <3>1
    <3>2. CASE k = 1
      <4>1. g[0] = s /\ g[1] = x
        <5> HIDE DEF x
        <5> QED BY SMT
      <4>2. k - 1 = 0 /\ a + k - 1 = a
        BY <3>2
      <4>3. OneByte(g[k - 1], a + k - 1, now) = x
        <5> HIDE DEF g
        <5> QED BY ONLY <4>1, <4>2, Zenon
      <4> QED BY <3>2, <4>1, <4>3
    <3> QED BY <3>1, <3>2
  <2> QED BY <2>1
<1>3. \E f : f = body(f)
  BY <1>2
<1>4. r = body(r)
  BY <1>3
<1>5. EachByte(s, a, 1, now) = r[1]
  BY Zenon DEF EachByte
<1> HIDE DEF r, g
<1>6. r[0] = s
  BY <1>4
<1>7. r[1] = OneByte(r[1 - 1], a + 1 - 1, now)
  <2>1. 1 \in 0..1 /\ 1 # 0
    OBVIOUS
  <2> QED BY <1>4, <2>1, Zenon
<1>8. 1 - 1 = 0
  OBVIOUS
<1> QED BY ONLY <1>1, <1>5, <1>6, <1>7, <1>8, Zenon

--------------------------------------------------------------------------------
(* The invariant.                                                              *)

\* An access is one round: there is a cache line size, or accesses of one byte.
OneRound == LineSize > 0 \/ \A s \in Steps : s.bytes <= 1

ReuseInv ==
    /\ cycle \in [Ids -> Nat]
    /\ DOMAIN last = Ids /\ DOMAIN tree = Ids /\ DOMAIN instLast = Ids /\ DOMAIN instTree = Ids
    /\ \A t \in Ids : /\ Times(last[t], cycle[t]) /\ Tree(tree[t], Range(last[t]))
                      /\ Times(instLast[t], cycle[t]) /\ Tree(instTree[t], Range(instLast[t]))
    /\ DistancesExact

LEMMA ReuseStart == ReuseInit => ReuseInv
<1> SUFFICES ASSUME ReuseInit
             PROVE  ReuseInv
  OBVIOUS
<1>1. \A v : DOMAIN PerThread(v) = Ids /\ \A t \in Ids : PerThread(v)[t] = v
  BY DEF PerThread
<1>2. /\ cycle = PerThread(0) /\ last = PerThread(Empty) /\ tree = PerThread(<<>>)
      /\ instLast = PerThread(Empty) /\ instTree = PerThread(<<>>)
      /\ histogram = PerThread(Empty) /\ expected = PerThread(Empty)
      /\ instHistogram = PerThread(Empty) /\ instExpected = PerThread(Empty)
  BY DEF ReuseInit
<1>3. cycle \in [Ids -> Nat]
  BY <1>2 DEF PerThread
<1>4. DOMAIN Empty = {} /\ Range(Empty) = {}
  BY DEF Empty, Range
<1>5. Times(Empty, 0) /\ Tree(<<>>, {})
  BY <1>4, FS_EmptySet, EmptyTree DEF Times
<1> HIDE DEF Empty
<1>6. \A t \in Ids : /\ Times(last[t], cycle[t]) /\ Tree(tree[t], Range(last[t]))
                     /\ Times(instLast[t], cycle[t]) /\ Tree(instTree[t], Range(instLast[t]))
  <2> TAKE t \in Ids
  <2>1. last[t] = Empty /\ tree[t] = <<>> /\ instLast[t] = Empty /\ instTree[t] = <<>> /\ cycle[t] = 0
    BY ONLY <1>1, <1>2, t \in Ids, Zenon
  <2> QED BY ONLY <1>4, <1>5, <2>1, Zenon
<1>7. DOMAIN last = Ids /\ DOMAIN tree = Ids /\ DOMAIN instLast = Ids /\ DOMAIN instTree = Ids
  BY ONLY <1>1, <1>2, Zenon
<1>8. DistancesExact
  BY <1>2, Zenon DEF DistancesExact
<1> QED BY <1>3, <1>6, <1>7, <1>8 DEF ReuseInv

LEMMA DataStep ==
    ASSUME ReuseInv, NEW t \in Ids, NEW a, NEW n, Line(a) \in Int, Rounds(n) = 1, data_visit(t, a, n, cycle[t] + 1)
    PROVE  /\ DOMAIN last' = Ids /\ DOMAIN tree' = Ids
           /\ \A u \in Ids : u # t => last'[u] = last[u] /\ tree'[u] = tree[u]
           /\ Times(last'[t], cycle[t] + 1) /\ Tree(tree'[t], Range(last'[t]))
           /\ histogram' = expected'
<1> DEFINE l == last[t]
           b == Line(a)
           c == cycle[t]
           now == cycle[t] + 1
           s == OneByte(Start(l, tree[t]), b, now)
<1>1. c \in Nat /\ Times(l, c) /\ Tree(tree[t], Range(l)) /\ DOMAIN last = Ids /\ DOMAIN tree = Ids /\ histogram = expected
  BY DEF ReuseInv, DistancesExact
<1>2. EachByte([found |-> FALSE, distance |-> 0, previous |-> 0, last |-> last[t], tree |-> tree[t]], Line(a), Rounds(n), now) = s
  <2>1. EachByte(Start(l, tree[t]), b, 1, now) = s
    BY OneRoundIs
  <2>2. Start(l, tree[t]) = [found |-> FALSE, distance |-> 0, previous |-> 0, last |-> last[t], tree |-> tree[t]]
    BY Zenon DEF Start
  <2> HIDE DEF s
  <2> QED BY ONLY Rounds(n) = 1, <2>1, <2>2, Zenon DEF b
<1> HIDE DEF s
<1>3. /\ last' = [last EXCEPT ![t] = s.last]
      /\ tree' = [tree EXCEPT ![t] = inserted(s, now)]
      /\ histogram' = IF s.found THEN [histogram EXCEPT ![t] = Increment(@, DataBin(s.distance))] ELSE histogram
      /\ expected' = IF b \in DOMAIN l THEN [expected EXCEPT ![t] = Increment(@, DataBin(Exact(l, b)))] ELSE expected
  <2> DEFINE e == EachByte([found |-> FALSE, distance |-> 0, previous |-> 0, last |-> last[t], tree |-> tree[t]], Line(a), Rounds(n), now)
  <2>1. /\ last' = [last EXCEPT ![t] = e.last]
        /\ tree' = [tree EXCEPT ![t] = inserted(e, now)]
        /\ histogram' = IF e.found THEN [histogram EXCEPT ![t] = Increment(@, DataBin(e.distance))] ELSE histogram
        /\ expected' = IF b \in DOMAIN l THEN [expected EXCEPT ![t] = Increment(@, DataBin(Exact(l, b)))] ELSE expected
    BY Zenon DEF data_visit, data_store
  <2>2. e = s
    BY <1>2
  <2> HIDE DEF e
  <2> QED BY ONLY <2>1, <2>2, Zenon
<1>4. /\ s.last = Put(l, b, now)
      /\ Tree(inserted(s, now), Renewed(l, b, now))
      /\ (b \in DOMAIN l /\ s.found = TRUE /\ s.distance = Exact(l, b)) \/ (b \notin DOMAIN l /\ s.found = FALSE)
  <2>1. CASE b \in DOMAIN l
    <3> DEFINE p == SplayTo(l[b], tree[t])
    <3>1. s = [found |-> TRUE, last |-> Put(l, b, now), tree |-> p, distance |-> Exact(l, b), previous |-> l[b]]
      BY <1>1, <2>1, ByteAgain DEF s
    <3>2. Tree(Update(l[b], now, p), Renewed(l, b, now))
      BY <1>1, <2>1, Again
    <3> HIDE DEF p, b, l, now
    <3>3. s.found = TRUE /\ s.last = Put(l, b, now) /\ s.tree = p /\ s.distance = Exact(l, b) /\ s.previous = l[b]
      BY ONLY <3>1
    <3>4. inserted(s, now) = Update(l[b], now, p)
      BY ONLY <3>3, Zenon DEF inserted
    <3> QED BY ONLY <2>1, <3>2, <3>3, <3>4, Zenon
  <2>2. CASE b \notin DOMAIN l
    <3>1. s = [found |-> FALSE, last |-> Put(l, b, now), tree |-> tree[t], distance |-> 0, previous |-> 0]
      BY <2>2, ByteFirst DEF s
    <3>2. Tree(Insert(now, tree[t]), Renewed(l, b, now))
      BY <1>1, <2>2, FirstTime
    <3> HIDE DEF b, l, now
    <3>3. s.found = FALSE /\ s.last = Put(l, b, now) /\ s.tree = tree[t]
      BY ONLY <3>1
    <3>4. inserted(s, now) = Insert(now, tree[t])
      BY ONLY <3>3, Zenon DEF inserted
    <3> QED BY ONLY <2>2, <3>2, <3>3, <3>4, Zenon
  <2> QED BY <2>1, <2>2
<1>5. Times(Put(l, b, now), now) /\ Range(Put(l, b, now)) = Renewed(l, b, now)
  BY <1>1, PutTimes
<1>6. /\ DOMAIN last' = Ids /\ last'[t] = s.last /\ DOMAIN tree' = Ids /\ tree'[t] = inserted(s, now)
      /\ \A u \in Ids : u # t => last'[u] = last[u] /\ tree'[u] = tree[u]
  <2> DEFINE x == s.last
             y == inserted(s, now)
  <2>1. last' = [last EXCEPT ![t] = x] /\ tree' = [tree EXCEPT ![t] = y]
    BY <1>3
  <2> HIDE DEF x, y
  <2>2. DOMAIN last' = Ids /\ last'[t] = x /\ \A u \in Ids : u # t => last'[u] = last[u]
    BY ONLY <1>1, <2>1, t \in Ids
  <2>3. DOMAIN tree' = Ids /\ tree'[t] = y /\ \A u \in Ids : u # t => tree'[u] = tree[u]
    BY ONLY <1>1, <2>1, t \in Ids
  <2> QED BY <2>2, <2>3 DEF x, y
<1>7. Times(last'[t], now) /\ Tree(tree'[t], Range(last'[t]))
  <2> HIDE DEF b, l, now
  <2> QED BY ONLY <1>4, <1>5, <1>6, Zenon
<1>8. histogram' = expected'
  <2> HIDE DEF b, l, now
  <2> QED BY ONLY <1>1, <1>3, <1>4, Zenon
<1> QED BY <1>6, <1>7, <1>8

LEMMA InstStep ==
    ASSUME ReuseInv, NEW t \in Ids, NEW i, inst_visit(t, i, cycle[t] + 1)
    PROVE  /\ DOMAIN instLast' = Ids /\ DOMAIN instTree' = Ids
           /\ \A u \in Ids : u # t => instLast'[u] = instLast[u] /\ instTree'[u] = instTree[u]
           /\ Times(instLast'[t], cycle[t] + 1) /\ Tree(instTree'[t], Range(instLast'[t]))
           /\ instHistogram' = instExpected'
<1> DEFINE l == instLast[t]
           b == InstLine(i)
           c == cycle[t]
           now == cycle[t] + 1
           u == inst_updated(SplayTo(l[b], instTree[t]), l[b], now)
           x == Put(l, b, now)
           y == IF b \in DOMAIN l THEN u ELSE Insert(now, instTree[t])
<1>1. /\ c \in Nat /\ Times(l, c) /\ Tree(instTree[t], Range(l)) /\ DOMAIN instLast = Ids /\ DOMAIN instTree = Ids
      /\ instHistogram = instExpected
  BY DEF ReuseInv, DistancesExact
<1>2. /\ instLast' = [instLast EXCEPT ![t] = x]
      /\ instTree' = [instTree EXCEPT ![t] = y]
      /\ IF b \in DOMAIN l
         THEN /\ instHistogram' = [instHistogram EXCEPT ![t] =
                        Increment(@, upperPowerOfTwo(DistanceIn(l[b], instTree[t])))]
              /\ instExpected' = [instExpected EXCEPT ![t] =
                        Increment(@, upperPowerOfTwo(Exact(l, b)))]
         ELSE instHistogram' = instHistogram /\ instExpected' = instExpected
  BY Zenon DEF inst_visit
<1>3. Tree(y, Renewed(l, b, now)) /\ (b \in DOMAIN l => DistanceIn(l[b], instTree[t]) = Exact(l, b))
  <2>1. CASE b \in DOMAIN l
    <3> DEFINE p == SplayTo(l[b], instTree[t])
    <3>1. p # <<>> /\ p[1].key = l[b] /\ DistanceIn(l[b], instTree[t]) = Exact(l, b) /\ Tree(Update(l[b], now, p), Renewed(l, b, now))
      BY <1>1, <2>1, Again
    <3>2. u = Update(l[b], now, p)
      BY <3>1, Zenon DEF inst_updated, AtRoot
    <3> HIDE DEF p, u, b, l, now
    <3> QED BY ONLY <2>1, <3>1, <3>2, Zenon DEF y
  <2>2. CASE b \notin DOMAIN l
    <3>1. Tree(Insert(now, instTree[t]), Renewed(l, b, now))
      BY <1>1, <2>2, FirstTime
    <3> HIDE DEF u, b, l, now
    <3> QED BY ONLY <2>2, <3>1, Zenon DEF y
  <2> QED BY <2>1, <2>2
<1>4. Times(x, now) /\ Range(x) = Renewed(l, b, now)
  BY <1>1, PutTimes
<1> HIDE DEF x, y
<1>5. DOMAIN instLast' = Ids /\ instLast'[t] = x /\ \A v \in Ids : v # t => instLast'[v] = instLast[v]
  BY ONLY <1>1, <1>2, t \in Ids
<1>6. DOMAIN instTree' = Ids /\ instTree'[t] = y /\ \A v \in Ids : v # t => instTree'[v] = instTree[v]
  BY ONLY <1>1, <1>2, t \in Ids
<1> HIDE DEF b, l, now
<1>7. Times(instLast'[t], now) /\ Tree(instTree'[t], Range(instLast'[t]))
  BY ONLY <1>3, <1>4, <1>5, <1>6, Zenon
<1>8. instHistogram' = instExpected'
  BY ONLY <1>1, <1>2, <1>3, Zenon
<1> QED BY <1>5, <1>6, <1>7, <1>8 DEF now

LEMMA TimesLater ==
    ASSUME NEW l, NEW n \in Nat, Times(l, n)
    PROVE  Times(l, n + 1)
BY DEF Times

LEMMA ReuseStep == ReuseAssumption /\ OneRound /\ ReuseInv /\ [ReuseNext]_reuseVars => ReuseInv'
<1> SUFFICES ASSUME ReuseAssumption, OneRound, ReuseInv, [ReuseNext]_reuseVars
             PROVE  ReuseInv'
  OBVIOUS
<1>1. /\ cycle \in [Ids -> Nat]
      /\ DOMAIN last = Ids /\ DOMAIN tree = Ids /\ DOMAIN instLast = Ids /\ DOMAIN instTree = Ids
      /\ \A t \in Ids : /\ Times(last[t], cycle[t]) /\ Tree(tree[t], Range(last[t]))
                        /\ Times(instLast[t], cycle[t]) /\ Tree(instTree[t], Range(instLast[t]))
      /\ histogram = expected /\ instHistogram = instExpected
  BY DEF ReuseInv, DistancesExact
<1>2. CASE UNCHANGED reuseVars
  <2>1. /\ cycle' = cycle /\ last' = last /\ tree' = tree /\ instLast' = instLast /\ instTree' = instTree
        /\ histogram' = histogram /\ expected' = expected /\ instHistogram' = instHistogram /\ instExpected' = instExpected
    BY <1>2 DEF reuseVars
  <2> QED BY ONLY <1>1, <2>1, Zenon DEF ReuseInv, DistancesExact
<1>3. ASSUME NEW t \in Ids, NEW s \in Steps, analyze_reuse(t, s)
      PROVE  ReuseInv'
  <2> DEFINE c == cycle[t]
  <2>1. /\ cycle' = [cycle EXCEPT ![t] = c + 1]
        /\ IF s.bytes > 0 THEN data_visit(t, s.addr, s.bytes, c + 1)
           ELSE last' = last /\ tree' = tree /\ bytes' = bytes /\ histogram' = histogram /\ expected' = expected
        /\ inst_visit(t, s.inst, c + 1)
    BY <1>3 DEF analyze_reuse
  <2>2. c \in Nat
    BY <1>1
  <2>3. cycle' \in [Ids -> Nat] /\ cycle'[t] = c + 1 /\ \A u \in Ids : u # t => cycle'[u] = cycle[u]
    BY ONLY <1>1, <2>1, <2>2, t \in Ids
  <2>4. /\ DOMAIN last' = Ids /\ DOMAIN tree' = Ids
        /\ \A u \in Ids : u # t => last'[u] = last[u] /\ tree'[u] = tree[u]
        /\ Times(last'[t], c + 1) /\ Tree(tree'[t], Range(last'[t]))
        /\ histogram' = expected'
    <3>1. CASE s.bytes > 0
      <4>1. data_visit(t, s.addr, s.bytes, c + 1)
        BY <2>1, <3>1
      <4>2. s.addr \in Nat /\ s.bytes \in Nat /\ LineSize \in Nat
        BY <1>3 DEF ReuseAssumption
      <4>3. Rounds(s.bytes) = 1
        BY <1>3, <3>1, <4>2 DEF Rounds, OneRound
      <4>4. Line(s.addr) \in Int
        BY <4>2 DEF Line
      <4> QED BY <1>3, <4>1, <4>3, <4>4, DataStep
    <3>2. CASE ~(s.bytes > 0)
      <4>1. last' = last /\ tree' = tree /\ histogram' = histogram /\ expected' = expected
        BY <2>1, <3>2
      <4>2. Times(last[t], c + 1)
        BY <1>1, <2>2, TimesLater
      <4> QED BY ONLY <1>1, <4>1, <4>2, t \in Ids, Zenon
    <3> QED BY <3>1, <3>2
  <2>5. /\ DOMAIN instLast' = Ids /\ DOMAIN instTree' = Ids
        /\ \A u \in Ids : u # t => instLast'[u] = instLast[u] /\ instTree'[u] = instTree[u]
        /\ Times(instLast'[t], c + 1) /\ Tree(instTree'[t], Range(instLast'[t]))
        /\ instHistogram' = instExpected'
    BY <2>1, InstStep
  <2> HIDE DEF c
  <2>6. ASSUME NEW u \in Ids
        PROVE  /\ Times(last'[u], cycle'[u]) /\ Tree(tree'[u], Range(last'[u]))
               /\ Times(instLast'[u], cycle'[u]) /\ Tree(instTree'[u], Range(instLast'[u]))
    <3>1. CASE u = t
      BY ONLY <2>3, <2>4, <2>5, <3>1, Zenon
    <3>2. CASE u # t
      BY ONLY <1>1, <2>3, <2>4, <2>5, <2>6, <3>2, Zenon
    <3> QED BY <3>1, <3>2
  <2> QED BY ONLY <2>3, <2>4, <2>5, <2>6, Zenon DEF ReuseInv, DistancesExact
<1> QED BY <1>2, <1>3 DEF ReuseNext

LEMMA ReuseAlways == OneRound => (ReuseSpec => []ReuseInv)
<1> SUFFICES ASSUME OneRound
             PROVE  ReuseSpec => []ReuseInv
  OBVIOUS
<1>1. ReuseInit => ReuseInv
  BY ReuseStart
<1>2. ReuseInv /\ [ReuseNext]_reuseVars => ReuseInv'
  BY ReuseStep, ReuseAssumption
<1> QED BY <1>1, <1>2, PTL DEF ReuseSpec

\* If every access is one round, the trees of DataTempReuse and InstTempReuse
\* are search trees with the time of the last access of each line as keys and
\* every stored subtree_size right, and every operation of splay.cc keeps them so.
THEOREM TreesSorted == OneRound => (ReuseSpec => []TreesSound)
<1> SUFFICES ASSUME OneRound
             PROVE  ReuseSpec => []TreesSound
  OBVIOUS
<1>1. ReuseSpec => []ReuseInv
  BY ReuseAlways
<1>2. ReuseInv => TreesSound
  <2> SUFFICES ASSUME ReuseInv, NEW t \in Ids
               PROVE  SoundOn(tree[t], Range(last[t])) /\ SoundOn(instTree[t], Range(instLast[t]))
    BY DEF TreesSound
  <2>1. cycle[t] \in Nat /\ Times(last[t], cycle[t]) /\ Tree(tree[t], Range(last[t]))
    BY DEF ReuseInv
  <2>2. Times(instLast[t], cycle[t]) /\ Tree(instTree[t], Range(instLast[t]))
    BY DEF ReuseInv
  <2> QED BY <2>1, <2>2, TreeSound
<1> QED BY <1>1, <1>2, PTL

\* If every access is one round, the histograms that JSONdump prints are those
\* of the exact reuse distances: the different lines accessed in between.
THEOREM Distances == OneRound => (ReuseSpec => []DistancesExact)
<1> SUFFICES ASSUME OneRound
             PROVE  ReuseSpec => []DistancesExact
  OBVIOUS
<1>1. ReuseSpec => []ReuseInv
  BY ReuseAlways
<1>2. ReuseInv => DistancesExact
  BY DEF ReuseInv
<1> QED BY <1>1, <1>2, PTL

--------------------------------------------------------------------------------
(* compute_shared_memory.                                                      *)

LEMMA PingPongFrom ==
    ASSUME NEW sets, NThreads \in Nat, NThreads >= 2
    PROVE  \E f : /\ f[2] = [b \in 0..1 |-> IF b = 0 THEN sets[0] \cap sets[1] ELSE sets[0]]
                  /\ \A i \in 3..NThreads : f[i] = IF i - 1 \notin initialized THEN f[i - 1]
                                                   ELSE [f[i - 1] EXCEPT ![i % 2] = f[i - 1][(i - 1) % 2] \cap sets[i - 1]]
                  /\ PingPong(sets) = f[NThreads]
<1> DEFINE n == NThreads
           x == [b \in 0..1 |-> IF b = 0 THEN sets[0] \cap sets[1] ELSE sets[0]]
           Turns(o, i) == IF i - 1 \notin initialized THEN o ELSE [o EXCEPT ![i % 2] = o[(i - 1) % 2] \cap sets[i - 1]]
           body(f, m) == [i \in 2..m |-> IF i = 2 THEN x ELSE Turns(f[i - 1], i)]
           T == {k \in 0..n - 2 : \E f : f = body(f, k + 2)}
<1>0. n \in Nat /\ n >= 2 /\ n - 2 \in Nat /\ (n - 2) + 2 = n
  OBVIOUS
<1> HIDE DEF n, x, Turns
<1>1. 0 \in T
  <2> DEFINE g == [i \in 2..2 |-> x]
  <2>1. g = body(g, 0 + 2)
    BY SMT
  <2>2. \E f : f = body(f, 0 + 2)
    BY <2>1
  <2> QED BY <1>0, <2>2
<1>2. ASSUME NEW m \in 1..n - 2, m - 1 \in T
      PROVE  m \in T
  <2> DEFINE j == m + 2
  <2>0. j \in Nat /\ j >= 3 /\ (m - 1) + 2 = j - 1 /\ m \in 0..n - 2
    BY <1>0
  <2>1. PICK f : f = body(f, j - 1)
    <3>1. \E f : f = body(f, (m - 1) + 2)
      BY <1>2
    <3> HIDE DEF j
    <3> QED BY ONLY <2>0, <3>1, Zenon
  <2> HIDE DEF j
  <2> DEFINE g == [i \in 2..j |-> IF i <= j - 1 THEN f[i] ELSE Turns(f[j - 1], j)]
  <2>2. g = body(g, j)
    <3>1. ASSUME NEW i \in 2..j
          PROVE  g[i] = IF i = 2 THEN x ELSE Turns(g[i - 1], i)
      <4>1. CASE i = 2
        BY <2>0, <2>1, <4>1
      <4>2. CASE i \in 3..j - 1
        <5>0. i \in 2..j - 1 /\ i # 2
          BY <2>0, <4>2
        <5>1. f[i] = Turns(f[i - 1], i)
          BY <2>1, <5>0, Zenon
        <5>2. g[i] = f[i] /\ g[i - 1] = f[i - 1]
          BY <2>0, <4>2
        <5> QED BY <5>0, <5>1, <5>2
      <4>3. CASE i = j
        <5>1. j - 1 \in 2..j /\ ~(j <= j - 1) /\ j # 2 /\ j \in 2..j
          BY <2>0
        <5>2. g[j - 1] = f[j - 1] /\ g[j] = Turns(f[j - 1], j)
          BY <2>0, <5>1
        <5> QED BY <5>1, <5>2, <4>3
      <4> QED BY <2>0, <4>1, <4>2, <4>3
    <3> QED BY <3>1
  <2>3. \E h : h = body(h, m + 2)
    BY <2>2 DEF j
  <2> QED BY <2>0, <2>3
<1>3. n - 2 \in T
  <2> HIDE DEF T
  <2>1. \A k \in 1..n - 2 : k - 1 \in T => k \in T
    BY <1>2
  <2>2. \A k \in 0..n - 2 : k \in T
    BY <1>0, <1>1, <2>1, UpTo
  <2> QED BY <1>0, <2>2
<1>4. \E f : f = body(f, n)
  <2>1. \E f : f = body(f, (n - 2) + 2)
    BY <1>3
  <2> QED BY ONLY <1>0, <2>1, Zenon
<1> DEFINE r == CHOOSE f : f = body(f, n)
<1>5. r = body(r, n)
  BY <1>4
<1>6. PingPong(sets) = r[n]
  BY Zenon DEF PingPong, n, x, Turns
<1> HIDE DEF r
<1>7. r[2] = x
  BY <1>0, <1>5
<1>8. ASSUME NEW i \in 3..n
      PROVE  r[i] = Turns(r[i - 1], i)
  <2>1. i \in 2..n /\ i # 2
    BY <1>0
  <2> QED BY <2>1, <1>5
<1>9. /\ r[2] = x /\ (\A i \in 3..n : r[i] = Turns(r[i - 1], i)) /\ PingPong(sets) = r[n]
  BY <1>6, <1>7, <1>8
<1> QED BY <1>9, Zenon DEF n, x, Turns

\* What the first m threads have in common.
Common(sets, m) == {x \in sets[0] : \A t \in 0..m - 1 : x \in sets[t]}

\* After thread i - 1 the buffer i % 2 holds the intersection so far, until the
\* initialised threads end.
LEMMA PingPongIs ==
    ASSUME NEW sets, NEW n \in 2..NThreads, NThreads \in Nat, initialized = 0..n - 1
    PROVE  PingPong(sets)[n % 2] = Common(sets, n)
<1>0. NThreads \in Nat /\ NThreads >= 2 /\ n \in Nat /\ n >= 2 /\ n <= NThreads
  OBVIOUS
<1>1. PICK f : /\ f[2] = [b \in 0..1 |-> IF b = 0 THEN sets[0] \cap sets[1] ELSE sets[0]]
               /\ \A i \in 3..NThreads : f[i] = IF i - 1 \notin initialized THEN f[i - 1]
                                                ELSE [f[i - 1] EXCEPT ![i % 2] = f[i - 1][(i - 1) % 2] \cap sets[i - 1]]
               /\ PingPong(sets) = f[NThreads]
  BY <1>0, PingPongFrom
<1> DEFINE At(i) == /\ DOMAIN f[i] = 0..1
                    /\ i <= n => f[i][i % 2] = Common(sets, i)
                    /\ i > n => f[i] = f[n]
           T == {k \in 0..NThreads - 2 : At(k + 2)}
<1>2. At(2)
  <2>1. DOMAIN f[2] = 0..1 /\ f[2][0] = sets[0] \cap sets[1]
    BY <1>1
  <2>2. 2 % 2 = 0 /\ ~(2 > n)
    BY <1>0
  <2>3. Common(sets, 2) = sets[0] \cap sets[1]
    <3>1. 0..2 - 1 = {0, 1}
      OBVIOUS
    <3> QED BY <3>1 DEF Common
  <2> QED BY ONLY <2>1, <2>2, <2>3, Zenon
<1>3. ASSUME NEW i \in 3..NThreads, At(i - 1)
      PROVE  At(i)
  <2>0. i \in Nat /\ i - 1 \in Nat /\ i % 2 \in 0..1 /\ (i - 1) % 2 \in 0..1
    BY <1>0
  <2>1. f[i] = IF i - 1 \notin initialized THEN f[i - 1]
               ELSE [f[i - 1] EXCEPT ![i % 2] = f[i - 1][(i - 1) % 2] \cap sets[i - 1]]
    BY <1>1
  <2>2. CASE i <= n
    <3>1. i - 1 \in initialized /\ i - 1 <= n /\ ~(i > n)
      BY <1>0, <2>0, <2>2
    <3> DEFINE v == f[i - 1][(i - 1) % 2] \cap sets[i - 1]
               o == f[i - 1]
               j == i % 2
    <3>2. f[i] = [o EXCEPT ![j] = v] /\ DOMAIN o = 0..1 /\ j \in 0..1
      BY <1>3, <2>0, <2>1, <3>1
    <3>3. v = Common(sets, i - 1) \cap sets[i - 1]
      BY <1>3, <3>1
    <3>4. Common(sets, i) = Common(sets, i - 1) \cap sets[i - 1]
      <4>1. \A k : k \in 0..i - 1 <=> k \in 0..(i - 1) - 1 \/ k = i - 1
        BY <2>0
      <4> QED BY <4>1 DEF Common
    <3> HIDE DEF v, o, j
    <3>5. DOMAIN f[i] = 0..1 /\ f[i][j] = v
      BY ONLY <3>2
    <3> QED BY ONLY <3>1, <3>3, <3>4, <3>5, Zenon DEF j
  <2>3. CASE ~(i <= n)
    <3>1. i - 1 \notin initialized /\ i > n /\ (i - 1 > n \/ i - 1 = n)
      BY <1>0, <2>0, <2>3
    <3>2. f[i] = f[i - 1]
      BY ONLY <2>1, <3>1, Zenon
    <3>3. f[i - 1] = f[n]
      BY ONLY <1>3, <3>1, Zenon
    <3> QED BY ONLY <1>3, <2>3, <3>1, <3>2, <3>3, Zenon
  <2> QED BY <2>2, <2>3
<1> HIDE DEF At
<1>4. \A k \in 0..NThreads - 2 : k \in T
  <2>1. 0 \in T
    <3>1. 0 + 2 = 2 /\ 0 \in 0..NThreads - 2
      BY <1>0
    <3> QED BY <1>2, <3>1
  <2>2. ASSUME NEW k \in 1..NThreads - 2, k - 1 \in T
        PROVE  k \in T
    <3>1. (k - 1) + 2 = (k + 2) - 1 /\ k + 2 \in 3..NThreads /\ k \in 0..NThreads - 2
      BY <1>0
    <3>2. At((k - 1) + 2)
      BY <2>2
    <3>3. At(k + 2)
      BY ONLY <1>3, <3>1, <3>2, Zenon
    <3> QED BY <3>1, <3>3
  <2> HIDE DEF T
  <2>3. NThreads - 2 \in Nat
    BY <1>0
  <2> QED BY <2>1, <2>2, <2>3, UpTo
<1>5. At(NThreads) /\ At(n)
  <2>1. /\ NThreads - 2 \in 0..NThreads - 2 /\ (NThreads - 2) + 2 = NThreads
        /\ n - 2 \in 0..NThreads - 2 /\ (n - 2) + 2 = n
    BY <1>0
  <2>2. At((NThreads - 2) + 2) /\ At((n - 2) + 2)
    BY <1>4, <2>1
  <2> QED BY ONLY <2>1, <2>2, Zenon
<1>6. f[n][n % 2] = Common(sets, n)
  <2>1. n <= n
    BY <1>0
  <2> QED BY <1>5, <2>1 DEF At
<1>7. f[NThreads] = f[n]
  <2>1. NThreads = n \/ NThreads > n
    BY <1>0
  <2> QED BY ONLY <1>5, <2>1, Zenon DEF At
<1> QED BY ONLY <1>1, <1>6, <1>7, Zenon

LEMMA SharedSizeIs ==
    ASSUME NEW sets, NEW n \in 2..NThreads, NThreads \in Nat, initialized = 0..n - 1
    PROVE  SharedSize(sets) = Cardinality({x \in sets[0] : \A t \in initialized : x \in sets[t]})
<1>1. n \in Nat /\ n >= 2 /\ n <= NThreads
  OBVIOUS
<1>2. Cardinality(initialized) = n
  <2>1. 0 \in Int /\ n - 1 \in Int /\ ~(0 > n - 1) /\ (n - 1) - 0 + 1 = n
    BY <1>1
  <2>2. Cardinality(0..n - 1) = IF 0 > n - 1 THEN 0 ELSE (n - 1) - 0 + 1
    BY <2>1, FS_Interval
  <2> QED BY ONLY initialized = 0..n - 1, <2>1, <2>2, Zenon
<1>3. ~(NThreads < 2 \/ ~({0, 1} \subseteq initialized))
  BY <1>1
<1>4. SharedSize(sets) = Cardinality(PingPong(sets)[n % 2])
  BY ONLY <1>2, <1>3, Zenon DEF SharedSize, shared_index
<1>5. PingPong(sets)[n % 2] = Common(sets, n)
  BY PingPongIs
<1>6. Common(sets, n) = {x \in sets[0] : \A t \in initialized : x \in sets[t]}
  BY Zenon DEF Common
<1> QED BY ONLY <1>4, <1>5, <1>6, Zenon

\* What compute_shared_memory reports is the size of the set that all threads
\* accessed, whatever they accessed.
LEMMA SharedNow == ReuseAssumption => SharedExact
<1> SUFFICES ASSUME ReuseAssumption, NEW n \in 2..NThreads, initialized = 0..n - 1
             PROVE  /\ sharedAccesses = Cardinality({a \in DOMAIN last[0] :
                                            \A t \in initialized : a \in DOMAIN last[t]})
                    /\ LineSize > 0 =>
                         sharedBytes = Cardinality({b \in bytes[0] : \A t \in initialized : b \in bytes[t]})
  BY DEF SharedExact
<1>1. NThreads \in Nat /\ LineSize \in Nat /\ 0 \in Ids /\ \A t \in initialized : t \in Ids
  BY DEF ReuseAssumption, Ids
<1> DEFINE d == [t \in Ids |-> DOMAIN last[t]]
<1>2. sharedAccesses = Cardinality({a \in DOMAIN last[0] : \A t \in initialized : a \in DOMAIN last[t]})
  <2>1. sharedAccesses = SharedSize(d)
    BY DEF sharedAccesses
  <2>2. \A t \in Ids : d[t] = DOMAIN last[t]
    OBVIOUS
  <2> HIDE DEF d
  <2>3. SharedSize(d) = Cardinality({x \in d[0] : \A t \in initialized : x \in d[t]})
    BY <1>1, SharedSizeIs
  <2>4. {x \in d[0] : \A t \in initialized : x \in d[t]} = {a \in DOMAIN last[0] : \A t \in initialized : a \in DOMAIN last[t]}
    BY ONLY <1>1, <2>2
  <2> QED BY ONLY <2>1, <2>3, <2>4, Zenon
<1>3. ASSUME LineSize > 0
      PROVE  sharedBytes = Cardinality({b \in bytes[0] : \A t \in initialized : b \in bytes[t]})
  <2>1. LineSize # 0
    BY <1>1, <1>3
  <2>2. sharedBytes = SharedSize(bytes)
    BY <2>1 DEF sharedBytes
  <2>3. SharedSize(bytes) = Cardinality({x \in bytes[0] : \A t \in initialized : x \in bytes[t]})
    BY <1>1, SharedSizeIs
  <2> QED BY ONLY <2>2, <2>3, Zenon
<1> QED BY <1>2, <1>3

\* The memory footprint of compute_shared_memory: if the initialised threads are
\* the first ones, the two buffers end with what all of them accessed.
THEOREM Shared == ReuseSpec => []SharedExact
<1>1. SharedExact
  BY SharedNow, ReuseAssumption
<1> QED BY <1>1, PTL

================================================================================
