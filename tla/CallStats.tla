------------------------------- MODULE CallStats -------------------------------
(* Counts of runtime-library calls: MPI (src/library/MPIstats.cc), OpenMP     *)
(* (src/library/OpenMPstats.cc) and other external functions                  *)
(* (src/library/ExternalLibraryCount.cc), as operators. A routine is named    *)
(* without its MPI_ or __kmpc_ prefix; MPI names are compared regardless of   *)
(* case and of a trailing underscore, so the C and the Fortran form of a      *)
(* routine have the same name here. Counting a routine moves the counter of   *)
(* its group and, where the code keeps one, a counter of its own.             *)
EXTENDS Integers, FiniteSets, FiniteSetsExt

\* MPIstats: the routines of each group
environment_management ==
    {"abort", "Errhandler_create", "Errhandler_free", "Errhandler_get", "Errhandler_set", "Error_class",
     "Error_string", "Finalize", "Get_processor_name", "Get_version", "Init", "Initialized", "Wtick", "Wtime"}
point_to_point ==
    {"Bsend", "Bsend_init", "Buffer_attach", "Buffer_detach", "Cancel", "Get_count", "Get_elements",
     "Ibsend", "Iprobe", "Irecv", "Irsend", "Isend", "Issend", "Probe", "Recv", "Recv_init",
     "Request_free", "Rsend", "Rsend_init", "Send", "Send_init", "Sendrecv", "Sendrecv_replace",
     "Ssend", "Ssend_init", "Start", "Startall", "Test", "Test_cancelled", "Testall", "Testany",
     "Testsome", "Wait", "Waitall", "Waitany", "Waitsome"}
collective ==
    {"Allgather", "Allgatherv", "Allreduce", "Alltoall", "Alltoallv", "Barrier", "Bcast", "Gather",
     "Gatherv", "Op_create", "Op_free", "Reduce", "Reduce_scatter", "Scan", "Scatter", "Scatterv"}
\* The remaining groups match by prefix; a call carries the prefix it has.
MPIPrefixes == [Group |-> "process_group", Comm |-> "communicators", Intercomm |-> "communicators",
                Type |-> "derived_types", Cart |-> "virtual_topology", Graph |-> "virtual_topology"]
virtual_topology == {"Cartdim_get", "Dims_create", "Graphdims_get", "Topo_create"}
miscellaneous == {"Address", "Attr_delete", "Attr_get", "Attr_put", "Keyval_create", "Keyval_free",
                  "Pack", "Pack_size", "Pcontrol", "Unpack"}

MPIGroup(f) ==
    IF f.name \in environment_management THEN "environment_management"
    ELSE IF f.name \in point_to_point THEN "point_to_point"
    ELSE IF f.name \in collective THEN "collective"
    ELSE IF f.prefix \in DOMAIN MPIPrefixes THEN MPIPrefixes[f.prefix]
    ELSE IF f.name \in virtual_topology THEN "virtual_topology"
    ELSE IF f.name \in miscellaneous THEN "miscellaneous"
    ELSE "others"
MPIGroups == {"environment_management", "point_to_point", "collective", "process_group", "communicators",
              "derived_types", "virtual_topology", "miscellaneous", "others"}
\* point-to-point and collective routines have a counter each
MPICounters(f) == {MPIGroup(f)} \cup ({f.name} \cap (point_to_point \cup collective))

--------------------------------------------------------------------------------
\* OpenMPstats: the routines of each group
startup_shutdown == {"begin", "end"}
parallel == {"push_num_threads", "fork_call", "push_num_teams", "fork_teams",
             "serialized_parallel", "end_serialized_parallel"}
thread_info == {"global_thread_num", "global_num_threads", "bound_thread_num", "bound_num_threads",
                "in_parallel"}
work_sharing ==
    {"master", "end_master", "ordered", "end_ordered", "critical", "end_critical", "single",
     "end_single", "for_static_fini", "dispatch_init_4", "dispatch_init_4u", "dispatch_init_8",
     "dispatch_init_8u", "dist_dispatch_init_4", "dispatch_next_4", "dispatch_next_4u",
     "dispatch_next_8", "dispatch_next_8u", "dispatch_fini_4", "dispatch_fini_4u", "dispatch_fini_8",
     "dispatch_fini_8u", "for_static_init_4", "for_static_init_4u", "for_static_init_8",
     "for_static_init_8u", "dist_for_static_init_4", "dist_for_static_init_4u",
     "dist_for_static_init_8", "dist_for_static_init_8u", "team_static_init_4",
     "team_static_init_4u", "team_static_init_8", "team_static_init_8u"}
synchronization == {"flush", "barrier", "barrier_master", "end_barrier_master", "barrier_master_nowait",
                    "reduce_nowait", "end_reduce_nowait", "reduce", "end_reduce"}
thread_private == {"copyprivate", "threadprivate_register", "threadprivate_cached",
                   "threadprivate_register_vec", "ctor", "dtor", "cctor", "ctor_vec", "dtor_vec",
                   "cctor_vec"}
tasking == {"omp_task_with_deps", "omp_wait_deps"}

OMPMembers == [startup_shutdown |-> startup_shutdown, parallel |-> parallel, thread_info |-> thread_info,
               work_sharing |-> work_sharing, synchronization |-> synchronization,
               thread_private |-> thread_private, tasking |-> tasking]
OMPRoutines == UNION {OMPMembers[g] : g \in DOMAIN OMPMembers}
OMPGroups == DOMAIN OMPMembers \cup {"atomic", "others"}
\* a name that contains "atomic" counts as atomic and nothing else
OMPGroup(f) ==
    IF f.atomic THEN "atomic"
    ELSE IF f.name \in OMPRoutines THEN CHOOSE g \in DOMAIN OMPMembers : f.name \in OMPMembers[g]
    ELSE "others"
OMPCounters(f) == {OMPGroup(f)} \cup (IF f.atomic THEN {} ELSE {f.name} \cap OMPRoutines)

\* The lines of the report and the counter each one prints: the line for
\* __kmpc_end_reduce_nowait prints a counter that is never moved, the line for
\* kmpc_ctor_vec the counter of kmpc_cctor_vec.
OMPPrinted(line) == CASE line = "end_reduce_nowait" -> "end_reduce_wait"
                      [] line = "ctor_vec" -> "cctor_vec"
                      [] OTHER -> line
OMPMisprinted == {l \in OMPRoutines : OMPPrinted(l) # l}
================================================================================
