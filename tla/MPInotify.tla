------------------------------ MODULE MPInotify ------------------------------
(***************************************************************************)
(* MPI calls of the instrumented program and the notification that the     *)
(* hook behind each of them (mpi_update_db, MPIcnfSupport.cc) sends to the *)
(* analysis.  The message is cleared, then each class of calls fills in    *)
(* its own fields: what the hook does not fill in stays 0.                 *)
(*                                                                         *)
(* Ranks are the ranks of MPI_COMM_WORLD, sizes are in bytes (count times  *)
(* the size of the datatype), a request is the address of its variable.    *)
(***************************************************************************)
EXTENDS Integers, Sequences

ANY_SOURCE == -1

\* The arguments of an MPI call and, of a call that completes a request, its
\* status: status is FALSE if the program passes MPI_STATUS(ES)_IGNORE, done is
\* the flag of MPI_Test(all), source the MPI_SOURCE of the request (-1 for one
\* that was not active).  comm_size is the size of the communicator, whose
\* ranks are the first ones of MPI_COMM_WORLD.
Call(name) ==
    [name |-> name, other |-> 0, tag |-> 0, other2 |-> 0, tag2 |-> 0, root |-> 0,
     bytes |-> 0, recvbytes |-> 0, req |-> 0, status |-> TRUE, source |-> 0, done |-> FALSE,
     reqs |-> <<>>, comm_size |-> 0]

Cleared ==
    [name |-> "none", other |-> 0, tag |-> 0, other2 |-> 0, tag2 |-> 0, root |-> 0,
     size |-> 0, recvsize |-> 0, req |-> 0, source |-> 0, flag |-> FALSE,
     reqs |-> <<>>, comm_size |-> 0]

\* MPI_Send, MPI_Recv.
basic_call(c) == [Cleared EXCEPT !.other = c.other, !.tag = c.tag, !.size = c.bytes]

\* MPI_Isend, MPI_Irecv.
async_call(c) == [basic_call(c) EXCEPT !.req = c.req]

\* MPI_Wait: the flag is set.
wait_call(c) == [Cleared EXCEPT !.req = c.req, !.source = c.source, !.flag = TRUE]

\* MPI_Waitall: a pair of request and source per element of the array.
waitall_call(c) == [Cleared EXCEPT !.reqs = c.reqs, !.flag = c.reqs # <<>>]

\* MPI_Test: without a status the source stays -1.  MPI_Testall.
test_call(c) == [Cleared EXCEPT !.req = c.req, !.source = IF c.status THEN c.source ELSE ANY_SOURCE,
                                !.flag = c.done]
testall_call(c) == [Cleared EXCEPT !.reqs = c.reqs, !.flag = c.done]

\* The assertions of the hook: MPI_Wait, MPI_Waitall and MPI_Testall need a
\* status, and a test that succeeds a source in the status it has.
Asserted(c) ==
    /\ c.name = "Wait" \/ (c.name \in {"Waitall", "Testall"} /\ c.reqs # <<>>) => c.status
    /\ c.name = "Test" /\ c.done /\ c.status => c.source # ANY_SOURCE
    /\ c.name = "Testall" /\ c.done => \A k \in DOMAIN c.reqs : c.reqs[k].source # ANY_SOURCE

\* MPI_Scatter(v), MPI_Gatherv: the root is stored in other.
anytag_call(c) == [Cleared EXCEPT !.other = c.root]

\* MPI_Sendrecv(_replace): no size.
sendrecv_call(c) == [Cleared EXCEPT !.other = c.other, !.tag = c.tag,
                                    !.other2 = c.other2, !.tag2 = c.tag2]

\* MPI_Bcast, MPI_Reduce and their non-blocking forms: the root is in root.
rooted_call(c) == [Cleared EXCEPT !.size = c.bytes, !.root = c.root, !.req = c.req]

\* MPI_Gather, MPI_Igather.
gather_call(c) == [rooted_call(c) EXCEPT !.recvsize = c.recvbytes]

\* MPI_Alltoall(v), MPI_Allgather and their non-blocking forms.
all_pairs_call(c) == [Cleared EXCEPT !.size = c.bytes, !.recvsize = c.recvbytes,
                                     !.req = c.req]

\* MPI_Allreduce, MPI_Iallreduce.
allreduce_call(c) == [Cleared EXCEPT !.size = c.bytes, !.req = c.req]

\* The hooks both passes insert (insertMPIhooks): which class a call is in.
point_to_point_class(name) ==
    CASE name \in {"Send", "Recv"} -> "BASIC"
      [] name \in {"Isend", "Irecv"} -> "ASYNC"
      [] name = "Wait" -> "WAIT"
      [] name = "Test" -> "TEST"
      [] name = "Waitall" -> "WAITALL"
      [] name = "Testall" -> "TESTALL"
      [] OTHER -> "none"

collective_class(name) ==
    CASE name \in {"Bcast", "Ibcast", "Reduce", "Ireduce"} -> "ROOTED"
      [] name \in {"Gather", "Igather"} -> "GATHER"
      [] name \in {"Scatter", "Scatterv", "Gatherv"} -> "ANYTAG"
      [] name \in {"Allreduce", "Iallreduce"} -> "ALLREDUCE"
      [] name \in {"Alltoall", "Ialltoall", "Alltoallv", "Allgather", "Iallgather"} -> "PAIRS"
      [] name \in {"Sendrecv", "Sendrecv_replace"} -> "SENDRECV"
      [] name \in {"Init", "Finalize"} -> "PLAIN"

\* The calls that get a hook.
Routines ==
    {"Send", "Recv", "Isend", "Irecv", "Wait", "Test", "Waitall", "Testall", "Bcast", "Ibcast", "Reduce",
     "Ireduce", "Gather", "Igather", "Scatter", "Scatterv", "Gatherv", "Allreduce", "Iallreduce", "Alltoall",
     "Ialltoall", "Alltoallv", "Allgather", "Iallgather", "Sendrecv", "Sendrecv_replace", "Init", "Finalize"}

HookClass(name) ==
    IF point_to_point_class(name) # "none" THEN point_to_point_class(name)
    ELSE collective_class(name)

mpi_update_db(c) ==
    LET class == HookClass(c.name)
        filled == CASE class = "BASIC" -> basic_call(c)
                    [] class = "ASYNC" -> async_call(c)
                    [] class = "WAIT" -> wait_call(c)
                    [] class = "WAITALL" -> waitall_call(c)
                    [] class = "TEST" -> test_call(c)
                    [] class = "TESTALL" -> testall_call(c)
                    [] class = "ANYTAG" -> anytag_call(c)
                    [] class = "SENDRECV" -> sendrecv_call(c)
                    [] class = "ROOTED" -> rooted_call(c)
                    [] class = "GATHER" -> gather_call(c)
                    [] class = "PAIRS" -> all_pairs_call(c)
                    [] class = "ALLREDUCE" -> allreduce_call(c)
                    [] class = "PLAIN" -> Cleared
    IN  [filled EXCEPT !.name = c.name, !.comm_size = c.comm_size]
=============================================================================
