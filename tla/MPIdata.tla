-------------------------------- MODULE MPIdata --------------------------------
(* Volumes of MPI communication (src/library/MPIdata.cc): what each process   *)
(* sent and received, by source, with a list of pending requests. MPI itself  *)
(* is external: messages of one sender to one receiver arrive in order, a     *)
(* message goes to the first posted receive that accepts it, and a request is *)
(* completed by the call that returns its status. Sizes are in bytes.         *)
EXTENDS MPInotify, FiniteSets, SequencesExt

CONSTANTS N,          \* number of processes
          Programs    \* the calls each process makes, in order

Procs == 0..N - 1
Calls == [name : Routines, other : Int, tag : Int, other2 : Int, tag2 : Int, root : Int, bytes : Nat,
          recvbytes : Nat, req : Int, status : BOOLEAN, source : Int, done : BOOLEAN, reqs : Seq(Int), comm_size : Nat]

ASSUME NAssumption == N \in Nat \ {0}
ASSUME ProgramsAssumption == \A s \in Programs : s \in [Procs -> Seq(Calls)]

VARIABLES
    prog, pc,
    network,    \* messages sent and not yet matched (MPI)
    posted,     \* of each process, its active requests (MPI)
    delivered,  \* of each process, the completed receives: where the message came
                \* from, whether the call names or reports that source, its size
                \* and that of its buffer (history)
    data,       \* of each process, the state of MPIdata
    killed      \* processes that a failed assertion of the hook has ended

running == <<prog, pc, network, posted, delivered, data>>
vars == <<running, killed>>

Volumes == {"bcastSent", "bcastReceived", "alltoallSent", "alltoallReceived", "gatherSent", "gatherReceived",
            "allgatherSent", "allgatherReceived", "reduceRoot", "reduceNotRoot", "allreduce"}
Fresh == [sentBytes |-> 0, receivedBytes |-> 0, totalSentMessages |-> 0, totalReceivedMessages |-> 0,
          collective |-> [v \in Volumes |-> 0], matrixReceived |-> <<>>,
          async_send |-> <<>>, async_recv |-> <<>>, async_other |-> <<>>, aborted |-> FALSE]

Init ==
    /\ prog \in Programs
    /\ pc = [p \in Procs |-> 1]
    /\ network = <<>>
    /\ posted = [p \in Procs |-> <<>>]
    /\ delivered = [p \in Procs |-> <<>>]
    /\ data = [p \in Procs |-> Fresh]
    /\ killed = {}

--------------------------------------------------------------------------------
updateReceivedMatrix(d, source, bytes) ==
    LET m == d.matrixReceived
        old == IF source \in DOMAIN m THEN m[source] ELSE [bytes |-> 0, messages |-> 0]
        new == [bytes |-> old.bytes + bytes, messages |-> old.messages + 1]
    IN  [d EXCEPT !.matrixReceived = [s \in DOMAIN m \cup {source} |-> IF s = source THEN new ELSE m[s]]]

\* A pending request: its address, the source it was posted for, its size.
updateAsyncReqList(list, msg, bytes) == Append(list, [req |-> msg.req, source |-> msg.other, bytes |-> bytes])
asyncIndex(list, req) == SelectInSeq(list, LAMBDA e : e.req = req)

count_sent(d, bytes) == [d EXCEPT !.sentBytes = @ + bytes, !.totalSentMessages = @ + 1]
count_received(d, bytes) == [d EXCEPT !.receivedBytes = @ + bytes, !.totalReceivedMessages = @ + 1]

\* mutant: the volume goes to the source the receive was posted for
handleRequestCompletion_m(d, r) ==
    LET s == asyncIndex(d.async_send, r.req)
        v == asyncIndex(d.async_recv, r.req)
    IN  IF s > 0 THEN [count_sent(d, d.async_send[s].bytes) EXCEPT !.async_send = RemoveAt(@, s)]
        ELSE IF v > 0
        THEN [updateReceivedMatrix(count_received(d, d.async_recv[v].bytes), d.async_recv[v].source,
                                   d.async_recv[v].bytes) EXCEPT !.async_recv = RemoveAt(@, v)]
        ELSE d
\* The first list that knows the request's address gives it up; an address no
\* list knows fails an assertion, unless MPI reported no source.
handleRequestCompletion(d, r) ==
    LET s == asyncIndex(d.async_send, r.req)
        v == asyncIndex(d.async_recv, r.req)
        o == asyncIndex(d.async_other, r.req)
    IN  IF s > 0 THEN [count_sent(d, d.async_send[s].bytes) EXCEPT !.async_send = RemoveAt(@, s)]
        ELSE IF v > 0
        THEN [updateReceivedMatrix(count_received(d, d.async_recv[v].bytes), r.source, d.async_recv[v].bytes)
                 EXCEPT !.async_recv = RemoveAt(@, v)]
        ELSE IF o > 0 THEN [d EXCEPT !.async_other = RemoveAt(@, o)]
        ELSE [d EXCEPT !.aborted = @ \/ r.source # ANY_SOURCE]

\* visit, by kind of call; p is processor_id.
visit_point_to_point(d, msg) ==
    CASE msg.name = "Send"  -> count_sent(d, msg.size)
      [] msg.name = "Recv"  -> updateReceivedMatrix(count_received(d, msg.size), msg.other, msg.size)
      [] msg.name = "Isend" -> [d EXCEPT !.async_send = updateAsyncReqList(@, msg, msg.size)]
      [] msg.name = "Irecv" -> [d EXCEPT !.async_recv = updateAsyncReqList(@, msg, msg.size)]

\* The volumes a collective call adds, as a function of the counter's name.
Family(name) ==
    CASE name \in {"Bcast", "Ibcast"} -> "bcast" [] name \in {"Alltoall", "Alltoallv", "Ialltoall"} -> "alltoall"
      [] name \in {"Gather", "Igather"} -> "gather" [] name \in {"Allgather", "Iallgather"} -> "allgather"
      [] name \in {"Reduce", "Ireduce"} -> "reduce" [] name \in {"Allreduce", "Iallreduce"} -> "allreduce"
\* mutant: the root of a gather counts one process only
volume_m(p, msg, v) ==
    LET root == msg.root = p
        in == msg.recvsize
    IN  CASE v = "bcastSent" -> IF root THEN msg.size ELSE 0
          [] v = "bcastReceived" -> IF root THEN 0 ELSE msg.size
          [] v \in {"alltoallSent"} -> msg.size * msg.comm_size
          [] v \in {"gatherSent", "allgatherSent", "allreduce"} -> msg.size
          [] v = "gatherReceived" -> IF root THEN in ELSE 0
          [] v \in {"alltoallReceived", "allgatherReceived"} -> in * msg.comm_size
          [] v = "reduceRoot" -> IF root THEN msg.size ELSE 0
          [] v = "reduceNotRoot" -> IF root THEN 0 ELSE msg.size
volume(p, msg, v) ==
    LET root == msg.root = p
        in == msg.recvsize * msg.comm_size
    IN  CASE v = "bcastSent" -> IF root THEN msg.size ELSE 0
          [] v = "bcastReceived" -> IF root THEN 0 ELSE msg.size
          [] v = "alltoallSent" -> msg.size * msg.comm_size
          [] v \in {"gatherSent", "allgatherSent", "allreduce"} -> msg.size
          [] v = "gatherReceived" -> IF root THEN in ELSE 0
          [] v \in {"alltoallReceived", "allgatherReceived"} -> in
          [] v = "reduceRoot" -> IF root THEN msg.size ELSE 0
          [] v = "reduceNotRoot" -> IF root THEN 0 ELSE msg.size
FamilyVolumes ==
    [bcast |-> {"bcastSent", "bcastReceived"}, alltoall |-> {"alltoallSent", "alltoallReceived"},
     gather |-> {"gatherSent", "gatherReceived"}, allgather |-> {"allgatherSent", "allgatherReceived"},
     reduce |-> {"reduceRoot", "reduceNotRoot"}, allreduce |-> {"allreduce"}]
NonBlocking == {"Ibcast", "Ialltoall", "Igather", "Iallgather", "Ireduce", "Iallreduce"}
visit_collective(d, p, msg) ==
    LET moved == FamilyVolumes[Family(msg.name)]
    IN  [d EXCEPT !.collective = [v \in Volumes |-> @[v] + IF v \in moved THEN volume(p, msg, v) ELSE 0],
                  !.async_other = IF msg.name \in NonBlocking THEN updateAsyncReqList(@, msg, 0) ELSE @]

\* the requests of an array, in its order
handleRequests(d, reqs) ==
    LET after[k \in 0..Len(reqs)] == IF k = 0 THEN d ELSE handleRequestCompletion(after[k - 1], reqs[k])
    IN  after[Len(reqs)]

\* mutant: a test completes its request whatever its flag
visit_completion_m(d, msg) ==
    IF msg.name \in {"Wait", "Test"} THEN handleRequestCompletion(d, [req |-> msg.req, source |-> msg.source])
    ELSE handleRequests(d, msg.reqs)
visit_completion(d, msg) ==
    CASE msg.name = "Wait" -> handleRequestCompletion(d, [req |-> msg.req, source |-> msg.source])
      [] msg.name = "Test" -> IF msg.flag THEN handleRequestCompletion(d, [req |-> msg.req, source |-> msg.source]) ELSE d
      [] msg.name = "Waitall" -> handleRequests(d, msg.reqs)
      [] msg.name = "Testall" -> IF msg.flag THEN handleRequests(d, msg.reqs) ELSE d

visit(d, p, msg) ==
    CASE msg.name \in {"Send", "Recv", "Isend", "Irecv"} -> visit_point_to_point(d, msg)
      [] msg.name \in {"Wait", "Test", "Waitall", "Testall"} -> visit_completion(d, msg)
      [] OTHER -> visit_collective(d, p, msg)

--------------------------------------------------------------------------------
\* MPI: a message and the receives that accept it
Accepts(r, m) == r.kind = "recv" /\ ~r.done /\ r.other \in {m.from, ANY_SOURCE} /\ r.tag = m.tag
FirstOfPair(k) == \A j \in 1..k - 1 : <<network[j].from, network[j].to, network[j].tag>>
                                       # <<network[k].from, network[k].to, network[k].tag>>
Message(p, c) == [from |-> p, to |-> c.other, tag |-> c.tag, bytes |-> c.bytes]
Request(kind, c) == [req |-> c.req, kind |-> kind, other |-> c.other, tag |-> c.tag, bytes |-> c.bytes,
                     buffer |-> c.bytes, done |-> kind # "recv", source |-> 0]
Receipt(source, known, bytes, buffer) ==
    [source |-> source, known |-> known, bytes |-> bytes, buffer |-> buffer]
\* an inactive request is complete and has no source
IsDone(p, req) == LET k == asyncIndex(posted[p], req) IN k > 0 => posted[p][k].done
SourceOf(p, req) == LET k == asyncIndex(posted[p], req) IN IF k = 0 THEN ANY_SOURCE ELSE posted[p][k].source
\* A completed request is no longer active; what it received is the application's,
\* which is told the source if it passes a status.
Finish(s, req, status) ==
    LET k == asyncIndex(s.posted, req)
        r == s.posted[k]
    IN  IF k = 0 THEN s
        ELSE [posted |-> RemoveAt(s.posted, k),
              delivered |-> IF r.kind = "recv" THEN Append(s.delivered, Receipt(r.source, status, r.bytes, r.buffer))
                            ELSE s.delivered]
FinishAll(s, reqs, status) ==
    LET after[k \in 0..Len(reqs)] == IF k = 0 THEN s ELSE Finish(after[k - 1], reqs[k], status)
    IN  after[Len(reqs)]

Calling(p, names) == p \notin killed /\ pc[p] <= Len(prog[p]) /\ prog[p][pc[p]].name \in names
Current(p) == prog[p][pc[p]]
\* the hook behind the call and the visit of its notification
notified(p, c) == data' = [data EXCEPT ![p] = visit(@, p, mpi_update_db(c))]
notify(p, c) ==
    /\ notified(p, c)
    /\ pc' = [pc EXCEPT ![p] = @ + 1]
    /\ UNCHANGED <<prog, killed>>

Match(k) ==
    /\ k \in DOMAIN network /\ FirstOfPair(k)
    /\ LET m == network[k]
           r == SelectInSeq(posted[m.to], LAMBDA x : Accepts(x, m))
       IN  /\ r > 0
           /\ posted' = [posted EXCEPT ![m.to][r] = [@ EXCEPT !.done = TRUE, !.source = m.from, !.bytes = m.bytes]]
           /\ network' = RemoveAt(network, k)
    /\ UNCHANGED <<prog, pc, delivered, data, killed>>

Send(p) ==
    /\ Calling(p, {"Send", "Isend"})
    /\ network' = Append(network, Message(p, Current(p)))
    /\ posted' = IF Current(p).name = "Send" THEN posted
                 ELSE [posted EXCEPT ![p] = Append(@, Request("send", Current(p)))]
    /\ notify(p, Current(p))
    /\ UNCHANGED delivered

Irecv(p) ==
    /\ Calling(p, {"Irecv"})
    /\ posted' = [posted EXCEPT ![p] = Append(@, Request("recv", Current(p)))]
    /\ notify(p, Current(p))
    /\ UNCHANGED <<network, delivered>>

Recv(p) ==
    /\ Calling(p, {"Recv"})
    /\ \E k \in DOMAIN network :
         /\ network[k].to = p /\ FirstOfPair(k)
         /\ ~\E j \in DOMAIN posted[p] : Accepts(posted[p][j], network[k])
         /\ Accepts([Request("recv", Current(p)) EXCEPT !.done = FALSE], network[k])
         /\ delivered' = [delivered EXCEPT ![p] = Append(@, Receipt(network[k].from, Current(p).other # ANY_SOURCE,
                                                                      network[k].bytes, Current(p).bytes))]
         /\ network' = RemoveAt(network, k)
    /\ notify(p, Current(p))
    /\ UNCHANGED posted

\* A collective call; a non-blocking one leaves a request that is complete.
Collective(p) ==
    /\ p \notin killed /\ pc[p] <= Len(prog[p])
    /\ HookClass(Current(p).name) \in {"ROOTED", "GATHER", "PAIRS", "ALLREDUCE"}
    /\ posted' = IF Current(p).name \notin NonBlocking THEN posted
                 ELSE [posted EXCEPT ![p] = Append(@, Request("other", Current(p)))]
    /\ notify(p, Current(p))
    /\ UNCHANGED <<network, delivered>>

ReqsOf(c) == IF c.name \in {"Wait", "Test"} THEN <<c.req>> ELSE c.reqs
Finished(p) == \A k \in DOMAIN ReqsOf(Current(p)) : IsDone(p, ReqsOf(Current(p))[k])
Unfinished(p) == /\ Current(p).name \in {"Test", "Testall"}
                 /\ \E k \in DOMAIN ReqsOf(Current(p)) : asyncIndex(posted[p], ReqsOf(Current(p))[k]) > 0
\* the call with what it returns: complete, or a test that is not
Returned(p) ==
    LET reqs == ReqsOf(Current(p))
    IN  [Current(p) EXCEPT !.done = TRUE, !.source = SourceOf(p, Current(p).req),
                           !.reqs = [k \in DOMAIN reqs |-> [req |-> reqs[k], source |-> SourceOf(p, reqs[k])]]]
Returned_not(p) ==
    LET reqs == ReqsOf(Current(p))
    IN  [Current(p) EXCEPT !.done = FALSE, !.source = 0,
                           !.reqs = [k \in DOMAIN reqs |-> [req |-> reqs[k], source |-> 0]]]

\* MPI_Wait and MPI_Waitall return, MPI_Test and MPI_Testall return true, when
\* all the requests are complete.
Complete(p) ==
    /\ Calling(p, {"Wait", "Test", "Waitall", "Testall"})
    /\ Finished(p) /\ Asserted(Returned(p))
    /\ LET c == Current(p)
           s == FinishAll([posted |-> posted[p], delivered |-> delivered[p]], ReqsOf(c), c.status)
       IN  /\ delivered' = [delivered EXCEPT ![p] = s.delivered]
           /\ posted' = [posted EXCEPT ![p] = s.posted]
    /\ notify(p, Returned(p))
    /\ UNCHANGED network

\* MPI_Test and MPI_Testall may return false as long as a request is active;
\* the application goes on, or repeats the call when it asks for done.
NotYet(p) ==
    /\ Calling(p, {"Test", "Testall"})
    /\ Unfinished(p) /\ Asserted(Returned_not(p))
    /\ notified(p, Returned_not(p))
    /\ pc' = IF Current(p).done THEN pc ELSE [pc EXCEPT ![p] = @ + 1]
    /\ UNCHANGED <<prog, network, posted, delivered, killed>>

\* An assertion of the hook fails and ends the process; what the call did to
\* its requests and buffers goes with it.
Killed(p) ==
    /\ Calling(p, {"Wait", "Test", "Waitall", "Testall"})
    /\ \/ Finished(p) /\ ~Asserted(Returned(p))
       \/ Unfinished(p) /\ ~Asserted(Returned_not(p))
    /\ killed' = killed \cup {p}
    /\ UNCHANGED running

Next == \/ \E p \in Procs : \/ Send(p) \/ Irecv(p) \/ Recv(p) \/ Collective(p)
                          \/ Complete(p) \/ NotYet(p) \/ Killed(p)
        \/ \E k \in DOMAIN network : Match(k)
Spec == Init /\ [][Next]_vars

--------------------------------------------------------------------------------
(* Which programs the properties are about. *)

Starting == {"Isend", "Irecv"} \cup NonBlocking
Completes(c, req) ==
    /\ c.name \in {"Wait", "Waitall"} \/ (c.name \in {"Test", "Testall"} /\ c.done)
    /\ \E k \in DOMAIN ReqsOf(c) : ReqsOf(c)[k] = req
\* The variable of a request is used again only behind a call that completes
\* it, and an array of requests names each one once.
Lawful(s) ==
    /\ \A i, j \in DOMAIN s :
          (i < j /\ {s[i].name, s[j].name} \subseteq Starting /\ s[i].req = s[j].req)
              => \E k \in i + 1..j - 1 : Completes(s[k], s[i].req)
    /\ \A k \in DOMAIN s : \A i, j \in DOMAIN s[k].reqs : s[k].reqs[i] = s[k].reqs[j] => i = j
\* A message goes to a process.
Addressed(s) == \A k \in DOMAIN s : s[k].name \in {"Send", "Isend"} => s[k].other \in Procs
\* Every process takes part in each collective operation: its calls correspond
\* to those of process 0, name the same root, a process, and the same size, what
\* is sent is what is asked for, and the communicator is MPI_COMM_WORLD.
CollectiveAt(s) == {k \in DOMAIN s : HookClass(s[k].name) \in {"ROOTED", "GATHER", "PAIRS", "ALLREDUCE"}}
Corresponds(c, d) == c.name = d.name /\ c.root = d.root /\ c.bytes = d.bytes
Joint(s) ==
    \A p \in Procs :
        /\ \A k \in CollectiveAt(s[p]) :
              /\ HookClass(s[p][k].name) \in {"ROOTED", "GATHER"} => s[p][k].root \in Procs
              /\ HookClass(s[p][k].name) \in {"GATHER", "PAIRS"} => s[p][k].recvbytes = s[p][k].bytes
              /\ s[p][k].comm_size = N
        /\ \E h \in Bijection(CollectiveAt(s[0]), CollectiveAt(s[p])) :
              \A k \in CollectiveAt(s[0]) : Corresponds(s[0][k], s[p][h[k]])

--------------------------------------------------------------------------------
\* Where a receive is known to be from: a blocking one by its argument, one that
\* is completed by the status; nobody knows it of MPI_ANY_SOURCE and without one.
Origin(x) == IF x.known THEN x.source ELSE ANY_SOURCE
From(p, s) == {k \in DOMAIN delivered[p] : Origin(delivered[p][k]) = s}
Buffers(p) == [k \in DOMAIN delivered[p] |-> delivered[p][k].buffer]
Bytes(p) == [k \in DOMAIN delivered[p] |-> delivered[p][k].bytes]
Filled(p) == \A k \in DOMAIN delivered[p] : delivered[p][k].bytes = delivered[p][k].buffer

\* The communication vector of a process has an entry for each process that it
\* is known to have received from, whatever source the receive was posted for and
\* whenever it completes: as many messages as MPI delivered from there, the bytes
\* of their buffers, and of the messages where these fill their buffers. Receives
\* of unknown origin are all under (unsigned)-1, the number of no process, written -1
\* here; no other is. The vector adds up to the received totals.
MatrixExact ==
    \A p \in Procs :
        LET m == data[p].matrixReceived
        IN  /\ DOMAIN m = {Origin(delivered[p][k]) : k \in DOMAIN delivered[p]}
            /\ \A s \in DOMAIN m : /\ m[s].messages = Cardinality(From(p, s))
                                   /\ m[s].bytes = SumFunctionOnSet(Buffers(p), From(p, s))
                                   /\ Filled(p) => m[s].bytes = SumFunctionOnSet(Bytes(p), From(p, s))
            /\ data[p].receivedBytes = SumFunctionOnSet(Buffers(p), DOMAIN delivered[p])
            /\ data[p].totalReceivedMessages = Len(delivered[p])

\* What the vector is said to be (MPIdata.h:54): by process, the bytes and the
\* number of the messages received from it.
VectorOfReceived ==
    \A p, s \in Procs :
        LET m == data[p].matrixReceived
            from == {k \in DOMAIN delivered[p] : delivered[p][k].source = s}
        IN  from # {} => /\ s \in DOMAIN m
                         /\ m[s].messages = Cardinality(from)
                         /\ m[s].bytes = SumFunctionOnSet(Bytes(p), from)

\* The three lists hold the active requests of the process in the order they
\* were started, and no completion is reported for a request they do not know.
Mirrors(list, requests, kind) ==
    LET Same(i, a) == requests[a].kind = kind /\ list[i].req = requests[a].req
    IN  /\ \A i \in DOMAIN list : \E a \in DOMAIN requests : Same(i, a)
        /\ \A a \in DOMAIN requests : requests[a].kind = kind => \E i \in DOMAIN list : Same(i, a)
        /\ \A i, j \in DOMAIN list, a, b \in DOMAIN requests : Same(i, a) /\ Same(j, b) => (i < j <=> a < b)
RequestsMirrored ==
    \A p \in Procs :
        /\ ~data[p].aborted
        /\ Mirrors(data[p].async_send, posted[p], "send")
        /\ Mirrors(data[p].async_recv, posted[p], "recv")
        /\ Mirrors(data[p].async_other, posted[p], "other")

\* When every process is through, without a request left, and every message
\* filled its buffer, as many bytes and messages were sent as received; a gather
\* or an all-to-all is received in full, an all-gather once per process, a
\* broadcast once per process but one.
Through == network = <<>> /\ \A p \in Procs : pc[p] > Len(prog[p]) /\ posted[p] = <<>> /\ Filled(p)
AllOf(v) == SumFunctionOnSet([p \in Procs |-> data[p].collective[v]], Procs)
VolumesBalance ==
    Through =>
        /\ SumFunctionOnSet([p \in Procs |-> data[p].sentBytes], Procs)
             = SumFunctionOnSet([p \in Procs |-> data[p].receivedBytes], Procs)
        /\ SumFunctionOnSet([p \in Procs |-> data[p].totalSentMessages], Procs)
             = SumFunctionOnSet([p \in Procs |-> data[p].totalReceivedMessages], Procs)
        /\ AllOf("gatherSent") = AllOf("gatherReceived")
        /\ AllOf("alltoallSent") = AllOf("alltoallReceived")
        /\ N * AllOf("allgatherSent") = AllOf("allgatherReceived")
        /\ (N - 1) * AllOf("bcastSent") = AllOf("bcastReceived")
        /\ (N - 1) * AllOf("reduceRoot") = AllOf("reduceNotRoot")
================================================================================
