------------------------------- MODULE MPImap -------------------------------
(***************************************************************************)
(* Matching of MPI calls in the analysis server (MPImap.cc).               *)
(*                                                                         *)
(* The consumer thread of each process handles that process's MPI calls in *)
(* order.  Consumers meet in a shared database of two lists, s_call and    *)
(* r_call (db_lock): a call puts entries for itself and then asks, again   *)
(* and again, for the entries of its partners.  A query that finds nothing *)
(* changes nothing, so here a get is taken when there is something to get. *)
(*                                                                         *)
(* One step is one section under db_lock; what happens between them is     *)
(* private to the consumer.  Instruction counts: each call, and each entry *)
(* to or exit from the analysed functions, follows one new instruction, so *)
(* that getNumTotalInsts() is the number of these events.                  *)
(***************************************************************************)
EXTENDS MPInotify, FiniteSets, SequencesExt

CONSTANTS
    N,           \* number of processes, ranks 0..N-1
    Programs,    \* the sets of calls considered: program[p] is a sequence of
                 \* calls, call.ev the communication it belongs to
    AccMode      \* accMode: 1 adds up the instructions between failed tests

Procs == 0..N - 1
\* A call, or the entry to ("enter") or exit from ("leave") the functions.
Calls == [name : Routines \cup {"enter", "leave"}, other : Int, tag : Int, other2 : Int, tag2 : Int,
          root : Int, bytes : Nat, recvbytes : Nat, req : Int, status : BOOLEAN, source : Int, done : BOOLEAN,
          reqs : Seq(Int), comm_size : Nat, ev : Int]

ASSUME NAssumption == N \in Nat \ {0}
ASSUME AccModeAssumption == AccMode \in {0, 1}
ASSUME ProgramsAssumption == \A s \in Programs : s \in [Procs -> Seq(Calls)]

VARIABLES
    program,     \* the calls of each process, fixed in Init
    index,       \* number of calls whose handling has begun
    ops,         \* what is left to do of the call: puts, gets and takes
    s_call, r_call,          \* the database
    async_send, async_recv,  \* open requests of each process
    mode, tmpDelta,          \* instructions held back between MPI_Tests
    inFunction,  \* inside the analysed functions
    previousCount,           \* instructions counted at the last call or entry
    dif,         \* update.dif of the call in progress
    inside,      \* instructions executed inside them, up to the last call
    printed,     \* sum of the bursts (dim:1 records) printed
    found        \* <<querying call, call of the entry>>, by communication

vars == <<program, index, ops, s_call, r_call, async_send, async_recv, mode,
          tmpDelta, inFunction, previousCount, dif, inside, printed, found>>
dbVars == <<s_call, r_call, found>>
localVars == <<async_send, async_recv, mode, tmpDelta, inFunction, previousCount, dif, inside>>

Init ==
    /\ program \in Programs
    /\ index = [p \in Procs |-> 0]
    /\ ops = [p \in Procs |-> <<>>]
    /\ s_call = <<>> /\ r_call = <<>>
    /\ async_send = [p \in Procs |-> <<>>]
    /\ async_recv = [p \in Procs |-> <<>>]
    /\ mode = [p \in Procs |-> 0]
    /\ tmpDelta = [p \in Procs |-> 0]
    /\ inFunction = [p \in Procs |-> 0]
    /\ previousCount = [p \in Procs |-> 0]
    /\ dif = [p \in Procs |-> 0]
    /\ inside = [p \in Procs |-> 0]
    /\ printed = [p \in Procs |-> 0]
    /\ found = {}

-----------------------------------------------------------------------------
(* The database.                                                           *)

Entry(s, r, t) == [id_s |-> s, id_r |-> r, tag |-> t]
Op(do, db, e) == [do |-> do, db |-> db, e |-> e]

\* Tags may be ANY_TAG in a receive.
ANY_TAG == -1

items_are_equal(a, b) ==
    /\ a.id_s = b.id_s \/ ANY_SOURCE \in {a.id_s, b.id_s}
    /\ a.id_r = b.id_r
    /\ a.tag = b.tag \/ ANY_TAG \in {a.tag, b.tag}

List(db) == IF db = "s" THEN s_call ELSE r_call
Matches(db, e) == {k \in 1..Len(List(db)) : items_are_equal(List(db)[k].e, e)}
\* mutant: the newest entry is taken
first_match_m(db, e) == CHOOSE k \in Matches(db, e) : \A j \in Matches(db, e) : j <= k
\* The list is searched from its front.
first_match(db, e) == CHOOSE k \in Matches(db, e) : \A j \in Matches(db, e) : k <= j

SetList(db, l) ==
    IF db = "s" THEN s_call' = l /\ UNCHANGED r_call
                ELSE r_call' = l /\ UNCHANGED s_call

This(p) == program[p][index[p]]

\* The burst that send_query_and_update prints with each answer.
Burst(p, n) == printed' = [printed EXCEPT ![p] = @ + inFunction[p] * n]

send_msg_to_db(p) ==
    /\ ops[p] # <<>> /\ Head(ops[p]).do = "put"
    /\ LET op == Head(ops[p])
       IN  SetList(op.db, Append(List(op.db), [e |-> op.e, ev |-> This(p).ev]))
    /\ ops' = [ops EXCEPT ![p] = Tail(@)]
    /\ UNCHANGED <<program, index, localVars, printed, found>>

Removed(p, op) ==
    LET k == first_match(op.db, op.e)
    IN  /\ SetList(op.db, RemoveAt(List(op.db), k))
        /\ found' = found \cup {<<This(p).ev, List(op.db)[k].ev>>}

\* recv_msg_from_db in the loop of send_query_and_update.
send_query_and_update(p) ==
    /\ ops[p] # <<>> /\ Head(ops[p]).do = "get"
    /\ LET op == Head(ops[p])
       IN  Matches(op.db, op.e) # {} /\ Removed(p, op)
    /\ Burst(p, dif[p])
    /\ ops' = [ops EXCEPT ![p] = Tail(@)]
    /\ UNCHANGED <<program, index, localVars>>

\* A successful MPI_Test of a receive removes the entry of the send, if any.
test_removes(p) ==
    /\ ops[p] # <<>> /\ Head(ops[p]).do = "take"
    /\ LET op == Head(ops[p])
       IN  IF Matches(op.db, op.e) = {} THEN UNCHANGED dbVars ELSE Removed(p, op)
    /\ ops' = [ops EXCEPT ![p] = Tail(@)]
    /\ UNCHANGED <<program, index, localVars, printed>>

-----------------------------------------------------------------------------
(* What each call does with the database (update_MPI_... and the extract_  *)
(* functions that prepare their entries).  p is processor_id.              *)

Others(p, n) == [k \in 1..n - 1 |-> IF k <= p THEN k - 1 ELSE k]
\* send_msg_to_all_comm and send_query_and_update_comm with p as the sender
\* or as the receiver, and the entry for p itself where the caller adds it.
AsSender(p, n, do, db) == [k \in 1..n - 1 |-> Op(do, db, Entry(p, Others(p, n)[k], 0))]
AsReceiver(p, n, do, db) == [k \in 1..n - 1 |-> Op(do, db, Entry(Others(p, n)[k], p, 0))]
Self(p, do, db) == <<Op(do, db, Entry(p, p, 0))>>

PutS(e) == Op("put", "s", e)
PutR(e) == Op("put", "r", e)
GetS(e) == Op("get", "s", e)
GetR(e) == Op("get", "r", e)

update_MPI_Send(p, m) ==
    LET e == Entry(p, m.other, m.tag) IN <<PutS(e), GetR(e)>>

update_MPI_Recv(p, m) ==
    LET e == Entry(m.other, p, m.tag) IN <<PutR(e), GetS(e)>>

\* mutant: the send is completed before the receive is put
update_MPI_Sendrecv_m(p, m) ==
    LET s == Entry(p, m.other, m.tag)
        r == Entry(m.other2, p, m.tag2)
    IN  <<PutS(s), GetR(s), PutR(r), GetS(r)>>
update_MPI_Sendrecv(p, m) ==
    LET s == Entry(p, m.other, m.tag)
        r == Entry(m.other2, p, m.tag2)
    IN  <<PutS(s), PutR(r), GetR(s), GetS(r)>>

\* The root is the process that msg->other names.
update_MPI_Bcast(p, m) ==
    IF m.other = p
    THEN AsSender(p, m.comm_size, "put", "s") \o AsSender(p, m.comm_size, "get", "r")
    ELSE LET e == Entry(m.other, p, 0) IN <<PutR(e), GetS(e)>>

update_MPI_Reduce(p, m) ==
    LET e == Entry(p, m.other, 0)
        root == AsReceiver(p, m.comm_size, "put", "r") \o Self(p, "put", "r")
                  \o AsReceiver(p, m.comm_size, "get", "s") \o Self(p, "get", "s")
    IN  <<PutS(e)>> \o (IF m.other = p THEN root ELSE <<>>) \o <<GetR(e)>>

update_MPI_Allreduce(p, m) ==
    AsSender(p, m.comm_size, "put", "s") \o Self(p, "put", "s")
      \o AsReceiver(p, m.comm_size, "put", "r") \o Self(p, "put", "r")
      \o AsReceiver(p, m.comm_size, "get", "s") \o Self(p, "get", "s")
      \o AsSender(p, m.comm_size, "get", "r") \o Self(p, "get", "r")

update_MPI_Scatter(p, m) ==
    LET e == Entry(m.other, p, 0)
        root == AsSender(p, m.comm_size, "put", "s") \o Self(p, "put", "s")
                  \o AsSender(p, m.comm_size, "get", "r") \o Self(p, "get", "r")
    IN  <<PutR(e)>> \o (IF m.other = p THEN root ELSE <<>>) \o <<GetS(e)>>

\* update_info reaches update_MPI_Isend twice; update_MPI_Irecv puts nothing.
update_MPI_Isend(p, m) ==
    LET e == Entry(p, m.other, m.tag) IN <<PutS(e), PutS(e)>>

\* A successful MPI_Test of a receive: its entry, with the real source.
Holds(list, req) == \E k \in 1..Len(list) : list[k].req = req
Request(list, req) == CHOOSE k \in 1..Len(list) :
                        list[k].req = req /\ \A j \in 1..k - 1 : list[j].req # req
test_ops(p, m) ==
    LET r == async_recv[p][Request(async_recv[p], m.req)]
    IN  IF ~m.flag \/ Holds(async_send[p], m.req) THEN <<>>
        ELSE <<Op("take", "s", Entry(IF r.other = ANY_SOURCE THEN m.source ELSE r.other, p, r.tag))>>

update_info(p, m) ==
    CASE m.name = "Send" -> update_MPI_Send(p, m)
      [] m.name = "Recv" -> update_MPI_Recv(p, m)
      [] m.name \in {"Sendrecv", "Sendrecv_replace"} -> update_MPI_Sendrecv(p, m)
      [] m.name = "Isend" -> update_MPI_Isend(p, m)
      [] m.name = "Test" -> test_ops(p, m)
      [] m.name = "Bcast" -> update_MPI_Bcast(p, m)
      [] m.name \in {"Reduce", "Gather", "Gatherv"} -> update_MPI_Reduce(p, m)
      [] m.name \in {"Allgather", "Alltoall", "Alltoallv"} -> update_MPI_Allreduce(p, m)
      [] m.name \in {"Scatter", "Scatterv"} -> update_MPI_Scatter(p, m)
      [] OTHER -> <<>>

-----------------------------------------------------------------------------
(* visit: the local part of a call.                                        *)

NextCall(p) == program[p][index[p] + 1]
Ready(p) == ops[p] = <<>> /\ index[p] < Len(program[p])
total(p) == index[p] + 1
since(p) == total(p) - previousCount[p]
Begin(p, m) ==
    /\ index' = [index EXCEPT ![p] = @ + 1]
    /\ dif' = [dif EXCEPT ![p] = since(p)]
    /\ previousCount' = [previousCount EXCEPT ![p] = total(p)]
    /\ ops' = [ops EXCEPT ![p] = update_info(p, m)]
    /\ inside' = [inside EXCEPT ![p] = @ + inFunction[p]]
    /\ UNCHANGED <<program, inFunction, dbVars>>

\* Blocking calls and collectives print their bursts with the answers.
visit_blocking(p) ==
    /\ Ready(p)
    /\ NextCall(p).name \notin {"Isend", "Irecv", "Wait", "Test", "Init", "Finalize",
                             "enter", "leave"}
    /\ Begin(p, mpi_update_db(NextCall(p)))
    /\ UNCHANGED <<async_send, async_recv, mode, tmpDelta, printed>>

\* MPI_Init and MPI_Finalize print their burst whether inside or not.
visit_init_finalize(p) ==
    /\ Ready(p)
    /\ NextCall(p).name \in {"Init", "Finalize"}
    /\ Begin(p, mpi_update_db(NextCall(p)))
    /\ printed' = [printed EXCEPT ![p] = @ + since(p)]
    /\ UNCHANGED <<async_send, async_recv, mode, tmpDelta>>

\* MPI_Isend and MPI_Irecv; held back instructions go to their burst.
held_back(p) == IF mode[p] = 1 THEN tmpDelta[p] + AccMode * since(p) ELSE since(p)
visit_async(p) ==
    /\ Ready(p)
    /\ NextCall(p).name \in {"Isend", "Irecv"}
    /\ LET m == mpi_update_db(NextCall(p))
           info == [req |-> m.req, other |-> m.other, tag |-> m.tag]
       IN  /\ Begin(p, m)
           /\ IF m.name = "Isend"
              THEN /\ async_send' = [async_send EXCEPT ![p] = Append(@, info)]
                   /\ UNCHANGED async_recv
              ELSE /\ async_recv' = [async_recv EXCEPT ![p] = Append(@, info)]
                   /\ UNCHANGED async_send
    /\ Burst(p, held_back(p))
    /\ tmpDelta' = IF mode[p] = 1 THEN [tmpDelta EXCEPT ![p] = 0] ELSE tmpDelta
    /\ UNCHANGED mode

\* extract_MPI_Wait: the request is looked for among the sends first.
Completed(p, m) ==
    IF Holds(async_send[p], m.req)
    THEN /\ async_send' = [async_send EXCEPT ![p] = RemoveAt(@, Request(@, m.req))]
         /\ UNCHANGED async_recv
    ELSE /\ Holds(async_recv[p], m.req)      \* asserted
         /\ async_recv' = [async_recv EXCEPT ![p] = RemoveAt(@, Request(@, m.req))]
         /\ UNCHANGED async_send

visit_wait(p) ==
    /\ Ready(p)
    /\ NextCall(p).name = "Wait"
    /\ Asserted(NextCall(p))
    /\ LET m == mpi_update_db(NextCall(p)) IN Begin(p, m) /\ Completed(p, m)
    /\ Burst(p, since(p))
    /\ UNCHANGED <<mode, tmpDelta>>

\* mutant: its own instructions are forgotten
test_delta_m(p) == IF mode[p] = 1 THEN tmpDelta[p] ELSE since(p)
\* A test that succeeds prints what was held back and its own instructions; of
\* a receive it needs the source, which it does not have without a status.
test_delta(p) == held_back(p)
visit_test_true(p) ==
    /\ Ready(p)
    /\ NextCall(p).name = "Test" /\ NextCall(p).done
    /\ Asserted(NextCall(p))
    /\ LET m == mpi_update_db(NextCall(p))
       IN  /\ Holds(async_send[p], m.req) \/ m.source >= 0      \* asserted
           /\ Begin(p, m) /\ Completed(p, m)
    /\ tmpDelta' = [tmpDelta EXCEPT ![p] = test_delta(p)]
    /\ mode' = [mode EXCEPT ![p] = 0]
    /\ Burst(p, test_delta(p))

\* A test that fails holds back its instructions.
visit_test_false(p) ==
    /\ Ready(p)
    /\ NextCall(p).name = "Test" /\ ~NextCall(p).done
    /\ Begin(p, mpi_update_db(NextCall(p)))
    /\ tmpDelta' = [tmpDelta EXCEPT ![p] = held_back(p)]
    /\ mode' = [mode EXCEPT ![p] = 1]
    /\ UNCHANGED <<async_send, async_recv, printed>>

\* visit(NULL, NULL, 0, inFunction): entry to and exit from the functions.
\* The exit returns before it sets previousCount.
visit_function(p) ==
    /\ Ready(p)
    /\ NextCall(p).name \in {"enter", "leave"}
    /\ index' = [index EXCEPT ![p] = @ + 1]
    /\ inFunction' = [inFunction EXCEPT ![p] = IF NextCall(p).name = "enter" THEN 1 ELSE 0]
    /\ inside' = [inside EXCEPT ![p] = @ + inFunction[p]]
    /\ IF NextCall(p).name = "leave"
       THEN /\ printed' = [printed EXCEPT ![p] = @ + since(p)]
            /\ UNCHANGED previousCount
       ELSE /\ previousCount' = [previousCount EXCEPT ![p] = total(p)]
            /\ UNCHANGED printed
    /\ UNCHANGED <<program, ops, async_send, async_recv, mode, tmpDelta, dif, dbVars>>

Done(p) == index[p] = Len(program[p]) /\ ops[p] = <<>>
AllDone == \A p \in Procs : Done(p)

Step(p) ==
    \/ visit_blocking(p) \/ visit_init_finalize(p) \/ visit_async(p)
    \/ visit_wait(p) \/ visit_test_true(p) \/ visit_test_false(p)
    \/ visit_function(p)
    \/ send_msg_to_db(p) \/ send_query_and_update(p) \/ test_removes(p)

Next == \E p \in Procs : Step(p)

\* Each consumer is a thread that is scheduled again and again.
Fairness == \A p \in Procs : WF_vars(Step(p))
Spec == Init /\ [][Next]_vars /\ Fairness

-----------------------------------------------------------------------------
(* Which programs the properties are about.                                *)

\* Is a process in the functions, or between a failed test and one that
\* succeeds, when it is through with the first k calls of s?
Within(s, k) == \E j \in 1..k : s[j].name = "enter" /\ \A i \in j + 1..k : s[i].name # "leave"
Succeeds(c) == c.name = "Test" /\ c.done
Testing(s, k) == \E j \in 1..k : /\ s[j].name = "Test" /\ ~s[j].done
                                /\ \A i \in j + 1..k : ~Succeeds(s[i])
\* Entries and exits take turns, MPI_Init and MPI_Finalize are called in the
\* functions, and so is what starts or tests a request while one is tested.
Framed(s) ==
    \A k \in 1..Len(s) :
        /\ s[k].name = "enter" => ~Within(s, k - 1)
        /\ s[k].name \in {"leave", "Init", "Finalize"} => Within(s, k - 1)
        /\ s[k].name \in {"Isend", "Irecv", "Test"} /\ (Testing(s, k - 1) \/ Testing(s, k)) => Within(s, k - 1)

\* The blocking calls that put entries into the database.
Sending == {"Send", "Sendrecv", "Sendrecv_replace"}
Receiving == {"Recv", "Sendrecv", "Sendrecv_replace"}
Collective == {"Bcast", "Reduce", "Gather", "Gatherv", "Scatter", "Scatterv", "Allgather", "Alltoall", "Alltoallv"}
Source(c) == IF c.name = "Recv" THEN c.other ELSE c.other2
SourceTag(c) == IF c.name = "Recv" THEN c.tag ELSE c.tag2
Transfer(a, b, p, q) ==     \* call a of p sends what call b of q receives
    /\ a.name \in Sending /\ a.other = q
    /\ b.name \in Receiving /\ Source(b) = p /\ SourceTag(b) \in {a.tag, ANY_TAG}
    /\ a.ev = b.ev
Joint(a, b) == <<a.name, a.root, a.comm_size, a.ev>> = <<b.name, b.root, b.comm_size, b.ev>>

\* A history of communications, numbered in an order that every process keeps
\* to: what is sent is received from that very process, and the processes of
\* a communicator take part in the same collective calls.
InHistory(s, p, c) ==
    /\ c.name \in Sending => /\ c.other \in Procs
                             /\ \E k \in 1..Len(s[c.other]) : Transfer(c, s[c.other][k], p, c.other)
    /\ c.name \in Receiving => /\ Source(c) \in Procs
                               /\ \E k \in 1..Len(s[Source(c)]) : Transfer(s[Source(c)][k], c, Source(c), p)
    /\ c.name \in Collective => /\ p < c.comm_size /\ c.comm_size <= N /\ c.root \in 0..c.comm_size - 1
                                /\ \A q \in 0..c.comm_size - 1 :
                                      \E k \in 1..Len(s[q]) : Joint(s[q][k], c)
History(s) ==
    \A p \in Procs :
        /\ \A k \in 1..Len(s[p]) : InHistory(s, p, s[p][k])
        /\ \A j, k \in 1..Len(s[p]) :
              (j < k /\ {s[p][j].name, s[p][k].name} \subseteq Sending \cup Receiving \cup Collective)
                  => s[p][j].ev < s[p][k].ev

-----------------------------------------------------------------------------
(* Properties.                                                             *)

Names(p) == {program[p][k].name : k \in 1..Len(program[p])}
NonBlocking == {"Isend", "Irecv", "Wait", "Test"}
PointToPoint == NonBlocking \cup {"Send", "Recv", "Init", "Finalize", "enter", "leave"}
Blocking == \A p \in Procs : Names(p) \cap NonBlocking = {}

\* In a program of blocking calls and collectives a call is matched with an
\* entry of the very communication it takes part in (recv_msg_from_db takes
\* the first entry of the pair, whichever call put it), and, at the end, no
\* entry is left to be taken by anybody else.
Matched ==
    Blocking => /\ \A f \in found : f[1] = f[2]
                /\ AllDone => s_call = <<>> /\ r_call = <<>>

\* The instruction bursts of a process's trace add up to the instructions it
\* executed in the analysed functions: with accMode, none of those between
\* failed MPI_Tests is lost, whatever calls come between.
BurstsAddUp ==
    \A p \in Procs :
        (Names(p) \subseteq PointToPoint /\ Done(p) /\ mode[p] = 0)
            => printed[p] = inside[p]

\* Every consumer gets through all its MPI calls: no query is repeated for
\* ever in send_query_and_update.
AllServed == <>AllDone
=============================================================================
