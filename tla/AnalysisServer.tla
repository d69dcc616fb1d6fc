--------------------------- MODULE AnalysisServer ---------------------------
(***************************************************************************)
(* The decoupled analysis of IBM-PISA: N instrumented MPI processes (the   *)
(* clients, library/libanalysisDecoupled.cc) stream notifications over one *)
(* TCP connection each to the analysis server (library/server.cc), whose   *)
(* main thread accepts connections and moves messages into one queue per   *)
(* connection, and which runs one queue_consumer thread per connection.    *)
(*                                                                         *)
(* Every rank opens exactly one connection, so connections, their          *)
(* connection_data and their consumer threads are named by the rank at the *)
(* other end.  The server does not know that name: it knows a file         *)
(* descriptor (fdOf) and a thread_id (tid), which starts as the order of   *)
(* acceptance and becomes the rank when MPI_UPDATE_PROCESS_ID is handled.  *)
(*                                                                         *)
(* A message is <<r, k>>: the k-th notification rank r sends.  Number 0 is *)
(* MPI_UPDATE_PROCESS_ID; number k >= 1 has the type Script[r][k].         *)
(***************************************************************************)
EXTENDS Naturals, Sequences, FiniteSets

CONSTANTS
    N,            \* number of MPI processes
    Script,       \* Script[r]: what rank r sends after its process id
    ListenFirst   \* TRUE: epoll reports the listening socket first, as
                  \* Linux does here; FALSE: events come in any order

Ranks == 0..(N - 1)

\* enum message types, grouped by what the consumer does with them.  "WORK"
\* is MEM_ADDR_NOTIFICATION and MPI_CALL_NOTIFICATION, "EXIT" a basic block
\* that calls exit().
ScriptTypes == {"FUNC", "BB", "WORK", "EXIT", "END"}

ASSUME NAssumption == N \in Nat \ {0}
ASSUME ScriptAssumption == Script \in [Ranks -> Seq(ScriptTypes)]
ASSUME ListenFirstAssumption == ListenFirst \in BOOLEAN
\* A process sends nothing after end_app or exit().
ASSUME EndAssumption ==
    \A r \in Ranks : \A k \in 1..Len(Script[r]) :
        Script[r][k] \in {"END", "EXIT"} => k = Len(Script[r])

Listen == N                      \* the listening socket among the events
Messages == Ranks \X Nat
TypeOf(m) == IF m[2] = 0 THEN "PID" ELSE Script[m[1]][m[2]]
Analysed(m) == TypeOf(m) \in {"BB", "WORK", "EXIT"}

VARIABLES
    \* clients and the kernel between them and the server
    client,          \* client[r]: where the instrumented process is
    sent,            \* sent[r]: notifications written to its socket
    rcvd,            \* rcvd[r]: of those, the ones recv_msg has read
    backlog,         \* connected sockets that accept() has not returned yet
    \* the main thread
    main,            \* "poll", "round" or "spin" (after the loop)
    events,          \* events of this epoll_wait still to be handled
    accepted,        \* ranks whose connection was accepted
    open,            \* of those, the ones whose descriptor is not closed
    fdOf,            \* descriptor accept() returned for the connection
    threads_data,    \* descriptor -> connection_data (named by rank)
    thread_counter,
    \* the consumers
    pc, tid, msg, queue, taken,
    word,            \* word of InitializedThreads loaded by a half-done store
    \* shared by all threads
    should_stop,     \* bits that are set, past the vector's end too
    InitializedThreads,
    WKLDcharForThreads,
    toDump,
    counted,         \* counted[r]: what r's consumer made of toDump
    buffer,          \* buffer[r]: slots the JSONmanager of r's consumer printed
    file,            \* the output file: see FileStates
    written,         \* the slots in it, once it is written
    server           \* "up", "exiting" (exit() is running) or "gone"

clientVars == <<client, sent, backlog>>
mainVars == <<main, events, rcvd, accepted, open, fdOf, threads_data,
              thread_counter>>
threadVars == <<pc, tid, msg, taken, word>>
profileVars == <<InitializedThreads, WKLDcharForThreads>>
endVars == <<toDump, counted, buffer, file, written, server>>
vars == <<clientVars, mainVars, threadVars, queue, should_stop, profileVars,
          endVars>>

NoMsg == <<0, 0>>
NoProfile == [processor |-> 0, log |-> <<>>]
NoSlots == [t \in {} |-> NoProfile]

\* should_stop and InitializedThreads are vector<bool>.  The bits of
\* should_stop behind its size are uninitialised memory.
Init ==
    /\ client = [r \in Ranks |-> "init"]
    /\ sent = [r \in Ranks |-> 0]
    /\ rcvd = [r \in Ranks |-> 0]
    /\ backlog = <<>>
    /\ main = "poll"
    /\ events = {}
    /\ accepted = {}
    /\ open = {}
    /\ fdOf = [r \in Ranks |-> 0]
    /\ threads_data = [f \in Ranks |-> 0]
    /\ thread_counter = 0
    /\ pc = [r \in Ranks |-> "none"]
    /\ tid = [r \in Ranks |-> 0]
    /\ msg = [r \in Ranks |-> NoMsg]
    /\ queue = [r \in Ranks |-> <<>>]
    /\ taken = [r \in Ranks |-> 0]
    /\ word = [r \in Ranks |-> {}]
    /\ should_stop \in SUBSET Ranks
    /\ InitializedThreads = {}
    /\ WKLDcharForThreads = [t \in Ranks |-> NoProfile]
    /\ toDump = 0
    /\ counted = [r \in Ranks |-> 0]
    /\ buffer = [r \in Ranks |-> NoSlots]
    /\ file = "none"
    /\ written = NoSlots
    /\ server = "up"

-----------------------------------------------------------------------------
(* The clients.                                                            *)

\* init_libanalysis: connect() returns as soon as the kernel has queued the
\* connection; the server need not have accepted it.
init_libanalysis(r) ==
    /\ server = "up"
    /\ client[r] = "init"
    /\ client' = [client EXCEPT ![r] = "connected"]
    /\ backlog' = Append(backlog, r)
    /\ UNCHANGED <<sent, mainVars, threadVars, queue, should_stop,
                   profileVars, endVars>>

\* mpi_update_process_id: MPI_Barrier, send the rank, MPI_Barrier.
mpi_update_process_id(r) ==
    /\ server # "gone"
    /\ client[r] = "connected"
    /\ \A q \in Ranks : client[q] # "init"
    /\ client' = [client EXCEPT ![r] = "running"]
    /\ sent' = [sent EXCEPT ![r] = @ + 1]
    /\ UNCHANGED <<backlog, mainVars, threadVars, queue, should_stop,
                   profileVars, endVars>>

\* Where the process is once it has sent a message of type ty.
after_send(ty) == IF ty = "END" THEN "ended"
                  ELSE IF ty = "EXIT" THEN "closed" ELSE "running"

\* inst_notification, update_vars, func_address, process_msg and the first
\* half of end_app: all past the second barrier.  A process that calls
\* exit() goes away without end_app.
send_msg(r) ==
    /\ server # "gone"
    /\ client[r] = "running"
    /\ \A q \in Ranks : sent[q] > 0
    /\ sent[r] <= Len(Script[r])
    /\ sent' = [sent EXCEPT ![r] = @ + 1]
    /\ client' = [client EXCEPT ![r] = after_send(Script[r][sent[r]])]
    /\ UNCHANGED <<backlog, mainVars, threadVars, queue, should_stop,
                   profileVars, endVars>>

\* The write fails once the server process is gone: exit(EXIT_FAILURE).
send_fails(r) ==
    /\ server = "gone"
    /\ client[r] \in {"connected", "running"}
    /\ client' = [client EXCEPT ![r] = "failed"]
    /\ UNCHANGED <<sent, backlog, mainVars, threadVars, queue, should_stop,
                   profileVars, endVars>>

\* MPI_Finalize at the end of end_app, then the process exits and the
\* kernel closes its socket.
MPI_Finalize(r) ==
    /\ client[r] = "ended"
    /\ \A q \in Ranks : client[q] \in {"ended", "closed"}
    /\ client' = [client EXCEPT ![r] = "closed"]
    /\ UNCHANGED <<sent, backlog, mainVars, threadVars, queue, should_stop,
                   profileVars, endVars>>

Client(r) == \/ init_libanalysis(r)
             \/ mpi_update_process_id(r)
             \/ send_msg(r)
             \/ send_fails(r)
             \/ MPI_Finalize(r)

-----------------------------------------------------------------------------
(* The main thread.                                                        *)

checkStoppingCondition ==
    /\ thread_counter > 0
    /\ 0..(thread_counter - 1) \subseteq should_stop

Readable(r) == rcvd[r] < sent[r] \/ client[r] = "closed"

Ready == {r \in open : Readable(r)}
         \cup IF backlog # <<>> /\ server = "up" THEN {Listen} ELSE {}

\* One evaluation of the loop condition and, when it does not hold, the
\* epoll_wait that follows.  A wait that times out changes nothing.
main_poll ==
    /\ server # "gone"
    /\ main = "poll"
    /\ \/ /\ checkStoppingCondition
          /\ main' = "spin"
          /\ UNCHANGED events
       \/ /\ ~checkStoppingCondition
          /\ Ready # {}
          /\ events' = Ready
          /\ main' = "round"
    /\ UNCHANGED <<clientVars, rcvd, accepted, open, fdOf, threads_data,
                   thread_counter, threadVars, queue, should_stop,
                   profileVars, endVars>>

\* The for loop takes the next event e; after the last one it is the loop
\* condition's turn again.
NextEvent(e) ==
    /\ server # "gone"
    /\ main = "round"
    /\ e \in events
    /\ ListenFirst /\ Listen \in events => e = Listen
    /\ events' = events \ {e}
    /\ main' = IF events' = {} THEN "poll" ELSE "round"

\* accept() returns the lowest descriptor that is free.
IsLowestFree(f) ==
    /\ f \notin {fdOf[r] : r \in open}
    /\ 0..(f - 1) \subseteq {fdOf[r] : r \in open}

\* map::insert keeps the entry of a descriptor that has one already.
Registered_m(f) == accepted # {}            \* mutant: only the first is kept
Registered(f) == \E r \in accepted : fdOf[r] = f

\* data->thread_id = thread_counter
first_id == thread_counter

\* should_stop.push_back(false)
stop_pushed_m == should_stop                \* mutant: no push_back
stop_pushed == should_stop \ {thread_counter}

accepts(r) ==
    /\ backlog' = Tail(backlog)
    /\ \E f \in Ranks :
         /\ IsLowestFree(f)
         /\ fdOf' = [fdOf EXCEPT ![r] = f]
         /\ threads_data' = IF Registered(f) THEN threads_data
                            ELSE [threads_data EXCEPT ![f] = r]
    /\ accepted' = accepted \cup {r}
    /\ open' = open \cup {r}
    /\ tid' = [tid EXCEPT ![r] = first_id]
    /\ pc' = [pc EXCEPT ![r] = "test"]
    /\ thread_counter' = thread_counter + 1
    /\ should_stop' = stop_pushed

\* accept() fails once a consumer that exits has closed the listening socket.
accept_new_connections ==
    /\ NextEvent(Listen)
    /\ IF server = "up"
       THEN accepts(Head(backlog))
       ELSE UNCHANGED <<backlog, accepted, open, fdOf, threads_data, tid, pc,
                        thread_counter, should_stop>>
    /\ UNCHANGED <<client, sent, rcvd, msg, taken, word, queue, profileVars,
                   endVars>>

\* safeRead returns a whole message: it goes to the queue threads_data has
\* for the descriptor.
recv_msg(r) ==
    /\ NextEvent(r)
    /\ rcvd[r] < sent[r]
    /\ rcvd' = [rcvd EXCEPT ![r] = @ + 1]
    /\ queue' = [queue EXCEPT ![threads_data[fdOf[r]]] =
                    Append(@, <<r, rcvd[r]>>)]
    /\ UNCHANGED <<clientVars, accepted, open, fdOf, threads_data,
                   thread_counter, threadVars, should_stop, profileVars,
                   endVars>>

\* safeRead returns 0: the descriptor is closed, its connection_data stays.
recv_eof(r) ==
    /\ NextEvent(r)
    /\ rcvd[r] = sent[r]
    /\ open' = open \ {r}
    /\ UNCHANGED <<clientVars, rcvd, accepted, fdOf, threads_data,
                   thread_counter, threadVars, queue, should_stop,
                   profileVars, endVars>>

Main == \/ main_poll
        \/ accept_new_connections
        \/ \E r \in Ranks : recv_msg(r) \/ recv_eof(r)

-----------------------------------------------------------------------------
(* The consumer of rank r's connection.                                    *)

At(r, label) == server # "gone" /\ pc[r] = label
Goto(r, label) == pc' = [pc EXCEPT ![r] = label]

\* while (!should_stop[data->thread_id]): read without the lock.
consumer_test(r) ==
    /\ At(r, "test")
    /\ Goto(r, IF tid[r] \in should_stop THEN "wait" ELSE "pop")
    /\ UNCHANGED <<clientVars, mainVars, tid, msg, taken, word, queue,
                   should_stop, profileVars, endVars>>

\* safe_queue::pop_front takes the oldest message.
front_m(q) == q[Len(q)]                     \* mutant: the newest one
front(q) == Head(q)

\* data->thread_id = msg.data.pid
id_after_m(r, m) == tid[r]                  \* mutant: thread_id is kept
id_after(r, m) == IF TypeOf(m) = "PID" THEN m[1] ELSE tid[r]

\* if (!InitializedThreads[data->thread_id]), in two of the handlers
needs_init_m(m, t) == TypeOf(m) \in {"PID", "BB", "EXIT"}   \* mutant: always
needs_init(m, t) == /\ TypeOf(m) \in {"PID", "BB", "EXIT"}
                    /\ t \notin InitializedThreads

\* pop_front, and the part of the handler up to the store into
\* InitializedThreads: thread_id becomes the rank, and a slot that is not
\* marked as initialised is about to be (the word with its bit is loaded).
pop_front(r) ==
    LET m == front(queue[r])
        t == id_after(r, m)
        init == needs_init(m, t)
    IN  /\ At(r, "pop")
        /\ queue[r] # <<>>
        /\ queue' = [queue EXCEPT ![r] = Tail(@)]
        /\ taken' = [taken EXCEPT ![r] = @ + 1]
        /\ msg' = [msg EXCEPT ![r] = m]
        /\ tid' = [tid EXCEPT ![r] = t]
        /\ word' = [word EXCEPT ![r] = IF init THEN InitializedThreads ELSE @]
        /\ Goto(r, IF init THEN "init" ELSE "handle")
        /\ UNCHANGED <<clientVars, mainVars, should_stop, profileVars, endVars>>

\* InitializedThreads[thread_id] = true stores the whole word; the slot gets
\* a new WKLDchar, of processor 0 when a basic block asks for it.
init_WKLDchar(r) ==
    /\ At(r, "init")
    /\ InitializedThreads' = word[r] \cup {tid[r]}
    /\ WKLDcharForThreads' = [WKLDcharForThreads EXCEPT ![tid[r]] =
          [processor |-> IF TypeOf(msg[r]) = "PID" THEN msg[r][1] ELSE 0,
           log |-> <<>>]]
    /\ word' = [word EXCEPT ![r] = {}]
    /\ Goto(r, "handle")
    /\ UNCHANGED <<clientVars, mainVars, tid, msg, taken, queue, should_stop,
                   endVars>>

\* update_processor_id closes the PID handler.
handle_pid(r) ==
    /\ At(r, "handle")
    /\ TypeOf(msg[r]) = "PID"
    /\ WKLDcharForThreads' =
          [WKLDcharForThreads EXCEPT ![tid[r]] =
              [processor |-> msg[r][1], log |-> @.log]]
    /\ Goto(r, "test")
    /\ UNCHANGED <<clientVars, mainVars, tid, msg, taken, word, queue,
                   should_stop, InitializedThreads, endVars>>

\* iter_instructions and process_instr on the block; a call of exit() ends
\* the thread on the spot (pthread_exit).
handle_work(r) ==
    /\ At(r, "handle")
    /\ Analysed(msg[r])
    /\ WKLDcharForThreads' =
          [WKLDcharForThreads EXCEPT ![tid[r]] =
              [processor |-> @.processor, log |-> Append(@.log, msg[r])]]
    /\ Goto(r, IF TypeOf(msg[r]) = "EXIT" THEN "dead" ELSE "test")
    /\ UNCHANGED <<clientVars, mainVars, tid, msg, taken, word, queue,
                   should_stop, InitializedThreads, endVars>>

\* FUNC_ADDRESS updates FunctionsAddresses, a table of the analyses that is
\* not modelled.
handle_func(r) ==
    /\ At(r, "handle")
    /\ TypeOf(msg[r]) = "FUNC"
    /\ Goto(r, "test")
    /\ UNCHANGED <<clientVars, mainVars, tid, msg, taken, word, queue,
                   should_stop, profileVars, endVars>>

\* should_stop[data->thread_id] = true, under should_stop_lock
stop_set_m(r) == should_stop                \* mutant: forgotten
stop_set(r) == should_stop \cup {tid[r]}

handle_end(r) ==
    /\ At(r, "handle")
    /\ TypeOf(msg[r]) = "END"
    /\ should_stop' = stop_set(r)
    /\ Goto(r, "test")
    /\ UNCHANGED <<clientVars, mainVars, tid, msg, taken, word, queue,
                   profileVars, endVars>>

\* while(toDump != data->thread_id) sched_yield();
wait_turn(r) ==
    /\ At(r, "wait")
    /\ toDump = tid[r]
    /\ Goto(r, "turn")
    /\ UNCHANGED <<clientVars, mainVars, tid, msg, taken, word, queue,
                   should_stop, profileVars, endVars>>

\* toDump++; an int that all consumers read and write without a lock: what is
\* incremented is its value now or the one the waiting loop ended with.
take_turn(r) ==
    /\ At(r, "turn")
    /\ \E v \in {toDump, tid[r]} :
          /\ toDump' = v + 1
          /\ counted' = [counted EXCEPT ![r] = v + 1]
    /\ Goto(r, "compare")
    /\ UNCHANGED <<clientVars, mainVars, tid, msg, taken, word, queue,
                   should_stop, profileVars, buffer, file, written, server>>

all_turns_taken_m(n) == n >= 1              \* mutant: the first one dumps
all_turns_taken_off(n) == n = thread_counter + 1    \* mutant: off by one
all_turns_taken(n) == n = thread_counter

\* if(toDump == thread_counter), with toDump read again or not.
compare_turns(r) ==
    /\ At(r, "compare")
    /\ \E n \in {toDump, counted[r]} :
          Goto(r, IF all_turns_taken(n) THEN "open" ELSE "exit")
    /\ UNCHANGED <<clientVars, mainVars, tid, msg, taken, word, queue,
                   should_stop, profileVars, endVars>>

\* JSONman.openMaster: fopen(PISAFileName, "w") empties the file.
openMaster(r) ==
    /\ At(r, "open")
    /\ file' = "empty"
    /\ written' = NoSlots
    /\ Goto(r, "print")
    /\ UNCHANGED <<clientVars, mainVars, tid, msg, taken, word, queue,
                   should_stop, profileVars, toDump, counted, buffer, server>>

\* JSONman.dump(0) prints the initialised slots into its buffer.
dump(r) ==
    /\ At(r, "print")
    /\ buffer' = [buffer EXCEPT ![r] =
                     [t \in InitializedThreads |-> WKLDcharForThreads[t]]]
    /\ Goto(r, "close")
    /\ UNCHANGED <<clientVars, mainVars, tid, msg, taken, word, queue,
                   should_stop, profileVars, toDump, counted, file, written, server>>

\* JSONman.close() writes the buffer from the start of the file and closes it;
\* what another consumer wrote since openMaster is overwritten as far as the
\* buffer goes.
close(r) ==
    /\ At(r, "close")
    /\ file' = IF file = "empty" THEN "written" ELSE "overwritten"
    /\ written' = buffer[r]
    /\ Goto(r, "exit")
    /\ UNCHANGED <<clientVars, mainVars, tid, msg, taken, word, queue,
                   should_stop, profileVars, toDump, counted, buffer, server>>

\* close(sockfd); exit(EXIT_SUCCESS); the other threads run on until the
\* process is torn down, wherever they are.
consumer_exit(r) ==
    /\ At(r, "exit")
    /\ server' = "exiting"
    /\ Goto(r, "dead")
    /\ UNCHANGED <<clientVars, mainVars, tid, msg, taken, word, queue,
                   should_stop, profileVars, toDump, counted, buffer, file, written>>

process_gone ==
    /\ server = "exiting"
    /\ server' = "gone"
    /\ UNCHANGED <<clientVars, mainVars, threadVars, queue, should_stop,
                   profileVars, toDump, counted, buffer, file, written>>

Consumer(r) == \/ consumer_test(r)
               \/ pop_front(r)
               \/ init_WKLDchar(r)
               \/ handle_pid(r)
               \/ handle_work(r)
               \/ handle_func(r)
               \/ handle_end(r)
               \/ wait_turn(r)
               \/ take_turn(r)
               \/ compare_turns(r)
               \/ openMaster(r)
               \/ dump(r)
               \/ close(r)
               \/ consumer_exit(r)

-----------------------------------------------------------------------------

Next == \/ \E r \in Ranks : Client(r)
        \/ Main
        \/ \E r \in Ranks : Consumer(r)
        \/ process_gone

\* The operating system runs every process and thread that can make a step;
\* the waiting loops of the server all call sched_yield.
Fairness == /\ \A r \in Ranks : WF_vars(Client(r))
            /\ WF_vars(Main)
            /\ \A r \in Ranks : WF_vars(Consumer(r))
            /\ WF_vars(process_gone)

Spec == Init /\ [][Next]_vars
FairSpec == Spec /\ Fairness
-----------------------------------------------------------------------------
(* What the server is for.                                                 *)

ClientStates == {"init", "connected", "running", "ended", "closed", "failed"}
Labels == {"none", "test", "pop", "init", "handle", "wait", "turn", "compare",
           "open", "print", "close", "exit", "dead"}
\* An "overwritten" file has what two consumers wrote over each other.
FileStates == {"none", "empty", "written", "overwritten"}
Profiles == [processor : Ranks, log : Seq(Messages)]

\* The variables have their types; in particular every index a thread uses
\* (thread_id, descriptor, queue) is one of the N there are.
TypeOK ==
    /\ client \in [Ranks -> ClientStates]
    /\ sent \in [Ranks -> Nat]
    /\ rcvd \in [Ranks -> Nat]
    /\ backlog \in Seq(Ranks)
    /\ main \in {"poll", "round", "spin"}
    /\ events \subseteq Ranks \cup {Listen}
    /\ accepted \subseteq Ranks
    /\ open \subseteq accepted
    /\ fdOf \in [Ranks -> Ranks]
    /\ threads_data \in [Ranks -> Ranks]
    /\ thread_counter \in 0..N
    /\ pc \in [Ranks -> Labels]
    /\ tid \in [Ranks -> Ranks]
    /\ msg \in [Ranks -> Messages]
    /\ queue \in [Ranks -> Seq(Messages)]
    /\ taken \in [Ranks -> Nat]
    /\ word \in [Ranks -> SUBSET Ranks]
    /\ should_stop \subseteq Ranks
    /\ InitializedThreads \subseteq Ranks
    /\ WKLDcharForThreads \in [Ranks -> Profiles]
    /\ toDump \in Nat
    /\ counted \in [Ranks -> Nat]
    /\ DOMAIN buffer = Ranks
    /\ file \in FileStates
    /\ server \in {"up", "exiting", "gone"}

\* Descriptors that accept() returned are not handed out again.  It holds
\* until a client goes away while another still waits to be accepted.
FdsDistinct == \A r, s \in accepted : fdOf[r] = fdOf[s] => r = s

\* Each queue holds exactly what was read from its own connection and not
\* popped yet, in the order the rank sent it (recv_msg, pop_front): nothing
\* is lost, duplicated, reordered or delivered to another consumer.
InOrder(r) ==
    /\ taken[r] <= rcvd[r] /\ rcvd[r] <= sent[r]
    /\ Len(queue[r]) = rcvd[r] - taken[r]
    /\ \A i \in 1..Len(queue[r]) : queue[r][i] = <<r, taken[r] + i - 1>>
RoutedInOrder == FdsDistinct => \A r \in Ranks : InOrder(r)

\* The profile in slot t of WKLDcharForThreads is made of rank t's own
\* notifications, in the order they were sent, although consumers start
\* with an id that is another rank's (accept order) and write the slots
\* without a lock.
Isolation ==
    FdsDistinct =>
        \A t \in Ranks : LET log == WKLDcharForThreads[t].log IN
            /\ \A i \in 1..Len(log) : log[i][1] = t
            /\ \A i, j \in 1..Len(log) : i < j => log[i][2] < log[j][2]

\* A bit of should_stop within the vector is set only after the rank it
\* stands for has had its END_APP handled, with nothing of it left over: the
\* garbage behind the end of the vector never counts as a stop.
StopJustified ==
    FdsDistinct =>
        \A t \in 0..(thread_counter - 1) \cap should_stop :
            \E k \in 1..(taken[t] - 1) : Script[t][k] = "END"

\* An index into should_stop that a consumer uses (server.cc:465 and 613) is
\* inside the vector.
StopInBounds ==
    \A r \in Ranks : pc[r] = "test" \/ (pc[r] = "handle" /\ TypeOf(msg[r]) = "END")
                        => tid[r] < thread_counter

\* What rank r's run amounts to once all of it has been analysed: its
\* notifications that are analysed, each once, in the order they were sent.
Expected(r) == {<<r, k>> : k \in {j \in 1..Len(Script[r]) : Analysed(<<r, j>>)}}
Complete(r, profile) ==
    /\ profile.processor = r
    /\ {profile.log[i] : i \in 1..Len(profile.log)} = Expected(r)
    /\ \A i, j \in 1..Len(profile.log) : i < j => profile.log[i][2] < profile.log[j][2]

\* What is written is the complete profile of every rank.
DumpsComplete ==
    file = "written" =>
        DOMAIN written = Ranks /\ \A r \in Ranks : Complete(r, written[r])

\* The server process does not end before it has dumped (server.cc:321).
DumpBeforeExit == server = "gone" => file = "written"

\* Part of rank r's notifications that are analysed, in the order they were
\* sent, with none left out between the first and the last.
Unbroken(r, log) ==
    /\ \A i \in 1..Len(log) : log[i][1] = r /\ Analysed(log[i])
    /\ \A i, j \in 1..Len(log) : i < j => log[i][2] < log[j][2]
    /\ \A i \in 1..(Len(log) - 1) :
          \A k \in (log[i][2] + 1)..(log[i + 1][2] - 1) : ~Analysed(<<r, k>>)

\* Whatever the interleaving, and although a mark of InitializedThreads may be
\* lost, a slot is initialised again only in front of what comes next and the
\* file may be written while others work: a profile, in memory or in the
\* file, lacks notifications at its ends at most, never in between.
NoGaps ==
    FdsDistinct =>
        /\ \A r \in Ranks : Unbroken(r, WKLDcharForThreads[r].log)
        /\ file = "written" =>
              \A r \in DOMAIN written : Unbroken(r, written[r].log)

\* A consumer decides to dump only when no consumer of an accepted connection
\* is at work on a message or still to take its turn.
Dumping == {"compare", "open", "print", "close", "exit"}
Through(r) == pc[r] \in Dumping \cup {"dead"}
DumpAfterWork ==
    [][\A r \in Ranks : pc[r] = "compare" /\ pc'[r] = "open" =>
           \A q \in accepted : Through(q)]_vars

\* A rank's profile only grows: handling a notification never throws away
\* what was analysed before (the re-initialisation at server.cc:473-498).
ProfilesGrow ==
    [][\A t \in Ranks :
          LET old == WKLDcharForThreads[t].log
              new == WKLDcharForThreads'[t].log
          IN  Len(old) <= Len(new) /\ SubSeq(new, 1, Len(old)) = old]_vars

\* A message is put in the queue of the connection it came from.
OwnQueue == \A r \in Ranks : \A i \in 1..Len(queue[r]) : queue[r][i][1] = r

\* The server ends once its clients have.
Termination == <>(server = "gone")
-----------------------------------------------------------------------------
(* The inductive invariant behind RoutedInOrder and Isolation.             *)

\* A rank is not connected, then in the backlog, then accepted, once each,
\* and thread_counter counts the connections that were accepted.
FreshInv ==
    /\ thread_counter = Cardinality(accepted)
    /\ \A i \in 1..Len(backlog) :
          backlog[i] \notin accepted /\ client[backlog[i]] # "init"
    /\ \A i, j \in 1..Len(backlog) : backlog[i] = backlog[j] => i = j
    /\ \A r \in accepted : client[r] # "init"
    /\ \A r \in Ranks \ accepted : rcvd[r] = 0

\* Events that wait to be handled are still good when their turn comes.
EventsInv ==
    /\ Listen \in events => backlog # <<>>
    /\ events \ {Listen} \subseteq open

\* threads_data leads from a connection's descriptor to its own data.
MapInv == FdsDistinct => \A r \in accepted : threads_data[fdOf[r]] = r

\* A consumer in the middle of a handler has the last message it popped.
Handling(r) == pc[r] \in {"init", "handle"}
Analysable(r) == IF Handling(r) THEN taken[r] - 1 ELSE taken[r]

\* A consumer that has handled a message knows its rank, and its slot holds
\* numbers below the message that comes next, in increasing order.
Owned(r) ==
    /\ taken[r] > 0 => tid[r] = r
    /\ Handling(r) => taken[r] > 0 /\ msg[r] = <<r, taken[r] - 1>>
OwnerInv == FdsDistinct => \A r \in Ranks : Owned(r)

Logged(r) ==
    LET log == WKLDcharForThreads[r].log IN
    /\ Unbroken(r, log)
    /\ \A i \in 1..Len(log) : log[i][2] < Analysable(r)
    /\ log # <<>> =>
          \A k \in (log[Len(log)][2] + 1)..(Analysable(r) - 1) : ~Analysed(<<r, k>>)
LogInv == FdsDistinct => \A r \in Ranks : Logged(r)

\* What was printed came from such slots.
PrintInv ==
    FdsDistinct =>
        /\ \A c \in Ranks : \A r \in DOMAIN buffer[c] : Unbroken(r, buffer[c][r].log)
        /\ \A r \in DOMAIN written : Unbroken(r, written[r].log)

\* A consumer starts when its connection is accepted, and there are as many
\* consumers through with their turns as toDump says, or more.
StartInv == \A r \in Ranks \ accepted : pc[r] = "none"
Turns == Cardinality({r \in Ranks : Through(r)})
CountInv ==
    /\ toDump <= Turns
    /\ \A r \in Ranks : /\ pc[r] = "turn" => tid[r] <= Turns
                        /\ pc[r] = "compare" => counted[r] <= Turns

\* The parts together; each is needed to carry the next one over a step.
Inv == /\ TypeOK
       /\ FreshInv
       /\ EventsInv
       /\ MapInv
       /\ RoutedInOrder
       /\ OwnerInv
       /\ LogInv
       /\ PrintInv
       /\ StartInv
       /\ CountInv

-----------------------------------------------------------------------------
(* The inductive invariant, besides Inv, of a server for one process.      *)

\* A process sends its id first, and no more than its script.
SentInv ==
    \A r \in Ranks :
        /\ client[r] \in {"init", "connected"} => sent[r] = 0
        /\ client[r] \in {"running", "ended", "closed"} => sent[r] > 0
        /\ sent[r] <= Len(Script[r]) + 1

\* A slot is marked once its rank's first message is handled, and stays so.
MarkInv ==
    \A r \in Ranks :
        /\ pc[r] = "init" => word[r] = InitializedThreads /\ taken[r] = 1
        /\ pc[r] # "init" /\ taken[r] > 0 => r \in InitializedThreads

\* A slot has all that its rank's consumer is through with.
RecordInv ==
    \A r \in Ranks : LET profile == WKLDcharForThreads[r] IN
        /\ Analysable(r) > 0 => profile.processor = r
        /\ \A k \in 1..Analysable(r) - 1 :
              Analysed(<<r, k>>) => \E i \in 1..Len(profile.log) : profile.log[i] = <<r, k>>

\* The one consumer stops, takes its turn and writes the file.
TurnInv ==
    /\ pc[0] \in {"wait", "turn"} \cup Dumping => 0 \in should_stop
    /\ pc[0] = "turn" => toDump = 0
    /\ pc[0] \in Dumping => toDump = 1 /\ counted[0] = 1
FileInv ==
    /\ pc[0] \in {"print", "close"} => file = "empty"
    /\ pc[0] = "close" => DOMAIN buffer[0] = Ranks /\ Complete(0, buffer[0][0])
    /\ pc[0] = "exit" => file = "written"
    /\ server # "up" => pc[0] = "dead" /\ file = "written"
    /\ DumpsComplete

SingleInv == SentInv /\ MarkInv /\ RecordInv /\ TurnInv /\ FileInv
=============================================================================
