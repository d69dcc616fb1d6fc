# TLA+ models of IBM-PISA

IBM-PISA characterises a program while it runs. An LLVM pass puts calls of hooks
into the program; the hooks feed an analysis that follows the program
instruction by instruction and keeps counters, reuse distances, dependence
chains and MPI traces for each thread and process. The analysis either runs in
the process itself (*coupled*) or in a server that all processes send their
notifications to (*decoupled*). At the end one JSON file is written.

What is hard in it, and what no regression test reaches, is first the machinery
that gets every executed instruction to the right counters exactly once: clients,
server and consumer threads that run concurrently; a reconstruction that runs
ahead of the program and must stop where the hooks take over; an output file
that several processes write. Second come the analyses whose state depends on a
long history: MPI calls of different processes that are matched in a shared
database, requests that complete in any order, a splay tree that is restructured
at each access, issue cycles that depend on everything executed before, and
counters that several tables must classify alike. The first group is modelled in
`AnalysisServer`, `Replay` and `JSONdump`, the second in `MPImap`, `MPIdata`,
`ReuseDistance`, `ILP` and `WKLDchar`.

## 1. Inventory

| Component (source) | State it keeps | Operations | What makes it correct |
|---|---|---|---|
| analysis server (`library/server.cc`, `safe_queue.cc`) | `threads_data` (descriptor to connection), one queue and one `thread_id` per connection, `thread_counter`, `should_stop`, `InitializedThreads`, `WKLDcharForThreads`, `toDump` | accept, receive, push and pop, one handler per message type, end of a consumer, dump, exit | each message reaches its own connection's consumer once and in order; profiles do not mix; a stop is the stop of that rank; one complete dump before the process ends; it ends |
| client library, decoupled (`library/libanalysisDecoupled.cc`) | a socket | connect, process id between two barriers, notifications, `end_app` | sends in program order, after every process has connected |
| walk of the instructions (`iter_instructions` of `server.cc` and `libanalysisCoupled.cc`) | block and instruction, `last_processed_inst`, `SavedStates`, `inFunction` | start at a block, at a load or store, at an MPI call; step; return to a saved state | every executed instruction within the filters is analysed once and in order |
| instrumentation passes (`passCoupled`, `passDecoupled`) | module, block and instruction counters | insert hooks for blocks, loads, stores, MPI calls, start and end | hooks where the walk stops, carrying the place the analysis will find |
| JSON output (`library/JSONmanager.cc`, `end_app` of the coupled library) | whose turn it is, the writer, the slaves' commands | open, dump, dumpFrom, one operation per JSON event, close | master and slaves stay in step; entries in order, once, unmixed |
| MPI notification support (`MPIcnfSupport.cc`) | none | decode the arguments of an MPI call | one message per call, with the fields its readers use |
| MPI trace matching (`MPImap.cc`) | database of sends and receives, open requests, instructions held back between tests | put, match, wait, test, collectives, entry to and exit from the analysed functions | a call is matched within its communication; no instruction is lost from the trace; nobody waits for ever |
| MPI synchronisation server (`mpi_sync_server.c`, `send_query_and_update` of the coupled library) | list of entries | put, get over TCP, retry | an entry is delivered once (no live client, see section 5) |
| MPI data volumes (`MPIdata.cc`) | received bytes by source, volumes of collectives, request lists | update on send, receive, collective, completion | what is counted is what MPI delivered; sent and received balance |
| reuse distances (`DataTempReuse.cc`, `InstTempReuse.cc`, `splay.cc`) | splay tree by time stamp, map of last uses, histogram | access; intersection over threads at the end | the distance is the number of distinct lines since the last use |
| ILP (`ILP.cc`) | issue cycle per value and address, scheduler window, spans | process an instruction, return from a call | an instruction issues after what it depends on |
| branch entropy (`BranchEntropy.cc`, `branch-analysis`) | - | print an outcome; histogram off line | every window of outcomes is counted once |
| instruction mix (`InstructionMix.cc`, `InstructionAnalysis.cc`) | counters by opcode, by opcode and type | count, classify, report | every instruction in one group; breakdowns add up; the classes of mix and ILP agree |
| MPI and OpenMP call counts, external calls (`MPIstats.cc`, `OpenMPstats.cc`, `ExternalLibraryCount.cc`) | counters by group and routine | classify and count by name | groups and lines add up to the calls |
| register counts, load/store log | one counter, one line of output | count, print | - |
| `WKLDchar` | the analyses that are on | pass an instruction on | each analysis sees it once |
| build files, examples, regression scripts | - | - | - |

How they interact. The passes decide which hooks the program calls. A hook is a
call into the coupled library or, in the decoupled client, a message over the
process's TCP connection. The server's main thread reads one message per ready
connection and round of `epoll_wait`, and appends it to the connection's queue;
the connection's `queue_consumer` pops it and walks the module. The walk calls
`WKLDchar`, which calls the analyses. With MPI tracing on, the analyses of
different processes meet in one database (`MPImap`). At the end, the consumers take turns in the order of their ids, and
the coupled processes take turns in the order of their ranks, to write.

What is hard: four kinds of threads and processes that share vectors without a
lock; ids that change while others use them; `vector<bool>` elements that share
a word; connections accepted late; descriptors that are reused; a process that
exits while its threads work; two descriptions of the same execution, hooks and
walk, that must agree; synchronous sends whose number depends on data; queries
that are repeated until another thread has made progress; requests named by the
address of a variable that is used again; sizes stored in a tree that is taken
apart and put together at each access.
`PROJECT.json` lists each hazard at its line.

## 2. Modules

### AnalysisServer

`N` ranks (clients), the main thread and one consumer per connection, all
interleaved. Because a rank opens one connection, connections and consumers are
named by rank; what the *server* knows of them, the descriptor (`fdOf`,
`threads_data`) and the `thread_id` (`tid`), is state. A message is `<<r, k>>`,
the `k`-th that rank `r` sends; its type is given by the constant `Script`.

| Model | Code |
|---|---|
| `init_libanalysis`, `mpi_update_process_id`, `send_msg`, `send_fails` | the functions of that name in `libanalysisDecoupled.cc`; the two `MPI_Barrier`s are the guards over all ranks |
| `MPI_Finalize` | external: waits for all ranks; then the process exits and its socket closes |
| `main_poll`, `NextEvent` | the loop in `main`, `checkStoppingCondition`, the `for` over the events |
| `accept_new_connections` (`accepts`, `Registered`, `first_id`, `stop_pushed`) | the function of that name, in one step: it only writes state of the new connection and what the main thread owns, and takes `should_stop_lock` for the `push_back` |
| `recv_msg`, `recv_eof` | `recv_msg` |
| `consumer_test` | the loop condition of `queue_consumer`, which reads `should_stop` without the lock |
| `pop_front`, `init_WKLDchar`, `handle_*` | the handlers. A store into `InitializedThreads` is a load of the word (`word`, in `pop_front`) and a store (`init_WKLDchar`), as the build makes of `vector<bool>` |
| `wait_turn`, `take_turn`, `compare_turns`, `consumer_exit` | lines 621-633. `toDump` is a plain `int` that all consumers read and write: `take_turn` increments what it holds now or what the waiting loop read, `compare_turns` compares what it holds now or what was just stored |
| `openMaster`, `dump`, `close` | `dump_analysis` through `JSONmanager`: `fopen` with `"w"` empties the file, the slots are printed into a buffer, `close` writes the buffer. Other consumers run between the three and may dump or exit as well |
| `process_gone` | the end of `exit()`: until then the other threads run on |

Choices worth knowing. `should_stop` is the set of bits that are set, including
bits behind the end of the vector, which start with arbitrary values
(uninitialised memory) and which `push_back(false)` clears. `accept()` returns
the lowest free descriptor; `map::insert` does not overwrite. `ListenFirst` says
whether the listening socket is the first of the events, as it is on Linux; the
runs and theorems that show something good allow any order. `WORK` stands for
the messages about loads, stores and MPI calls, whose effect on the profile is
one more entry in its log; how the log's entries come about is Replay's subject.
`max_expected_threads` is taken to be `N`. The file is opened within the ten
trials of `openMaster`: its `exit(1)` behind them is not modelled. `dump` takes all slots
in one step. For connections accepted when the dump was decided this loses nothing,
since none of their consumers has anything left to write (`DumpAfterWork`); the slot
of a rank accepted later may be written while it is printed, and is taken as it is
at one moment.

### Replay

One thread of the program, its hooks and the walk. `code` is the module as a
function from function name and block to a sequence of instructions, of which
only what the walk distinguishes is kept. Actions `enter_block` and `exec_*` are
the native program (external, except for where the passes put the hooks);
`basicblock_notification`, `mem_addr_notification` and `mpi_call_notification`
are the hooks' handlers; `iter_*` are the turns of the loop in
`iter_instructions`, with the recursion for a return as a step of the loop.
The program, the version and the options form one rigid variable, `setup`, so
that one run covers both versions. `Decoupled` chooses between `server.cc` and `libanalysisCoupled.cc`, which
differ in calls through pointers, in MPI calls and in `inFunction`; the differences are
operators of their own (`ResolvesCall`, `StopsAtMPI`, `in_function_*`).

`due` and `ahead` are the two ends of the comparison: instructions the program
has executed and the analysis has not seen, and the reverse, each with the call
stack it belongs to and the filters' answer. They are history variables; no guard
of the walk reads them. `Followed` names the programs the walk can follow: no
call it cannot resolve, no MPI call behind which it is restarted although it did
not stop. The rows about `Replay` in section 3 show one program outside of each kind.

In the decoupled case the program does not wait for the handler of its hook, but
the messages of one thread are handled in the order they were sent
(`RoutedInOrder`) and the walk reads nothing of the program's state, so taking
hook and handler together loses nothing.

### JSONfile and JSONdump

`JSONfile` says what the reader of the output relies on: entries are written in
order of process, thread and position, each once, and the file is closed when it
is complete. The `exit(1)` behind ten failed trials to open it (`JSONmanager.cc:44-47`)
is not modelled. `JSONdump` is `end_app` of the coupled library with `JSONmanager`:
turns, the count of threads, the command and the data of every entry as
synchronous exchanges of typed MPI messages, and the broadcast that ends a turn.
A send and its receive are one step; `ProtocolInStep` says that the
receive that the master is at is always the one the slave's next send is meant
for. `JSONdump` refines `JSONfile` (`WritesInOrder`).

### MPInotify, MPImap and MPIdata

`MPInotify` is the message that `mpi_update_db` makes of a call: cleared, then
filled in by the class of the call (`basic_call`, `async_call`...), as
`insertMPIhooks` assigns the classes. What a class does not fill in stays 0, and
the readers do read such fields: `MPImap` takes the root of a broadcast from
`other`, which only the `ANYTAG` class sets. `Asserted` has the assertions of the
hook about the status of a completion: `MPI_Wait`, `MPI_Waitall` and `MPI_Testall`
need one (`MPIcnfSupport.cc:58`, `94`, `161`), a test that succeeds needs a source in
it (`137`, `176`), but `MPI_Test` may do without (`131` is commented out), and then
sends the source -1.

`MPImap` has one consumer per process, which handles that process's calls in
order. A call begins with one `visit_*` action, the part that is private to the
consumer (requests, held-back instructions, bursts), and leaves in `ops` the puts
and gets of its `update_MPI_*` function; `send_msg_to_db`,
`send_query_and_update` and `test_removes` are the sections under `db_lock`. A
failed query changes nothing and is not a step. `found` records, by
communication, which call took which call's entry. `History` says which
programs are those of an MPI application: communications in one order that every
process keeps to, what is sent received from that very process, the processes of
a communicator in the same collectives. `Framed` says where entries to and exits
from the analysed functions may stand relative to `MPI_Init`, `MPI_Finalize` and
tested requests. The theorems have them as hypotheses, and TLC evaluates both on
the programs of the run.

`MPIdata` has the same calls with MPI as its environment: messages in order
between two processes, receives that accept them, requests that complete in any
order. `data` is the state of the class, one operator per method; `delivered` is
what MPI gave to the application, against which `MatrixExact` is stated: for each
completed receive the source, whether the call names or reports it (`known`), the
size of the message and that of its buffer, which is what the code counts. A
process whose hook fails an assertion is `Killed`. What the properties need of the
programs is stated beside them: a request variable is used again only behind a
call that completes it (`Lawful`), messages go to processes (`Addressed`), and the
processes make corresponding collective calls on `MPI_COMM_WORLD` with one size
(`Joint`). TLC evaluates all three on the programs of the run, and the theorems
have them as hypotheses.

### Splay and ReuseDistance

`Splay` is the tree as a value, with the size stored in each node; the chains
that `Splay` builds on the stack are sequences that `Assemble` links. One turn of
its loop is `Turn`; `SplayLoop` makes as many turns as the tree has nodes, which is
enough (`LoopEnds` in the proofs), and a turn behind a `break` changes nothing. Rotations
and links recompute sizes, `Above` (insertion) adjusts them by subtraction, as
the code does. The walks along parent pointers (`p`, `splay.cc:192-227`) are not in the
model: they visit the nodes of a chain from its end up, and the model computes the chain.
A pointer that was left stale could therefore not be found here. `Holds` is the reference: a search tree with given keys, level by
level, with every stored size right. `ReuseDistance` keeps a tree per thread for data and one for
instructions, and the histograms of the exact distances beside those of the code.

### ILP

One thread over a small program with registers, memory, phis, branches and calls;
`WellFormed` is what LLVM's verifier guarantees of it. Cycles come in pairs, out of
order and in order. `getInstIssueCycle` is split by kind of instruction; each part
gives the cycle and the two maps it leaves; the loop over the operands is a
recursive function (`operands_cycle`). The scheduler is a list in whose order
nothing depends; it is kept as a function from the numbers of the instructions in
it to their cycles. (It is a `list<int>`, `ILP.h:61`: cycles beyond `int` are not
modelled.) `log`, `src` and `entered` are history: what was issued when, and which
executed instructions a register's content comes from.

The history follows the program, not the tables of the code. `src` has the
registers of one activation of a function: a call starts a new one with the
parameters, all bound to the arguments as they were before the call, and the
caller's is kept on `stack` until the return. The phis of a block take the values
of `entered`, the registers at the entry of the block, all at once. The code has one
`LastUsageOperands` for all activations, binds parameters one after the other and
handles phis one after the other; where that makes a difference,
`DependenciesRespected` fails (section 3).

### InstructionMix, CallStats and WKLDchar

The tables: opcode classes of the getters, of `getInstType` and of the report;
the breakdown by type as the code enters it and as it prints it; the routines
of each group of MPI and OpenMP calls. `NumTotalInsts` is the sum of the counters: the
one macro that increments it increments an opcode's counter with it
(`InstructionMix.h:28`). `WKLDchar` runs instructions through
`analyze` and compares the counters with the history. `InstructionsAssumption` is
what LLVM's verifier and the linker guarantee: an integer opcode has an integer
type, elements of vectors are numbers or pointers, the routines of the MPI and
OpenMP runtimes have no body in the program.

### The Proofs modules and the MC modules

`AnalysisServerProofs`, `JSONdumpProofs`, `ReplayProofs`, `ILPProofs`,
`MPImapProofs`, `MPIdataProofs` and `WKLDcharProofs` have the theorems of
section 4, `Induction` the lemmas they share. The `MC` modules hold the
instances: scripts, programs, dumps, instructions, and a schedule of the server.

## 3. Runs

Deadlock is not an error in any of them: programs end, and the server, once it
is gone or when only a wait that times out is left, makes no step. That the
right things happen before is stated by liveness properties instead.

### Runs that pass

| Run | Instance | What it shows |
|---|---|---|
| `server_single` | one rank, all message types, fair | the whole life of the server: everything analysed, one complete dump, then the end (`DumpsComplete`, `DumpBeforeExit`, `Termination`) |
| `server_pair` | two ranks with two blocks each, events in any order | in every interleaving: `Inv` (the inductive invariant), `RoutedInOrder`, `Isolation`, `StopJustified`; a lost mark or an early dump costs a profile its beginning or its end, never a part in between (`NoGaps`); whoever decides to dump does so when no accepted connection's consumer is at work (`DumpAfterWork`) |
| `replay` | `server.cc` with `-mpi-map` and an include list; the coupled library with an exclude list and calls through loaded pointers; all programs of one block per function over small instruction sets, and one with branches, loops, recursion; the analysis fair | `Inv`, `InStep`, `ExactlyOnce`, `StackMirrored`, `InFunctionFollows` (`inFunction` is the number of active functions from the outermost included one inwards, and the block that `server.cc:510` wants investigated never comes), `HooksReturn` |
| `json_dump` | three processes, two threads, every set of threads that ran, every kind of entry, an empty dump | `Inv`, `ProtocolInStep`, `TurnAgreed`, `AllDone`, `WritesInOrder` |
| `mpi_map` | three processes; pairs and triples of blocking communications and collectives, non-blocking ones with waits and tests, functions left and entered again; fair | `Matched`, `BurstsAddUp`, `AllServed` |
| `mpi_data` | three processes; wildcard receives, blocking and not, receives larger than their messages, completion in another order, tests without a status and of inactive requests, assertions that end a process, request variables used again, every collective | `MatrixExact` (by source as far as a call names or reports it, the rest under the number of no process), `RequestsMirrored`, `VolumesBalance` |
| `reuse_distance` | all sequences of seven instructions of one thread, of four instructions of two or three threads | `TreesSound`, `DistancesExact`, `SharedExact` |
| `ilp` | a loop with two paths and a value of the round before, calls (with a body, without, unresolved), independent chains; three treatments of control instructions; window 0, 2 and 4; 18 instructions | `Inv`, `DependenciesRespected`, `InOrderNotFaster`, `WindowRespected`, `SpansCount` |
| `counts` | any two instructions over all opcodes with their types and all routines | `MixAddsUp`, `MeansAgree`, `BreakdownComplete`, `CallsAddUp` |

`Matched` is about programs of blocking calls and collectives: an `MPI_Isend`
leaves a second entry in the database (`update_info` reaches `update_MPI_Isend`
twice), which a later receive of the same pair takes instead of the new one.
`BurstsAddUp` is about point-to-point programs, because a collective prints its
burst once per partner. `SharedExact` is about threads initialised from 0 on, and
`InOrderNotFaster` leaves out serialised control instructions, whose in-order
cycle the code does not move.

### Runs that show a disagreement

Each checks one property that a comment of the code states, and fails on what
the code does; `findings` in `PROJECT.json` quote the lines.

| Run | Property | What happens |
|---|---|---|
| `server_no_dump` | `DumpBeforeExit` | each consumer that ends calls `exit()`; the first one has not dumped. The process ends without a file, or with the empty one that the last consumer has opened and not yet written |
| `mpi_map_irecv` | `AllServed` | `update_MPI_Irecv` puts nothing into the database, so the consumer of a process that sends to it with `MPI_Send` repeats its query for ever |
| `mpi_data_vector` | `VectorOfReceived` | a receive from `MPI_ANY_SOURCE` that `MPI_Test` completes without a status, and a blocking one, are booked under `(unsigned) -1` (`MPIdata.cc:264`, `318`): the vector has no entry for the process they came from (`MPIdata.h:54`) |

The models show more of the same kind when an instance is changed. These are not
kept as runs of their own; the instances are in the MC modules. In Replay a row
gives the value of `Setups`, with the functions of its program as `Funcs`; in
MPImap that of `Programs`.

| Instance | Property that fails | What happens |
|---|---|---|
| `server_single` with `N = 2`, `TwoBlocks` | `ProfilesGrow` | two stores into `InitializedThreads` (`server.cc:476`, `551`) collide and one mark is lost; the next block replaces the profile by an empty one of processor 0 |
| `server_single` with `N = 2`, `Shortest` | `Termination` | a consumer with its first id takes another rank's stop for its own, leaves its loop with its messages unread and waits at line 621 |
| `server_single` with `Exits` | `Termination` | a program that calls `exit()` ends its consumer without `END_APP`: the server never dumps and never ends, although the comment at `server.cc:341` says that it dumps |
| `server_pair` with `N = 3`, `Shortest` | `StopInBounds` | a process id is handled, and indexes `should_stop`, before the connections of lower slots are accepted; the barrier in `mpi_update_process_id` (`libanalysisDecoupled.cc:230`) cannot exclude it, since `connect` returns before `accept` |
| `N = 5`, `Shortest`, `LateConsumersSpec` | `OwnQueue` | a descriptor closed at end of file is handed out again while `threads_data` keeps its entry and `map::insert` does not replace it: the messages go to the old connection's queue |
| `NoMpiMap` | `InStep` | without `-mpi-map` the walk does not stop at MPI calls but is restarted behind them (`server.cc:413`, `596`) |
| `InitLoad` | `InStep` | the instruction behind `MPI_Init` is passed over by the pass (`Analysis.cpp:743`): no hook, and later indices one too low |
| `Waitall` | `InStep` | `MPI_Waitall` has a hook and is not in `is_mpi_sync_call`: what follows is analysed twice |
| `Callback` | `StackMirrored` | the return of a function that an external function called back pops the state of an outer call |
| `Indirect` | `StackMirrored` | `server.cc` does not know the callee of a call through a pointer and pushes no state (the FIXME at `libanalysisCoupled.cc:396`) |
| `ilp` with `BypassSetups` | `DependenciesRespected` | with `ANALYZE_ILP_IGNORE_CTRL` a block of a branch alone returns from `visit` (`ILP.cc:88`) before `prevBB` is set, which the comment at `ILP.cc:127` relies on; the phi behind it looks up the value for an older block, and an instruction issues before the producer of the value its phi took |
| `ilp` with `RecursionSetups` | `DependenciesRespected` | `LastUsageOperands` is keyed by the `Value*` (`ILP.cc:363-370`): an inner activation of a recursive function overwrites the cycle of a register that the outer one still uses |
| `ilp` with `PassedOnSetups` | `DependenciesRespected` | a recursive call gives a parameter its new cycle before it reads the argument that is the parameter's old value (`ILP.cc:478`) |
| `ilp` with `FormerSetups` | `DependenciesRespected` | a phi that takes the former value of a phi before it in the block finds the new one: the phis are visited one after the other (`ILP.cc:84`) |
| `mpi_data_vector` with `{Roomy}` | `VectorOfReceived` | the vector has the capacity of the receive, not the bytes received (`MPIdata.cc:257-264`, `319`) |
| `Wildcard` | `AllServed` | a receive from anybody takes the entry of the sender a later receive names, which then waits for ever |
| `HeldOutside` | `BurstsAddUp` | instructions held back at a failed test outside the analysed functions are printed by the first request inside them |
| `FinalizeOutside` | `BurstsAddUp` | the exit from the functions does not set `previousCount`, and `MPI_Finalize` prints its burst outside as well: the last burst appears twice |

Deviations that the models keep, and that the properties state or exclude: a
failed `MPI_Test` changes nothing in the request lists; `MPI_Allreduce` does not
take part in the matching (its update is commented out in `update_info`);
`MPIdata` counts the capacity of a receive, not the size of the message, and no
volume for `MPI_Sendrecv`; a value that a phi takes from a call may be used in
the cycle of the return; a call through an unresolved pointer ignores its
arguments; the breakdown of `ptrtoint` prints only floating-point slots, and
`extractvalue` and `insertvalue` are never entered; two lines of the OpenMP
report print another counter (`OpenMPstats.cc:133`, `329`).

### Bounds

- `N` is 1 or 2 in the passing server runs. Two ranks suffice for every race
  between consumers (an id that belongs to the other, two stores into one word,
  two turns); for more ranks there are the theorems. Three are needed for a
  consumer to index `should_stop` behind its end when connections are accepted
  first in each round, and five for a
  descriptor to be reused then, because each round accepts one connection and
  reads one message of each open one.
- Scripts have at most six messages: one of each type, and a block after a block
  where a profile could be lost.
- MPImap: three processes, so that a collective has two partners and a third
  process can use the same entries; histories of two or three communications,
  so that one communication overtakes another of the same pair.
- MPIdata: three processes and two histories one after the other, so that
  request variables are used again.
- ReuseDistance: `MaxSteps` is 7 for one thread, which reaches trees of every
  shape over the four lines that six instructions touch, with a rotation of each
  kind, and 4 for more threads. `LineSize` = 2.
- ILP: `MaxIssued` = 18, two to three rounds of each loop, more than the largest
  window; two addresses.
- WKLDchar: `MaxExecuted` = 2. The counters of an instruction do not depend on
  earlier ones, so two show an instruction with itself and with any other.
- `MaxDepth` = 5 bounds the native call stack in Replay: main, f and three levels
  of the recursion of g. A call beyond the bound is not made.
- JSONdump: two slaves, so that one turn follows another slave's turn; two
  threads, so that counts differ.
- `Script` and `Programs` bound what processes do; no other counter is bounded.

### Fairness

The operating system runs every process and thread that can make a step: weak
fairness of each client, of the main thread, of each consumer and of the end of
`exit()`. The waiting loops of the server, that of the queue included
(`safe_queue.cc:28`), call `sched_yield` at each turn and take no lock while
they wait, so none of them keeps another thread from running. In Replay only the analysis is fair, which
`HooksReturn` is about; the program may stop anywhere. In JSONdump every MPI call
whose partner has arrived completes. In MPImap each consumer is a thread that takes its next step when it can;
`AllServed` thus speaks of entries that never come, not of starvation by the
spinning queries, which take and release `db_lock` at each turn.

## 4. Theorems

Each is proved for every value of the constants, from the assumptions named in
the module that declares them.

| Module | Theorem | States |
|---|---|---|
| `AnalysisServerProofs` | `Invariance` | `Spec => []Inv` |
| | `TypeCorrect` | `Spec => []TypeOK` |
| | `Routed` | `Spec => []RoutedInOrder` |
| | `Isolated` | `Spec => []Isolation` |
| | `StopsJustified` | `Spec => []StopJustified` |
| | `Gapless` | `Spec => []NoGaps` |
| | `DumpsAfterWork` | `Spec => DumpAfterWork`, an action property |
| | `SingleComplete` | `N = 1 => (Spec => []DumpsComplete)` |
| | `SingleDumps` | `N = 1 => (Spec => []DumpBeforeExit)` |
| `JSONdumpProofs` | `Invariance` | `Spec => []Inv` |
| | `TypeCorrect`, `InStep`, `Agreement` | `Spec => []TypeOK`, `[]ProtocolInStep`, `[]TurnAgreed` |
| | `Refinement` | `Spec => WritesInOrder`: `JSONdump` implements `JSONfile` |
| `ReplayProofs` | `Invariance` | `Spec => [](SetupInv /\ Inv)` |
| | `TypeCorrect` | `Spec => []TypeOK` |
| | `WalkInStep`, `VisitedOnce`, `StackMatches`, `InFunctionCounts` | `Spec => [](Followed(setup) => ...)` of `InStep`, `ExactlyOnce`, `StackMirrored`, `InFunctionFollows` |
| `ILPProofs` | `Invariance` | `Spec => []Inv` |
| | `TypeCorrect` | `Spec => [](WalkInv /\ TypeInv)` |
| | `Dependencies` | `Spec => [](Traced(setup) => DependenciesRespected)` |
| | `InOrderBehind`, `WindowKept`, `SpansExact` | `Spec => []` of `InOrderNotFaster`, `WindowRespected`, `SpansCount` |
| `MPImapProofs` | `BurstsAdd` | `Spec => []BurstsAddUp`, with `AccMode = 1` and point-to-point programs that are `Framed` |
| | `Matching` | `Spec => []Matched`, where programs of blocking calls are a `History` |
| `MPIdataProofs` | `ListsMirror`, `VectorExact` | `Spec => []` of `RequestsMirrored`, `MatrixExact`, where programs are `Lawful` |
| | `VolumesBalanced` | `Spec => []VolumesBalance`, where they are also `Addressed` and `Joint` |
| `WKLDcharProofs` | `MixTotals`, `MeanNumerators`, `CallTotals`, `Breakdown` | `Spec => []` of `MixAddsUp`, `MeansAgree`, `CallsAddUp`, `BreakdownComplete` |
| | `TreesSorted`, `Distances` | `ReuseSpec => []` of `TreesSound`, `DistancesExact`, if `OneRound` |
| | `Shared` | `ReuseSpec => []SharedExact` |

### The server

For every number of ranks and every script (`NAssumption`, `ScriptAssumption`,
`EndAssumption`: nothing is sent after `end_app` or `exit()`;
`ListenFirstAssumption`), with events in any order.

`RoutedInOrder` is not inductive: `recv_msg` appends to the queue
that `threads_data` names, so one needs `MapInv` (a connection's descriptor leads
to its own data). `MapInv` survives an accept only because the accepted rank is
new, which is `FreshInv` (a rank is not connected, then in the backlog once,
then accepted), and because the event that is handled is about an open
connection or a backlog that is not empty, which is `EventsInv`. `FreshInv` also
ties `thread_counter` to the number of accepted connections, which keeps the
first `thread_id` below `N`. With the queue in order, the first message that a
consumer pops is its process id, so from then on its id is its rank (`OwnerInv`),
so it writes only its own slot, with a number higher than all in it (`LogInv`),
and that gives `Isolation`. `StopJustified` needs one more part
on top of `Inv`: a bit is set by `handle_end` alone, with the handling rank's own id,
and `push_back` clears what was there before the vector grew over it.

Routing, ownership, logs and stops are stated under `FdsDistinct`: no two
accepted connections have had the same descriptor. Once false it stays false,
since descriptors of accepted connections do not change; that is why each part
carries the hypothesis and why the proofs need it only in the state after the step.
The `OwnQueue` row of section 3 shows that it cannot be dropped.

*Losses.* A consumer that has lost its mark starts the slot anew, and with it
the log. What `LogInv` says survives this: the log is a stretch of the rank's
notifications that lacks none in between, and if it is not empty it reaches up to the
message that comes next. Whatever a dump copies is thus such a stretch (`PrintInv`), and
`NoGaps` follows. That nothing is missing at the ends cannot be proved, and is false
(the row on `ProfilesGrow` in section 3).

*Turns.* `CountInv` says that `toDump`, what a consumer has made of it, and the id for which a
consumer has seen its turn are never more than the number of consumers that have
taken their turns: a lost increment or an id that two consumers have
only makes them smaller. If one of them is `thread_counter`, the number of
accepted connections, then all of these have taken theirs: `DumpAfterWork`.

*One rank.* With `N = 1` the other races are gone, which `SingleInv` makes use of: the mark is
not lost (`MarkInv`), the slot has everything its consumer is through with
(`RecordInv`), the consumer stops only after its own `END_APP` (`TurnInv`, with
`StopJustified`), and the file is written before the consumer exits (`FileInv`). For
more ranks `DumpBeforeExit` fails (`server_no_dump`), and so do the other properties
of section 3's rows; no theorem assumes them away.

### The JSON file

For every number of processes and threads, every set of threads that ran and
every dump. `TurnInv` says how far the processes are in the loop of `end_app`
relative to each other: one is past the turn of `q` only if `q` is. `EmitInv` says who may be
emitting, and `MasterInv` computes the receive that the master is at, and the number
of threads it still expects, from the place of the slave whose turn it is: this
is `ProtocolInStep`. `FileInv` says that the file has the entries that the places of the
processes have passed; with it every step of `JSONdump` is a step of `JSONfile`
or leaves its variables alone. `ProtocolInStep` takes into account that without
threads a slave sends its count and nothing else.

### The walk

For every well-formed module, every filter, both versions; the conclusions under
`Followed`. The idea is a path. `AheadInv` says that
the instructions visited and not yet executed are a path of the program that
begins where the program is, each element following from the one before by the
program's own rules, with only intrinsics, which the walk passes over, in between.
`IterInv`, `RunInv` and `HookInv` say where the walk stands relative to
the end of this path while it iterates, while the program runs and while a hook
is handled; `DueInv` that only the load or store whose hook is being handled was
executed and not visited. A native step takes the first element off the path, a
step of the walk adds one. Branches need no guess: the walk stops there.
`FunctionInv` gives `inFunction` at every one of these places; at the call of an
included function it lags behind until the callee's first block (`Lagging`), which
is why two values are possible at a block's hook. `TypeCorrect` holds for all
programs, also those the walk cannot follow.

### The issue cycles

For every well-formed program, every window size and the three treatments of
control instructions (`SetupAssumption`).

- *Window.* The property that fewer than `window_size` earlier instructions issue
  at the cycle of a later one or behind it is not inductive. `QueueInv` is: the
  scheduler holds exactly the issued instructions from `window_cycle` on, and the
  cycle before `window_cycle` has, with those behind it, at least `window_size` of them. Releasing
  the smallest cycle in the scheduler keeps both, and it always frees an entry.
- *Order.* `MaxInv` and `LagInv`: what the tables know of a register or an address
  is no earlier in order than out of order, so that the maximum over operands is not either.
  The maximum over operands comes from a recursive function; what is needed of it
  is that it stays in any set of cycles that is closed under the
  loop's step, which is shown by looking at the least place that leaves the set.
- *Spans.* `PreviousInv`: `Previous` is the largest cycle of a class. In order no
  cycle comes back, so each one is counted once; out of order an earlier gap may
  be filled later without being counted, hence the inequality.
- *Dependencies.* `MemoryInv`: the entry of an address bounds every access to it,
  however long ago. `SourceInv`: a register's cycle, plus one where the code adds
  one, is not before any executed instruction that its content comes from.
  It says so of the registers of every activation, the waiting ones included
  (`Covers`), although the code has one entry for each register. That the callee
  leaves the entries of its callers alone is `DepthInv`: a program without
  recursion gives its blocks a depth that grows at calls, the activations on the
  stack have different depths, and a register belongs to one depth.
  `PrevInv`: at a phi, `prevBB` is the block that the walk came from, and the registers
  hold what they held at the entry of the block, those of the phis already visited excepted.

`Dependencies` has the hypothesis `Traced`: no recursion, no phi that takes the value of
an earlier phi of its block, no block behind which `prevBB` is stale. The proof does
not go through without them, and TLC confirms for a program of each kind that the property
fails (`Recursion`, `PassedOn`, `Former`, `Bypass` in section 3).

### The MPI trace

*Bursts.* What a process has printed, what it owes and what it holds back is what
it executed in the functions up to its last call. Owed is the burst of a blocking
call whose query is not answered yet (`dif`); held back is `tmpDelta` between a
failed test and one that succeeds. `CountsInv` says that
`inFunction` and `mode` follow from the calls made, and that in the functions
`previousCount` is up to date. `Framed` is needed for the instances
`HeldOutside` and `FinalizeOutside` of section 3, and `accMode` because without it
the instructions between tests are dropped.

*Matching.* `recv_msg_from_db` takes the first entry of a pair of processes, so
the claim is about order: the entries of one pair lie in the database in the order of
their communications, because each process puts in the order of its program, which
is the history's. A query's own communication has an entry still to come
or in the list; everything before it was taken, since the process on the other
side goes on only when its own queries are answered. The invariant says this
of every put and get that is done or left to do: each put has
exactly one get that is its partner, in the program of the other process, and an
entry is in the database if and only if its put is done and its partner's get is not.

### The MPI volumes

For every number of processes and all programs with the properties named in the
table. `Kept` is the part of the invariant that speaks of one process.

*Lists.* A completion looks for an address in three lists, in their order, and takes
the first entry. That this is the entry of the completed request needs that no
two active requests have one address (`Once`), and that holds because each active
request was started by a call with no completion since (`Active`): a second start with
the same address would make the program not `Lawful`. `Waitall` and `Testall` change
MPI's requests and the lists in two separate loops over the array; `FinishMany` runs them in lockstep, and
uses that the array names no request twice, so that the source reported for a
request before the loop is the source it still has when its turn comes.

*Vector.* An entry of the vector is a sum of buffers over the deliveries of one
origin (`Vector`), and a pending receive remembers the buffer of the request it
mirrors (`Sized`). The origin of a completion is the source that the hook is told
of (`Told`): with a status that of the request, without one -1. Only `MPI_Test` can
do without, because the others assert a status (`Asserted`).

*Balance.* Of each process take what it counted as sent, plus its uncounted sends,
less what it received, delivered or only matched. The sum over the processes is what the
messages in flight amount to, in bytes and in messages (`FlowInv`). With nothing
in flight and no request left, what was sent was received.

*Collectives.* `Collected`: a volume of a process is what its calls so far add. When
all are through, the sum over the processes is regrouped by operation (`SumSwap`),
along the correspondence that `Joint` gives, and each relation holds of
a single operation (`TotalsRelate`).

### The counters

For every set of instructions that `InstructionsAssumption` allows and any number
of them. The getters are sums over sets of opcodes, so the invariant `MixInv`
quantifies over the sets: for *every* set of opcodes the sum of its counters is
the number of executed instructions with an opcode in it. Groups that partition
the opcodes then add up (`SumClasses`), and a getter and a class of `InstructionAnalysis` agree
when their sets of opcodes do. `CallInv` has, for
each group of routines, the calls executed and the sum of the group's lines.
`BreakInv` has two parts: an opcode's counter is the sum over its keys in the
breakdown by type, and each key that an allowed type can make is printed in exactly one of
the three places (scalar, vector, miscellaneous) of the report.

Sums are `SumFunctionOnSet`, a fold over a finite set that is defined by a choice of
an order. `Induction` derives what a sum is: empty, one element more, a union of
disjoint sets, one value changed. The induction over finite sets is the library's
theorem, applied to a property given as a set of subsets (`SubsetsAll`), since
the provers cannot instantiate one that is given as an operator.

### The reuse distances

For every number of threads, all instructions, addresses and bins (`ReuseAssumption`), and runs of any length.
`OneRound` says that an access is one round of the loop in `DataTempReuse::visit`:
there is a cache line size, or accesses have one byte. Without it the bytes of one access share a time and `Update` replaces one time per
access: an access that overlaps earlier ones in part removes a time that other bytes
still have, or leaves one that no byte has.

*Trees.* `Tree(t, S)` says that every level of `t` is right for the keys `S`. It is
equivalent to `Holds`, which looks at as many levels as there are keys
(`HoldsAll`), and it comes apart into a root and two subtrees (`TreeParts`) and is
put together from them (`NodeTree`), so no induction over trees is needed.

*Splay.* The loop's invariant is `Part`: the keys are divided into those of the left chain,
of the tree that is left and of the right chain, in this order, and the key
looked for is between the chains. What a chain is good for is said without looking
into it: linked to any tree with larger keys, the left chain gives a search tree
with the keys of both (`GoodL`; `GoodR` for the right one). Each turn either ends the loop or leaves
fewer keys in the middle (`TurnPart`). At the end no key lies between the root and the key looked for
(`Nearest`), which is what insertion and deletion rely on.

*Distances.* `ReuseInv`: the keys of a tree are the times of the last accesses, and no two
lines have the same (`Times`). So lines accessed since and larger keys correspond one to
one (`ExactIs`), and the size of the right subtree counts both.

*Footprint.* After thread `i - 1`, buffer `i % 2` holds what the first `i` threads have in
common, up to the last initialised one; later turns change nothing (`PingPongIs`). The
result is picked by the count of initialised threads, which is right only if they
are the first ones: the hypothesis in `SharedExact`.

### Only model-checked

Liveness rests on fairness and is left to TLC: `Termination`, `HooksReturn`,
`AllDone`, `AllServed`. Every invariant that a passing run checks is proved, some under
the hypotheses in the table.

## 5. Not modelled

- Signals, and connections that break in the middle of a message (`safeRead`
  returning -1); the server's handling of both is listed among the hazards.
- Option parsing, JSON layout, wording, the contents of the analyses' reports.
- A server started with fewer slots than there are ranks.
- OpenMP threads of the coupled library: hooks of different threads touch
  different slots of the per-thread vectors.
- Exceptions: blocks with a landing pad get no notification, and the walk does
  not know `invoke`; the funclet opcodes of LLVM 3.8 are not among the counted ones.
- Floating-point results (entropies, averages).
- `mpi_sync_server` and its clients in the coupled library
  (`send_query_and_update`, `set_ILP_issue_cycle`...): they are called only from
  each other and from code that is commented out.
- `updateILPIssueCycle`, for the same reason; `JSONdump` of the instruction mix
  and the counters only it prints: nothing calls it.
- Branch entropy, register counts and the load/store log: a line or a counter per
  instruction, without state that an order of events could break.
- Sub-communicators with other members than the first ranks, Fortran handles,
  `MPI_Allgatherv`; collectives in which a process sends another size than it
  receives from each, as `MPI_Alltoallv` may.
- The source in the status of a completed send, which MPI does not define: the
  model reports a rank, so that the assertions at `MPIcnfSupport.cc:138` and `177`
  hold for it. In MPImap a process whose hook fails an assertion stops where it is.
- Overflow of `size * datatype` in messages of 2 GB and more.

## 6. Plan

1. The server with broken connections and signals.
2. `MPImap` with sub-communicators, `ReuseDistance` without a cache line size.
