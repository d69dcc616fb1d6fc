------------------------------ MODULE JSONdump ------------------------------
(***************************************************************************)
(* How the processes of a coupled run write one JSON file: end_app of      *)
(* libanalysisCoupled.cc and the class JSONmanager.  Process 0 is the      *)
(* master and owns the file.  The processes take turns; in its turn the    *)
(* master writes its own entries, a slave sends the master a command and   *)
(* the data for each of its entries, and a broadcast ends the turn.        *)
(*                                                                         *)
(* MPI_Ssend and MPI_Recv of two processes are one step; what is exchanged *)
(* has an MPI type, and a receive of another type is an error.             *)
(***************************************************************************)
EXTENDS Naturals, Sequences, FiniteSets

CONSTANTS
    P,            \* procCount
    T,            \* WKLDcharForThreads->size()
    Dump          \* Dump[p][t]: what JSONdump emits for thread t of p, as
                  \* the sequence of its commands

Procs == 0..(P - 1)
Threads == 1..T
Plain == {"START_ARRAY", "END_ARRAY", "START_OBJECT", "END_OBJECT"}
Commands == Plain \cup {"ULL", "DOUBLE", "STRING"}

ASSUME SizeAssumption == P \in Nat \ {0} /\ T \in Nat
ASSUME DumpAssumption == Dump \in [Procs -> [Threads -> Seq(Commands)]]

VARIABLES
    InitializedThreads, \* InitializedThreads[p]: threads of p that ran
    phase,              \* phase[p]: "open", "dump", "bcast", "close", "done"
    procWriting,        \* procWriting[p]: whose turn p thinks it is
    procWrote,
    announced,          \* announced[q]: <<v>> once turn q has ended with value v
    at,                 \* at[p]: thread, entry and part that p emits next
    expect,             \* what the master's next MPI_Recv asks for
    left,               \* threads of the current slave still to come
    got,                \* the datum being received: its thread and entry
    file, closed

vars == <<InitializedThreads, phase, procWriting, procWrote, announced, at,
          expect, left, got, file, closed>>

Nobody == P              \* procWrote = -1

Init ==
    /\ InitializedThreads \in [Procs -> SUBSET Threads]
    /\ phase = [p \in Procs |-> "open"]
    /\ procWriting = [p \in Procs |-> 0]
    /\ procWrote = [p \in Procs |-> Nobody]
    /\ announced = [p \in Procs |-> <<>>]
    /\ at = [p \in Procs |-> [thread |-> 1, entry |-> 1, part |-> "count"]]
    /\ expect = "count"
    /\ left = 0
    /\ got = <<>>
    /\ file = <<>>
    /\ closed = FALSE

\* openMaster and openSlave.
open(p) ==
    /\ phase[p] = "open"
    /\ phase' = [phase EXCEPT ![p] = "dump"]
    /\ UNCHANGED <<InitializedThreads, procWriting, procWrote, announced, at,
                   expect, left, got, file, closed>>

\* The thread that p is at has (no) more to emit.
More_m(p) == at[p].entry <= Len(Dump[p][at[p].thread])   \* mutant: no test
More(p) == /\ at[p].thread \in InitializedThreads[p]
           /\ at[p].entry <= Len(Dump[p][at[p].thread])
Command(p) == Dump[p][at[p].thread][at[p].entry]

NextThread(a) == [thread |-> a.thread + 1, entry |-> 1, part |-> "command"]
NextEntry(a) == [thread |-> a.thread, entry |-> a.entry + 1, part |-> "command"]

\* dump, as the master in its own turn: the entries go to the JSON writer.
dump_own ==
    /\ phase[0] = "dump" /\ procWriting[0] = 0
    /\ at[0].thread <= T
    /\ IF More(0)
       THEN /\ file' = Append(file, <<0, at[0].thread, at[0].entry>>)
            /\ at' = [at EXCEPT ![0] = NextEntry(@)]
       ELSE /\ at' = [at EXCEPT ![0] = NextThread(@)]
            /\ UNCHANGED file
    /\ UNCHANGED <<InitializedThreads, phase, procWriting, procWrote,
                   announced, expect, left, got, closed>>

\* procWrote = procId.  (The code assigns it when the turn starts; nothing
\* reads it before the broadcast.)
wrote_m(p) == procWrote[p]                  \* mutant: not assigned
wrote(p) == p

dump_own_done ==
    /\ phase[0] = "dump" /\ procWriting[0] = 0
    /\ at[0].thread > T
    /\ procWrote' = [procWrote EXCEPT ![0] = wrote(0)]
    /\ phase' = [phase EXCEPT ![0] = "bcast"]
    /\ UNCHANGED <<InitializedThreads, procWriting, announced, at, expect,
                   left, got, file, closed>>

\* dump, as a slave out of turn: nothing to do.
dump_idle(p) ==
    /\ p # 0
    /\ phase[p] = "dump" /\ procWriting[p] # p
    /\ phase' = [phase EXCEPT ![p] = "bcast"]
    /\ UNCHANGED <<InitializedThreads, procWriting, procWrote, announced, at,
                   expect, left, got, file, closed>>

\* What slave p's next MPI_Ssend carries: the number of threads, a command
\* (an entry's, or the end of a thread), then the entry's datum.
Sends(p) ==
    CASE at[p].part = "count"   -> "count"
      [] at[p].part = "command" -> "command"
      [] at[p].part = "length"  -> "length"
      [] at[p].part = "datum"   -> Command(p)

\* What follows the command of an entry that has a datum.
first_part_m(cmd) == "datum"                \* mutant: no length
first_part(cmd) == IF cmd = "STRING" THEN "length" ELSE "datum"

\* Where p is after this MPI_Ssend.
Advanced(p) ==
    LET a == at[p] IN
    CASE a.part = "count" -> [a EXCEPT !.part = "command"]
      [] a.part = "command" /\ ~More(p) -> NextThread(a)
      [] a.part = "command" /\ More(p) ->
            IF Command(p) \in Plain THEN NextEntry(a)
            ELSE [a EXCEPT !.part = first_part(Command(p))]
      [] a.part = "length" -> [a EXCEPT !.part = "datum"]
      [] a.part = "datum" -> NextEntry(a)

Turn(p) ==
    /\ p # 0
    /\ phase[p] = "dump" /\ procWriting[p] = p
    /\ phase[0] = "dump" /\ procWriting[0] = p

\* for (i = 0; i < threads; i++) of dumpFrom
thread_count_m == T + 1                     \* mutant: i <= threads
thread_count == T

\* The first exchange of dump and dumpFrom.
exchange_count(p) ==
    /\ Turn(p)
    /\ at[p].part = "count" /\ expect = "count"
    /\ left' = thread_count
    /\ expect' = "command"
    /\ at' = [at EXCEPT ![p] = Advanced(p)]
    /\ UNCHANGED <<InitializedThreads, phase, procWriting, procWrote,
                   announced, got, file, closed>>

\* A command: the master writes an entry without datum at once and goes for
\* the datum of the others; JSON_END_THREAD takes it to the next thread.
exchange_command(p) ==
    /\ Turn(p)
    /\ left > 0
    /\ at[p].part = "command" /\ expect = "command"
    /\ at[p].thread <= T
    /\ at' = [at EXCEPT ![p] = Advanced(p)]
    /\ IF ~More(p)
       THEN left' = left - 1 /\ UNCHANGED <<expect, got, file>>
       ELSE LET e == <<p, at[p].thread, at[p].entry>>
                cmd == Command(p)
            IN  /\ file' = IF cmd \in Plain THEN Append(file, e) ELSE file
                /\ expect' = CASE cmd \in Plain  -> "command"
                               [] cmd = "STRING" -> "length"
                               [] OTHER          -> cmd
                /\ got' = IF cmd \in Plain THEN got ELSE e
                /\ UNCHANGED left
    /\ UNCHANGED <<InitializedThreads, phase, procWriting, procWrote,
                   announced, closed>>

exchange_length(p) ==
    /\ Turn(p)
    /\ at[p].part = "length" /\ expect = "length"
    /\ expect' = "STRING"
    /\ at' = [at EXCEPT ![p] = Advanced(p)]
    /\ UNCHANGED <<InitializedThreads, phase, procWriting, procWrote,
                   announced, left, got, file, closed>>

exchange_datum(p) ==
    /\ Turn(p)
    /\ at[p].part = "datum" /\ expect = Command(p)
    /\ file' = Append(file, got)
    /\ expect' = "command"
    /\ at' = [at EXCEPT ![p] = Advanced(p)]
    /\ UNCHANGED <<InitializedThreads, phase, procWriting, procWrote,
                   announced, left, got, closed>>

\* The slave's dump is over when all its threads are sent, the master's
\* dumpFrom when it has seen that many ends.
slave_done(p) ==
    /\ p # 0
    /\ phase[p] = "dump" /\ procWriting[p] = p
    /\ at[p].part = "command" /\ at[p].thread > T
    /\ procWrote' = [procWrote EXCEPT ![p] = wrote(p)]
    /\ phase' = [phase EXCEPT ![p] = "bcast"]
    /\ UNCHANGED <<InitializedThreads, procWriting, announced, at, expect,
                   left, got, file, closed>>

dumpFrom_done ==
    /\ phase[0] = "dump" /\ procWriting[0] # 0
    /\ expect = "command" /\ left = 0
    /\ expect' = "count"
    /\ phase' = [phase EXCEPT ![0] = "bcast"]
    /\ UNCHANGED <<InitializedThreads, procWriting, procWrote, announced, at,
                   left, got, file, closed>>

\* The loop of end_app goes on with the next process, or is over.
NextTurn(p) ==
    /\ procWriting' = [procWriting EXCEPT ![p] = @ + 1]
    /\ phase' = [phase EXCEPT ![p] = IF procWriting[p] + 1 < P THEN "dump" ELSE "close"]

\* MPI_Bcast: the root need not wait for the others, they wait for it.
bcast_root(p) ==
    /\ phase[p] = "bcast" /\ procWriting[p] = p
    /\ announced' = [announced EXCEPT ![p] = <<procWrote[p]>>]
    /\ NextTurn(p)
    /\ UNCHANGED <<InitializedThreads, procWrote, at, expect, left, got,
                   file, closed>>

bcast_receive(p) ==
    LET q == procWriting[p] IN
    /\ phase[p] = "bcast" /\ q # p
    /\ announced[q] # <<>>
    /\ procWrote' = [procWrote EXCEPT ![p] = announced[q][1]]
    /\ NextTurn(p)
    /\ UNCHANGED <<InitializedThreads, announced, at, expect, left, got,
                   file, closed>>

\* close, MPI_Finalize.
close(p) ==
    /\ phase[p] = "close"
    /\ phase' = [phase EXCEPT ![p] = "done"]
    /\ closed' = (closed \/ p = 0)
    /\ UNCHANGED <<InitializedThreads, procWriting, procWrote, announced, at,
                   expect, left, got, file>>

Process(p) ==
    \/ open(p)
    \/ dump_idle(p)
    \/ exchange_count(p)
    \/ exchange_command(p)
    \/ exchange_length(p)
    \/ exchange_datum(p)
    \/ slave_done(p)
    \/ bcast_root(p)
    \/ bcast_receive(p)
    \/ close(p)

Next == \/ \E p \in Procs : Process(p)
        \/ dump_own
        \/ dump_own_done
        \/ dumpFrom_done

\* MPI makes progress: a process that can go on, does.
Spec == Init /\ [][Next]_vars /\ WF_vars(Next)

-----------------------------------------------------------------------------

\* The variables have their types.
TypeOK ==
    /\ InitializedThreads \in [Procs -> SUBSET Threads]
    /\ phase \in [Procs -> {"open", "dump", "bcast", "close", "done"}]
    /\ procWriting \in [Procs -> 0..P]
    /\ procWrote \in [Procs -> 0..P]
    /\ announced \in [Procs -> {<<>>} \cup {<<v>> : v \in 0..P}]
    /\ at \in [Procs -> [thread : 1..(T + 1), entry : Nat \ {0},
                         part : {"count", "command", "length", "datum"}]]
    /\ expect \in {"count", "command", "length"} \cup Commands
    /\ left \in 0..T
    /\ closed \in BOOLEAN

\* When the slave whose turn it is sends, the master's MPI_Recv is for that
\* type of message: the two sides of the protocol never drift apart, for
\* any set of initialised threads and any sequence of commands.
ProtocolInStep ==
    \A p \in Procs :
        Turn(p) =>
            IF at[p].part = "command" /\ at[p].thread > T
            THEN expect = "command" /\ left = 0
            ELSE expect = Sends(p) /\ (at[p].part # "count" => left > 0)

\* assert(procWrote == procWriting) of end_app: when p has been through the
\* broadcast of a turn, it was told the process that had the turn.
TurnAgreed ==
    \A p \in Procs :
        procWriting[p] > 0 /\ procWriting[p] # p + 1 /\ phase[p] # "bcast" =>
            procWrote[p] = procWriting[p] - 1

\* All processes come to the end of end_app.
AllDone == <>(\A p \in Procs : phase[p] = "done")

\* The entries the file should have.
EntriesOf(p, t) == {<<p, t, k>> : k \in 1..Len(Dump[p][t])}
Universe == UNION {EntriesOf(p, t) : p \in Procs, t \in Threads}
Wanted == {e \in Universe : e[2] \in InitializedThreads[e[1]]}

\* The file is written as JSONfile says: in order of process and thread,
\* every entry of an initialised thread once, closed when complete.
File == INSTANCE JSONfile WITH entries <- Wanted
WritesInOrder == File!Spec

-----------------------------------------------------------------------------
(* The inductive invariant behind these properties.                        *)

\* The loop of end_app: p is past turn q only if the root of that turn is.
TurnInv ==
    \A p \in Procs :
        /\ phase[p] = "open" => procWriting[p] = 0
        /\ IF phase[p] \in {"close", "done"} THEN procWriting[p] = P ELSE procWriting[p] < P
        /\ announced[p] = IF procWriting[p] > p THEN <<p>> ELSE <<>>
        /\ \A q \in Procs : q < procWriting[p] => procWriting[q] > q

\* procWrote is the process of the last turn that p has finished.
WroteInv ==
    \A p \in Procs :
        IF phase[p] = "bcast" /\ procWriting[p] = p THEN procWrote[p] = p
        ELSE procWriting[p] > 0 => procWrote[p] = procWriting[p] - 1

\* A process emits in its turn only, a slave only when the master listens;
\* after it, it has been through all its threads.
Start == [thread |-> 1, entry |-> 1, part |-> "count"]
EmitInv ==
    \A p \in Procs :
        /\ procWriting[p] < p \/ procWriting[0] < p \/ phase[p] = "open" => at[p] = Start
        /\ at[p].part = "count" => at[p] = Start
        /\ procWriting[p] > p \/ (procWriting[p] = p /\ phase[p] = "bcast") =>
              at[p].thread = T + 1 /\ (p # 0 => at[p].part = "command")
        /\ at[p].part \in {"length", "datum"} =>
              /\ p # 0 /\ at[p].thread <= T /\ More(p) /\ Command(p) \notin Plain
              /\ at[p].part = "length" => Command(p) = "STRING"

\* Where the master is in dumpFrom follows from where its slave is in dump.
MasterInv ==
    LET q == procWriting[0] IN
    IF phase[0] = "dump" /\ q # 0
    THEN /\ at[q].part = "count" => expect = "count"
         /\ at[q].part # "count" =>
               /\ left = T + 1 - at[q].thread
               /\ expect = IF at[q].part = "datum" THEN Command(q) ELSE at[q].part
         /\ at[q].part \in {"length", "datum"} => got = <<q, at[q].thread, at[q].entry>>
    ELSE expect = "count"

\* The entries in the file are those that at[p] has passed, for every p.
Passed(p, t, k) ==
    /\ t \in InitializedThreads[p]
    /\ t < at[p].thread \/ (t = at[p].thread /\ k < at[p].entry)
FileInv ==
    /\ file \in Seq(Universe)
    /\ closed = (phase[0] = "done")
    /\ \A p \in Procs, t \in Threads : \A k \in 1..Len(Dump[p][t]) :
          <<p, t, k>> \in File!Written <=> Passed(p, t, k)

\* end_app of all processes: who has the turn, what the two sides of the
\* exchange expect of each other and what the file holds fit together.
Inv == TypeOK /\ TurnInv /\ WroteInv /\ EmitInv /\ MasterInv /\ FileInv
=============================================================================
