--------------------------- MODULE JSONdumpProofs ---------------------------
(***************************************************************************)
(* Theorems about JSONdump, for any number of processes and threads and    *)
(* any entries.  Inv is inductive; the proof goes through its conjuncts,   *)
(* action by action.                                                       *)
(***************************************************************************)
EXTENDS JSONdump, TLAPS

USE SizeAssumption

LEMMA ProcFacts == 0 \in Procs /\ \A p \in Procs : p \in Nat /\ p < P
BY DEF Procs

\* What the master and the slave type when they deal with an entry of p.
LEMMA CommandType ==
    ASSUME TypeOK, NEW p \in Procs, at[p].thread <= T, More(p)
    PROVE  /\ at[p].thread \in Threads
           /\ at[p].thread \in InitializedThreads[p]
           /\ at[p].entry \in 1..Len(Dump[p][at[p].thread])
           /\ Command(p) \in Commands
<1>1. at[p].thread \in Threads /\ at[p].entry \in Nat \ {0}
  BY DEF TypeOK, Threads
<1>2. Dump[p][at[p].thread] \in Seq(Commands)
  BY <1>1, DumpAssumption
<1> QED
  BY <1>1, <1>2 DEF More, Command

\* The places a process can be at, and where it goes from there.
Place == [thread : 1..(T + 1), entry : Nat \ {0}, part : {"count", "command", "length", "datum"}]

LEMMA PlaceFacts ==
    ASSUME NEW a \in Place
    PROVE  /\ NextEntry(a) \in Place /\ NextEntry(a).thread = a.thread
           /\ NextEntry(a).entry = a.entry + 1 /\ NextEntry(a).part = "command"
           /\ a.thread <= T => NextThread(a) \in Place
           /\ NextThread(a).thread = a.thread + 1 /\ NextThread(a).entry = 1
           /\ NextThread(a).part = "command"
           /\ \A part \in {"count", "command", "length", "datum"} :
                 LET b == [a EXCEPT !.part = part]
                 IN  b \in Place /\ b.thread = a.thread /\ b.entry = a.entry /\ b.part = part
<1>1. \A part : [a EXCEPT !.part = part] = [thread |-> a.thread, entry |-> a.entry, part |-> part]
  BY DEF Place
<1> QED
  BY <1>1 DEF Place, NextEntry, NextThread

USE DEF Place

LEMMA InitInv == Init => Inv
<1> SUFFICES ASSUME Init PROVE Inv
  OBVIOUS
<1> USE ProcFacts DEF Init
<1>1. TypeOK
  BY DEF TypeOK, Nobody
<1>2. TurnInv /\ WroteInv /\ EmitInv
  BY DEF TurnInv, WroteInv, EmitInv, Start
<1>3. MasterInv
  BY DEF MasterInv
<1>4. FileInv
  <2>1. File!Written = {}
    BY DEF File!Written
  <2>2. file \in Seq(Universe) /\ closed = (phase[0] = "done")
    OBVIOUS
  <2>3. ASSUME NEW p \in Procs, NEW t \in Threads, NEW k \in 1..Len(Dump[p][t])
        PROVE  ~Passed(p, t, k)
    BY DEF Passed, Threads
  <2> QED
    BY <2>1, <2>2, <2>3 DEF FileInv
<1> QED
  BY <1>1, <1>2, <1>3, <1>4 DEF Inv

-----------------------------------------------------------------------------
(* One lemma per action, one step per conjunct.                            *)

\* Steps that leave the file and what was emitted as they are.
LEMMA FileKept ==
    ASSUME FileInv, UNCHANGED <<file, at, InitializedThreads>>, closed' = (phase'[0] = "done")
    PROVE  FileInv'
<1>1. File!Written' = File!Written
  BY DEF File!Written
<1>2. \A p, t, k : Passed(p, t, k)' <=> Passed(p, t, k)
  BY DEF Passed
<1> QED
  BY <1>1, <1>2 DEF FileInv

LEMMA OpenStep ==
    ASSUME Inv, NEW p \in Procs, open(p)
    PROVE  Inv'
<1> USE ProcFacts DEF Inv, open
<1>1. TypeOK'
  BY DEF TypeOK
<1>2. TurnInv' /\ WroteInv'
  BY SMTT(30) DEF TypeOK, TurnInv, WroteInv
<1>3. EmitInv'
  BY SMTT(30) DEF TypeOK, TurnInv, EmitInv, More, Command
<1>4. MasterInv'
  BY DEF TypeOK, TurnInv, MasterInv, Command
<1>5. FileInv'
  BY FileKept DEF TypeOK, FileInv
<1> QED
  BY <1>1, <1>2, <1>3, <1>4, <1>5

LEMMA DumpIdleStep ==
    ASSUME Inv, NEW p \in Procs, dump_idle(p)
    PROVE  Inv'
<1> USE ProcFacts DEF Inv, dump_idle
<1>1. TypeOK'
  BY DEF TypeOK
<1>2. TurnInv' /\ WroteInv'
  BY SMTT(30) DEF TypeOK, TurnInv, WroteInv
<1>3. EmitInv'
  BY SMTT(30) DEF TypeOK, TurnInv, EmitInv, More, Command
<1>4. MasterInv'
  BY DEF TypeOK, TurnInv, MasterInv, Command
<1>5. FileInv'
  BY FileKept DEF TypeOK, FileInv
<1> QED
  BY <1>1, <1>2, <1>3, <1>4, <1>5

LEMMA OwnDoneStep ==
    ASSUME Inv, dump_own_done
    PROVE  Inv'
<1> USE ProcFacts DEF Inv, dump_own_done, wrote
<1>1. TypeOK'
  BY DEF TypeOK
<1>2. TurnInv' /\ WroteInv'
  BY DEF TypeOK, TurnInv, WroteInv
<1>3. EmitInv'
  BY DEF TypeOK, TurnInv, EmitInv, More, Command
<1>4. MasterInv'
  BY DEF TypeOK, TurnInv, MasterInv, Command
<1>5. FileInv'
  BY FileKept DEF TypeOK, FileInv
<1> QED
  BY <1>1, <1>2, <1>3, <1>4, <1>5

LEMMA SlaveDoneStep ==
    ASSUME Inv, NEW p \in Procs, slave_done(p)
    PROVE  Inv'
<1> USE ProcFacts DEF Inv, slave_done, wrote
<1>1. TypeOK'
  BY DEF TypeOK
<1>2. TurnInv' /\ WroteInv'
  BY SMTT(30) DEF TypeOK, TurnInv, WroteInv
<1>3. EmitInv'
  BY SMTT(30) DEF TypeOK, TurnInv, EmitInv, More, Command
<1>4. MasterInv'
  BY DEF TypeOK, TurnInv, MasterInv, Command
<1>5. FileInv'
  BY FileKept DEF TypeOK, FileInv
<1> QED
  BY <1>1, <1>2, <1>3, <1>4, <1>5

LEMMA DumpFromDoneStep ==
    ASSUME Inv, dumpFrom_done
    PROVE  Inv'
<1> USE ProcFacts DEF Inv, dumpFrom_done
<1>1. TypeOK'
  BY DEF TypeOK
<1>2. TurnInv' /\ WroteInv'
  BY DEF TypeOK, TurnInv, WroteInv
<1>3. EmitInv'
  BY DEF TypeOK, TurnInv, EmitInv, More, Command
<1>4. MasterInv'
  BY DEF TypeOK, TurnInv, MasterInv, Command
<1>5. FileInv'
  BY FileKept DEF TypeOK, FileInv
<1> QED
  BY <1>1, <1>2, <1>3, <1>4, <1>5

LEMMA CloseStep ==
    ASSUME Inv, NEW p \in Procs, close(p)
    PROVE  Inv'
<1> USE ProcFacts DEF Inv, close
<1>1. TypeOK'
  BY DEF TypeOK
<1>2. TurnInv' /\ WroteInv'
  BY SMTT(30) DEF TypeOK, TurnInv, WroteInv
<1>3. EmitInv'
  BY DEF TypeOK, TurnInv, EmitInv, More, Command
<1>4. MasterInv'
  BY DEF TypeOK, TurnInv, MasterInv, Command
<1>5. FileInv'
  BY FileKept DEF TypeOK, FileInv
<1> QED
  BY <1>1, <1>2, <1>3, <1>4, <1>5

\* A process enters the next turn; the master then listens to a slave that
\* has not emitted anything yet.
LEMMA NextTurnFacts ==
    ASSUME Inv, NEW p \in Procs, phase[p] = "bcast", NextTurn(p)
    PROVE  /\ procWriting[p] \in Procs
           /\ procWriting' \in [Procs -> 0..P]
           /\ phase' \in [Procs -> {"open", "dump", "bcast", "close", "done"}]
           /\ procWriting'[p] = procWriting[p] + 1
           /\ phase'[p] = IF procWriting[p] + 1 < P THEN "dump" ELSE "close"
           /\ \A x \in Procs \ {p} : procWriting'[x] = procWriting[x] /\ phase'[x] = phase[x]
<1>1. procWriting \in [Procs -> 0..P] /\ phase \in [Procs -> {"open", "dump", "bcast", "close", "done"}]
  BY DEF Inv, TypeOK
<1>2. procWriting[p] < P
  BY DEF Inv, TurnInv
<1>3. procWriting[p] \in Procs /\ procWriting[p] + 1 \in 0..P
  BY <1>1, <1>2 DEF Procs
<1> QED
  BY <1>1, <1>3 DEF NextTurn

LEMMA NextTurnEmit ==
    ASSUME Inv, NEW p \in Procs, phase[p] = "bcast", NextTurn(p),
           UNCHANGED <<InitializedThreads, at, expect, left, got>>
    PROVE  EmitInv' /\ MasterInv'
<1> USE ProcFacts DEF Inv
<1>1. EmitInv'
  <2> SUFFICES ASSUME NEW x \in Procs
               PROVE  EmitInv!(x)'
    BY DEF EmitInv
  <2>1. procWriting \in [Procs -> 0..P]
    BY DEF TypeOK
  <2>2. (More(x) /\ Command(x) \notin Plain) => (More(x)' /\ Command(x)' \notin Plain)
    BY DEF More, Command
  <2>3. Command(x)' = Command(x)
    BY DEF Command
  <2>4. EmitInv!(x)
    BY DEF EmitInv
  <2>5. CASE x = p
    BY <2>1, <2>2, <2>3, <2>4, <2>5, NextTurnFacts
  <2>6. CASE x # p
    BY <2>1, <2>2, <2>3, <2>4, <2>6, NextTurnFacts
  <2> QED
    BY <2>5, <2>6
<1>2. CASE p # 0
  <2>1. procWriting'[0] = procWriting[0] /\ phase'[0] = phase[0]
    BY <1>2, NextTurnFacts
  <2>2. Command(procWriting[0])' = Command(procWriting[0])
    BY <2>1 DEF Command
  <2> QED
    BY <1>1, <2>1, <2>2 DEF MasterInv
<1>3. CASE p = 0
  <2>1. expect = "count"
    BY <1>3 DEF MasterInv, TypeOK
  <2>2. CASE procWriting[0] + 1 < P
    <3> DEFINE q == procWriting[0] + 1
    <3>1. q \in Procs /\ procWriting'[0] = q /\ procWriting[0] < q
      BY <1>3, <2>2, NextTurnFacts DEF Procs
    <3>2. at[q] = Start
      BY <3>1 DEF EmitInv
    <3>3. at'[q].part = "count"
      BY <3>2 DEF Start
    <3> HIDE DEF q
    <3> QED
      BY <1>1, <2>1, <3>1, <3>3 DEF MasterInv
  <2>3. CASE ~(procWriting[0] + 1 < P)
    BY <1>1, <1>3, <2>1, <2>3, NextTurnFacts DEF MasterInv
  <2> QED
    BY <2>2, <2>3
<1> QED
  BY <1>1, <1>2, <1>3

LEMMA BcastRootStep ==
    ASSUME Inv, NEW p \in Procs, bcast_root(p)
    PROVE  Inv'
<1> USE ProcFacts DEF Inv
<1>1. /\ phase[p] = "bcast" /\ procWriting[p] = p /\ NextTurn(p)
      /\ UNCHANGED <<InitializedThreads, procWrote, at, expect, left, got, file, closed>>
  BY DEF bcast_root
<1>2. procWrote[p] = p
  BY <1>1 DEF WroteInv
<1>3. announced' = [announced EXCEPT ![p] = <<p>>]
  BY <1>2 DEF bcast_root
<1>0. /\ procWriting' \in [Procs -> 0..P]
      /\ procWriting'[p] = procWriting[p] + 1
      /\ phase'[p] = IF procWriting[p] + 1 < P THEN "dump" ELSE "close"
      /\ \A x \in Procs \ {p} : procWriting'[x] = procWriting[x] /\ phase'[x] = phase[x]
  BY <1>1, NextTurnFacts
<1>4. TypeOK'
  <2>1. announced' \in [Procs -> {<<>>} \cup {<<v>> : v \in 0..P}]
    BY <1>3 DEF TypeOK
  <2>2. phase' \in [Procs -> {"open", "dump", "bcast", "close", "done"}]
    BY <1>1, NextTurnFacts
  <2> QED
    BY <1>0, <1>1, <2>1, <2>2 DEF TypeOK
<1>5. TurnInv'
  <2> SUFFICES ASSUME NEW x \in Procs PROVE TurnInv!(x)'
    BY DEF TurnInv
  <2>1. TurnInv!(x) /\ procWriting \in [Procs -> 0..P]
    BY DEF TurnInv, TypeOK
  <2>2. phase'[x] = "open" => procWriting'[x] = 0
    BY <1>0, <1>1, <2>1
  <2>3. IF phase'[x] \in {"close", "done"} THEN procWriting'[x] = P ELSE procWriting'[x] < P
    BY <1>0, <1>1, <2>1
  <2>4. announced'[x] = IF procWriting'[x] > x THEN <<x>> ELSE <<>>
    <3>1. announced \in [Procs -> {<<>>} \cup {<<v>> : v \in 0..P}]
      BY DEF TypeOK
    <3>2. CASE x = p
      BY <1>0, <1>1, <1>3, <2>1, <3>1, <3>2
    <3>3. CASE x # p
      <4>1. announced'[x] = announced[x]
        BY <1>3, <3>1, <3>3
      <4> QED
        BY <1>0, <2>1, <3>3, <4>1
    <3> QED
      BY <3>2, <3>3
  <2>5. ASSUME NEW y \in Procs, y < procWriting'[x]
        PROVE  procWriting'[y] > y
    <3>1. y < procWriting[x] \/ (x = p /\ y = procWriting[p])
      BY <1>0, <2>1, <2>5
    <3>2. procWriting[y] > y \/ (y = p /\ procWriting[p] = p)
      BY <1>1, <2>1, <3>1
    <3> QED
      BY <1>0, <2>1, <3>2
  <2> QED
    BY <2>2, <2>3, <2>4, <2>5
<1>6. WroteInv'
  <2> SUFFICES ASSUME NEW x \in Procs PROVE WroteInv!(x)'
    BY DEF WroteInv
  <2>1. WroteInv!(x)
    BY DEF WroteInv
  <2> QED
    BY <1>0, <1>1, <1>2, <2>1
<1>7. EmitInv' /\ MasterInv'
  BY <1>1, NextTurnEmit
<1>8. FileInv'
  BY <1>1, FileKept, NextTurnFacts DEF TypeOK, FileInv
<1> QED
  BY <1>4, <1>5, <1>6, <1>7, <1>8

LEMMA BcastReceiveStep ==
    ASSUME Inv, NEW p \in Procs, bcast_receive(p)
    PROVE  Inv'
<1> USE ProcFacts DEF Inv
<1> DEFINE q == procWriting[p]
<1>1. /\ phase[p] = "bcast" /\ q # p /\ announced[q] # <<>>
      /\ procWrote' = [procWrote EXCEPT ![p] = announced[q][1]]
      /\ NextTurn(p)
      /\ UNCHANGED <<InitializedThreads, announced, at, expect, left, got, file, closed>>
  BY DEF bcast_receive
<1>2. q \in Procs
  BY <1>1, NextTurnFacts
<1>3. announced[q] = <<q>> /\ procWriting[q] > q
  BY <1>1, <1>2 DEF TurnInv
<1>4. procWrote' = [procWrote EXCEPT ![p] = q]
  BY <1>1, <1>3
<1>0. /\ procWriting' \in [Procs -> 0..P]
      /\ procWriting'[p] = procWriting[p] + 1
      /\ phase'[p] = IF procWriting[p] + 1 < P THEN "dump" ELSE "close"
      /\ \A x \in Procs \ {p} : procWriting'[x] = procWriting[x] /\ phase'[x] = phase[x]
  BY <1>1, NextTurnFacts
<1> HIDE DEF q
<1>5. TypeOK'
  <2>1. procWrote' \in [Procs -> 0..P]
    BY <1>2, <1>4, SMTT(30) DEF TypeOK
  <2> QED
    BY <1>1, <2>1, NextTurnFacts DEF TypeOK
<1>6. TurnInv'
  <2> SUFFICES ASSUME NEW x \in Procs PROVE TurnInv!(x)'
    BY DEF TurnInv
  <2>1. TurnInv!(x) /\ procWriting \in [Procs -> 0..P]
    BY DEF TurnInv, TypeOK
  <2>2. phase'[x] = "open" => procWriting'[x] = 0
    BY <1>0, <1>1, <2>1
  <2>3. IF phase'[x] \in {"close", "done"} THEN procWriting'[x] = P ELSE procWriting'[x] < P
    BY <1>0, <1>1, <2>1
  <2>4. announced'[x] = IF procWriting'[x] > x THEN <<x>> ELSE <<>>
    BY <1>0, <1>1, <1>2, <1>3, <2>1 DEF q
  <2>5. ASSUME NEW y \in Procs, y < procWriting'[x]
        PROVE  procWriting'[y] > y
    <3>1. y < procWriting[x] \/ (x = p /\ y = procWriting[p])
      BY <1>0, <2>1, <2>5
    <3>2. procWriting[y] > y \/ (y = p /\ procWriting[p] = p)
      BY <1>3, <2>1, <3>1 DEF q
    <3> QED
      BY <1>0, <2>1, <3>2
  <2> QED
    BY <2>2, <2>3, <2>4, <2>5
<1>7. WroteInv'
  <2> SUFFICES ASSUME NEW x \in Procs PROVE WroteInv!(x)'
    BY DEF WroteInv
  <2>1. WroteInv!(x) /\ procWriting[p] = q /\ procWrote \in [Procs -> 0..P]
    BY DEF WroteInv, q, TypeOK
  <2> QED
    BY <1>0, <1>1, <1>2, <1>4, <2>1, SMTT(30)
<1>8. EmitInv' /\ MasterInv'
  BY <1>1, NextTurnEmit
<1>9. FileInv'
  BY <1>1, FileKept, NextTurnFacts DEF TypeOK, FileInv
<1> QED
  BY <1>5, <1>6, <1>7, <1>8, <1>9

-----------------------------------------------------------------------------
(* The steps that emit entries.                                            *)

LEMMA AppendFacts ==
    ASSUME NEW S, NEW q \in Seq(S), NEW e \in S
    PROVE  /\ Append(q, e) \in Seq(S) /\ Append(q, e) # q
           /\ {Append(q, e)[i] : i \in 1..Len(Append(q, e))} = {q[i] : i \in 1..Len(q)} \cup {e}
<1> DEFINE r == Append(q, e)
<1>1. /\ r \in Seq(S) /\ Len(q) \in Nat /\ Len(r) = Len(q) + 1 /\ r[Len(q) + 1] = e
      /\ \A i \in 1..Len(q) : r[i] = q[i]
  OBVIOUS
<1>2. 1..Len(r) = 1..Len(q) \cup {Len(q) + 1}
  BY <1>1
<1> HIDE DEF r
<1>3. {r[i] : i \in 1..Len(r)} = {q[i] : i \in 1..Len(q)} \cup {e}
  BY <1>1, <1>2
<1>4. r # q
  BY <1>1
<1> QED
  BY <1>1, <1>3, <1>4 DEF r

\* A step of p that passes at most the entry it is at, and writes just that.
LEMMA FileStep ==
    ASSUME TypeOK, FileInv, NEW p \in Procs, at[p].thread <= T,
           NEW a, at' = [at EXCEPT ![p] = a],
           UNCHANGED <<InitializedThreads, phase, closed>>,
           \/ /\ More(p) /\ file' = Append(file, <<p, at[p].thread, at[p].entry>>)
              /\ a.thread = at[p].thread /\ a.entry = at[p].entry + 1
           \/ /\ ~More(p) /\ UNCHANGED file
              /\ a.thread = at[p].thread + 1 /\ a.entry = 1
           \/ /\ UNCHANGED file
              /\ a.thread = at[p].thread /\ a.entry = at[p].entry
    PROVE  FileInv'
<1> USE ProcFacts
<1> DEFINE now == <<p, at[p].thread, at[p].entry>>
<1>1. /\ at \in [Procs -> Place]
      /\ InitializedThreads \in [Procs -> SUBSET Threads]
      /\ file \in Seq(Universe)
  BY DEF TypeOK, FileInv, Place
<1>2. More(p) => now \in Universe
  <2> SUFFICES ASSUME More(p) PROVE now \in Universe
    OBVIOUS
  <2>1. at[p].thread \in Threads /\ at[p].entry \in 1..Len(Dump[p][at[p].thread])
    BY CommandType
  <2>2. now \in EntriesOf(p, at[p].thread)
    BY <2>1 DEF EntriesOf
  <2> QED
    BY <2>1, <2>2 DEF Universe
<1> HIDE DEF now
<1>3. file' \in Seq(Universe)
  <2>1. CASE UNCHANGED file
    BY <1>1, <2>1
  <2>2. CASE More(p) /\ file' = Append(file, now)
    BY <1>1, <1>2, <2>2, AppendFacts
  <2> QED
    BY <2>1, <2>2 DEF now
<1>4. File!Written' = IF file' = file THEN File!Written ELSE File!Written \cup {now}
  <2>1. CASE UNCHANGED file
    BY <2>1 DEF File!Written
  <2>2. CASE More(p) /\ file' = Append(file, now)
    <3>1. /\ file' # file
          /\ {file'[i] : i \in 1..Len(file')} = {file[i] : i \in 1..Len(file)} \cup {now}
      BY <1>1, <1>2, <2>2, AppendFacts, SMTT(30)
    <3> QED
      BY <3>1 DEF File!Written
  <2> QED
    BY <2>1, <2>2 DEF now
<1>5. ASSUME NEW x \in Procs, NEW t \in Threads, NEW k \in 1..Len(Dump[x][t])
      PROVE  <<x, t, k>> \in File!Written' <=> Passed(x, t, k)'
  <2>1. <<x, t, k>> \in File!Written <=> Passed(x, t, k)
    BY DEF FileInv
  <2>2. CASE x # p
    <3>1. Passed(x, t, k)' <=> Passed(x, t, k)
      BY <1>1, <2>2 DEF Passed
    <3>2. <<x, t, k>> # now
      BY <2>2 DEF now
    <3> QED
      BY <1>4, <2>1, <3>1, <3>2
  <2>3. CASE x = p
    <3>1. /\ at[p].thread \in Nat /\ at[p].entry \in Nat \ {0} /\ t \in Nat /\ k \in Nat \ {0}
          /\ at'[p] = a
      <4>1. at'[p] = a
        BY <1>1
      <4>2. at[p] \in Place
        BY <1>1
      <4> QED
        BY <4>1, <4>2, SMTT(30) DEF Threads
    <3>2. Passed(p, t, k)' <=> t \in InitializedThreads[p] /\ (t < a.thread \/ (t = a.thread /\ k < a.entry))
      BY <3>1 DEF Passed
    <3>3. CASE More(p) /\ file' = Append(file, now) /\ a.thread = at[p].thread /\ a.entry = at[p].entry + 1
      <4>1. at[p].thread \in InitializedThreads[p]
        BY <3>3 DEF More
      <4>2. <<x, t, k>> = now <=> t = at[p].thread /\ k = at[p].entry
        BY <2>3 DEF now
      <4>3. <<x, t, k>> \in File!Written' <=> <<x, t, k>> \in File!Written \/ <<x, t, k>> = now
        <5>1. file' # file
          BY <1>1, <1>2, <3>3, AppendFacts
        <5> QED
          BY <1>4, <5>1
      <4> QED
        BY <2>1, <2>3, <3>1, <3>2, <3>3, <4>1, <4>2, <4>3 DEF Passed
    <3>4. CASE ~More(p) /\ UNCHANGED file /\ a.thread = at[p].thread + 1 /\ a.entry = 1
      BY <1>4, <2>1, <2>3, <3>1, <3>2, <3>4, DumpAssumption, SMTT(30) DEF Passed, More
    <3>5. CASE UNCHANGED file /\ a.thread = at[p].thread /\ a.entry = at[p].entry
      BY <1>4, <2>1, <2>3, <3>1, <3>2, <3>5 DEF Passed
    <3> QED
      BY <3>3, <3>4, <3>5 DEF now
  <2> QED
    BY <2>2, <2>3
<1>6. closed' = (phase'[0] = "done")
  BY DEF FileInv
<1> QED
  BY <1>3, <1>5, <1>6 DEF FileInv

LEMMA TurnKept ==
    ASSUME TurnInv, WroteInv, UNCHANGED <<phase, procWriting, procWrote, announced>>
    PROVE  TurnInv' /\ WroteInv'
BY DEF TurnInv, WroteInv

\* Where p goes from at[p] in its turn.
LEMMA EmitStep ==
    ASSUME Inv, NEW p \in Procs, phase[p] = "dump", procWriting[p] = p, procWriting[0] = p,
           UNCHANGED <<InitializedThreads, phase, procWriting>>,
           NEW a \in Place,
           at' = [at EXCEPT ![p] = a], a.part # "count",
           a.part \in {"length", "datum"} =>
              /\ p # 0 /\ a.thread = at[p].thread /\ a.entry = at[p].entry /\ a.thread <= T /\ More(p)
              /\ Command(p) \notin Plain /\ (a.part = "length" => Command(p) = "STRING")
    PROVE  EmitInv'
<1> USE ProcFacts
<1>1. at \in [Procs -> Place]
  BY DEF Inv, TypeOK
<1> SUFFICES ASSUME NEW x \in Procs PROVE EmitInv!(x)'
  BY DEF EmitInv
<1>2. EmitInv!(x)
  BY DEF Inv, EmitInv
<1>3. CASE x = p
  <2>1. at'[p] = a
    BY <1>1
  <2>2. a.thread = at[p].thread /\ a.entry = at[p].entry =>
            (More(p) => More(p)') /\ Command(p)' = Command(p)
    BY <2>1 DEF More, Command
  <2> QED
    BY <1>3, <2>1, <2>2
<1>4. CASE x # p
  <2>1. at'[x] = at[x]
    BY <1>1, <1>4
  <2>2. (More(x) => More(x)') /\ Command(x)' = Command(x)
    BY <2>1 DEF More, Command
  <2> QED
    BY <1>2, <2>1, <2>2
<1> QED
  BY <1>3, <1>4

LEMMA DumpOwnStep ==
    ASSUME Inv, dump_own
    PROVE  Inv'
<1> USE ProcFacts DEF Inv
<1> DEFINE a == IF More(0) THEN NextEntry(at[0]) ELSE NextThread(at[0])
<1>1. at[0] \in Place
  BY DEF TypeOK
<1>2. /\ a \in Place
      /\ a.part = "command" /\ at' = [at EXCEPT ![0] = a]
      /\ More(0) => a.thread = at[0].thread /\ a.entry = at[0].entry + 1
      /\ ~More(0) => a.thread = at[0].thread + 1 /\ a.entry = 1
  <2>1. CASE More(0)
    BY <1>1, <2>1, PlaceFacts DEF dump_own
  <2>2. CASE ~More(0)
    BY <1>1, <2>2, PlaceFacts DEF dump_own
  <2> QED
    BY <2>1, <2>2
<1>3. /\ phase[0] = "dump" /\ procWriting[0] = 0 /\ at[0].thread <= T
      /\ IF More(0) THEN file' = Append(file, <<0, at[0].thread, at[0].entry>>) ELSE UNCHANGED file
      /\ UNCHANGED <<InitializedThreads, phase, procWriting, procWrote, announced, expect, left, got, closed>>
  BY DEF dump_own
<1> HIDE DEF a
<1>4. TypeOK'
  BY <1>2, <1>3 DEF TypeOK
<1>5. TurnInv' /\ WroteInv'
  BY <1>3, TurnKept
<1>6. EmitInv'
  BY <1>2, <1>3, EmitStep
<1>7. MasterInv'
  BY <1>3 DEF MasterInv
<1>8. FileInv'
  BY <1>2, <1>3, FileStep
<1> QED
  BY <1>4, <1>5, <1>6, <1>7, <1>8

\* The steps of dump and dumpFrom that go together.
LEMMA TurnFacts ==
    ASSUME Inv, NEW p \in Procs, Turn(p)
    PROVE  /\ p # 0 /\ phase[p] = "dump" /\ procWriting[p] = p /\ phase[0] = "dump" /\ procWriting[0] = p
           /\ at[p] \in Place
           /\ at[p].part = "count" => expect = "count" /\ at[p] = Start
           /\ at[p].part # "count" =>
                 /\ left = T + 1 - at[p].thread
                 /\ expect = IF at[p].part = "datum" THEN Command(p) ELSE at[p].part
           /\ at[p].part \in {"length", "datum"} =>
                 /\ got = <<p, at[p].thread, at[p].entry>>
                 /\ at[p].thread <= T /\ More(p) /\ Command(p) \notin Plain
                 /\ at[p].part = "length" => Command(p) = "STRING"
<1>1. at[p] \in Place
  BY DEF Inv, TypeOK
<1>2. MasterInv /\ EmitInv!(p)
  BY DEF Inv, EmitInv
<1> QED
  BY <1>1, <1>2 DEF Turn, MasterInv

LEMMA CountStep ==
    ASSUME Inv, NEW p \in Procs, exchange_count(p)
    PROVE  Inv'
<1> USE ProcFacts DEF Inv
<1> DEFINE a == [thread |-> 1, entry |-> 1, part |-> "command"]
<1>1. Turn(p) /\ at[p].part = "count"
  BY DEF exchange_count
<1>2. at[p] = Start /\ p # 0 /\ phase[0] = "dump" /\ procWriting[0] = p
  BY <1>1, TurnFacts
<1>3. Advanced(p) = a
  BY <1>2 DEF Advanced, Start
<1>4. /\ at' = [at EXCEPT ![p] = a] /\ left' = T /\ expect' = "command"
      /\ UNCHANGED <<InitializedThreads, phase, procWriting, procWrote, announced, got, file, closed>>
  BY <1>3 DEF exchange_count, thread_count
<1>5. a \in Place
  OBVIOUS
<1>6. TypeOK'
  BY <1>4, <1>5 DEF TypeOK
<1>7. TurnInv' /\ WroteInv'
  BY <1>4, TurnKept
<1>8. EmitInv'
  BY <1>1, <1>4, <1>5, TurnFacts, EmitStep
<1>9. MasterInv'
  <2>1. at'[p] = a
    BY <1>4 DEF TypeOK
  <2> QED
    BY <1>2, <1>4, <2>1 DEF MasterInv
<1>10. FileInv'
  <2>1. File!Written' = File!Written
    BY <1>4 DEF File!Written
  <2>2. \A x \in Procs : \A t, k : Passed(x, t, k)' <=> Passed(x, t, k)
    BY <1>2, <1>4, SMTT(30) DEF Passed, TypeOK, Start
  <2> QED
    BY <1>4, <2>1, <2>2 DEF FileInv
<1> QED
  BY <1>6, <1>7, <1>8, <1>9, <1>10

LEMMA CommandStep ==
    ASSUME Inv, NEW p \in Procs, exchange_command(p)
    PROVE  Inv'
<1> USE ProcFacts DEF Inv
<1> DEFINE a == Advanced(p)
           e == <<p, at[p].thread, at[p].entry>>
<1>1. /\ Turn(p) /\ at[p].part = "command" /\ at[p].thread <= T /\ at' = [at EXCEPT ![p] = a]
      /\ UNCHANGED <<InitializedThreads, phase, procWriting, procWrote, announced, closed>>
  BY DEF exchange_command
<1>2. /\ p # 0 /\ phase[p] = "dump" /\ procWriting[p] = p /\ phase[0] = "dump" /\ procWriting[0] = p
      /\ at[p] \in Place /\ expect = "command" /\ left = T + 1 - at[p].thread
  BY <1>1, TurnFacts
<1>3. More(p) => Command(p) \in Commands
  BY <1>1, CommandType
<1>4. /\ a \in Place /\ a.part # "count"
      /\ ~More(p) => a.thread = at[p].thread + 1 /\ a.entry = 1 /\ a.part = "command"
      /\ More(p) /\ Command(p) \in Plain =>
            a.thread = at[p].thread /\ a.entry = at[p].entry + 1 /\ a.part = "command"
      /\ More(p) /\ Command(p) \notin Plain =>
            /\ a.thread = at[p].thread /\ a.entry = at[p].entry
            /\ a.part = IF Command(p) = "STRING" THEN "length" ELSE "datum"
  <2>1. CASE ~More(p)
    BY <1>1, <1>2, <2>1, PlaceFacts DEF Advanced
  <2>2. CASE More(p) /\ Command(p) \in Plain
    BY <1>1, <1>2, <2>2, PlaceFacts DEF Advanced
  <2>3. CASE More(p) /\ Command(p) \notin Plain
    <3>1. a = [at[p] EXCEPT !.part = IF Command(p) = "STRING" THEN "length" ELSE "datum"]
      BY <1>1, <2>3 DEF Advanced, first_part
    <3> QED
      BY <1>2, <2>3, <3>1, PlaceFacts
  <2> QED
    BY <2>1, <2>2, <2>3
<1>5. at'[p] = a
  BY <1>1 DEF TypeOK
<1> HIDE DEF a
<1>6. TurnInv' /\ WroteInv'
  BY <1>1, TurnKept
<1>7. EmitInv'
  BY <1>1, <1>2, <1>4, EmitStep
<1>8. Command(p)' = Command(p) \/ ~More(p) \/ Command(p) \in Plain
  BY <1>4, <1>5 DEF Command
<1>9. CASE ~More(p)
  <2>1. left' = left - 1 /\ UNCHANGED <<expect, got, file>>
    BY <1>9 DEF exchange_command
  <2>2. TypeOK'
    <3>1. left' \in 0..T
      BY <1>1, <1>2, <2>1
    <3> QED
      BY <1>1, <1>4, <2>1, <3>1 DEF TypeOK
  <2>3. MasterInv'
    BY <1>1, <1>2, <1>4, <1>5, <1>9, <2>1 DEF MasterInv
  <2>4. FileInv'
    BY <1>1, <1>4, <1>9, <2>1, FileStep
  <2> QED
    BY <1>6, <1>7, <2>2, <2>3, <2>4
<1>10. CASE More(p) /\ Command(p) \in Plain
  <2>1. file' = Append(file, e) /\ expect' = "command" /\ UNCHANGED <<got, left>>
    <3>1. file' = Append(file, e) /\ UNCHANGED <<got, left>>
      BY <1>10 DEF exchange_command
    <3>2. expect' = "command"
      BY <1>10 DEF exchange_command, Plain
    <3> QED
      BY <3>1, <3>2
  <2>2. TypeOK'
    BY <1>1, <1>2, <1>4, <2>1 DEF TypeOK
  <2>3. MasterInv'
    BY <1>1, <1>2, <1>4, <1>5, <1>10, <2>1 DEF MasterInv
  <2>4. FileInv'
    BY <1>1, <1>4, <1>10, <2>1, FileStep
  <2> QED
    BY <1>6, <1>7, <2>2, <2>3, <2>4
<1>11. CASE More(p) /\ Command(p) \notin Plain
  <2>1. /\ expect' = IF Command(p) = "STRING" THEN "length" ELSE Command(p)
        /\ got' = e /\ UNCHANGED <<file, left>>
    BY <1>11 DEF exchange_command
  <2>2. TypeOK'
    BY <1>1, <1>2, <1>3, <1>4, <1>11, <2>1 DEF TypeOK
  <2>3. MasterInv'
    BY <1>1, <1>2, <1>4, <1>5, <1>8, <1>11, <2>1 DEF MasterInv
  <2>4. FileInv'
    BY <1>1, <1>4, <1>11, <2>1, FileStep
  <2> QED
    BY <1>6, <1>7, <2>2, <2>3, <2>4
<1> QED
  BY <1>9, <1>10, <1>11

LEMMA LengthStep ==
    ASSUME Inv, NEW p \in Procs, exchange_length(p)
    PROVE  Inv'
<1> USE ProcFacts DEF Inv
<1> DEFINE a == [at[p] EXCEPT !.part = "datum"]
<1>1. /\ Turn(p) /\ at[p].part = "length" /\ expect' = "STRING"
      /\ UNCHANGED <<InitializedThreads, phase, procWriting, procWrote, announced, left, got, file, closed>>
  BY DEF exchange_length
<1>2. /\ p # 0 /\ phase[p] = "dump" /\ procWriting[p] = p /\ phase[0] = "dump" /\ procWriting[0] = p
      /\ at[p] \in Place /\ left = T + 1 - at[p].thread
      /\ got = <<p, at[p].thread, at[p].entry>>
      /\ at[p].thread <= T /\ More(p) /\ Command(p) = "STRING"
  BY <1>1, TurnFacts
<1>3. at' = [at EXCEPT ![p] = a]
  BY <1>1 DEF exchange_length, Advanced
<1>4. a \in Place /\ a.thread = at[p].thread /\ a.entry = at[p].entry /\ a.part = "datum"
  BY <1>2, PlaceFacts
<1> HIDE DEF a
<1>5. at'[p] = a
  BY <1>3 DEF TypeOK
<1>6. TypeOK'
  BY <1>1, <1>3, <1>4 DEF TypeOK, Commands
<1>7. TurnInv' /\ WroteInv'
  BY <1>1, TurnKept
<1>8. EmitInv'
  BY <1>1, <1>2, <1>3, <1>4, EmitStep DEF Plain
<1>9. MasterInv'
  <2>1. Command(p)' = Command(p)
    BY <1>4, <1>5 DEF Command
  <2> QED
    BY <1>1, <1>2, <1>4, <1>5, <2>1 DEF MasterInv
<1>10. FileInv'
  BY <1>1, <1>2, <1>3, <1>4, FileStep
<1> QED
  BY <1>6, <1>7, <1>8, <1>9, <1>10

LEMMA DatumStep ==
    ASSUME Inv, NEW p \in Procs, exchange_datum(p)
    PROVE  Inv'
<1> USE ProcFacts DEF Inv
<1> DEFINE a == NextEntry(at[p])
<1>1. /\ Turn(p) /\ at[p].part = "datum" /\ expect' = "command" /\ file' = Append(file, got)
      /\ UNCHANGED <<InitializedThreads, phase, procWriting, procWrote, announced, left, got, closed>>
  BY DEF exchange_datum
<1>2. /\ p # 0 /\ phase[p] = "dump" /\ procWriting[p] = p /\ phase[0] = "dump" /\ procWriting[0] = p
      /\ at[p] \in Place /\ left = T + 1 - at[p].thread
      /\ got = <<p, at[p].thread, at[p].entry>>
      /\ at[p].thread <= T /\ More(p)
  BY <1>1, TurnFacts
<1>3. at' = [at EXCEPT ![p] = a]
  BY <1>1 DEF exchange_datum, Advanced
<1>4. a \in Place /\ a.thread = at[p].thread /\ a.entry = at[p].entry + 1 /\ a.part = "command"
  BY <1>2, PlaceFacts
<1> HIDE DEF a
<1>5. at'[p] = a
  BY <1>3 DEF TypeOK
<1>6. TypeOK'
  BY <1>1, <1>3, <1>4 DEF TypeOK
<1>7. TurnInv' /\ WroteInv'
  BY <1>1, TurnKept
<1>8. EmitInv'
  BY <1>1, <1>2, <1>3, <1>4, EmitStep
<1>9. MasterInv'
  BY <1>1, <1>2, <1>4, <1>5 DEF MasterInv
<1>10. FileInv'
  BY <1>1, <1>2, <1>3, <1>4, FileStep
<1> QED
  BY <1>6, <1>7, <1>8, <1>9, <1>10

LEMMA NextInv == Inv /\ [Next]_vars => Inv'
<1> SUFFICES ASSUME Inv, [Next]_vars PROVE Inv'
  OBVIOUS
<1>1. CASE UNCHANGED vars
  <2>1. UNCHANGED <<InitializedThreads, phase, procWriting, procWrote, announced, at,
                    expect, left, got, file, closed>>
    BY <1>1 DEF vars
  <2>2. TypeOK' /\ TurnInv' /\ WroteInv'
    BY <2>1, TurnKept DEF Inv, TypeOK
  <2>3. EmitInv'
    BY <2>1 DEF Inv, EmitInv, More, Command
  <2>4. MasterInv'
    BY <2>1 DEF Inv, MasterInv, Command
  <2>5. FileInv'
    BY <2>1, FileKept DEF Inv, FileInv
  <2> QED
    BY <2>2, <2>3, <2>4, <2>5 DEF Inv
<1>2. ASSUME NEW p \in Procs, Process(p) PROVE Inv'
  BY <1>2, OpenStep, DumpIdleStep, CountStep, CommandStep, LengthStep, DatumStep,
     SlaveDoneStep, BcastRootStep, BcastReceiveStep, CloseStep DEF Process
<1> QED
  BY <1>1, <1>2, DumpOwnStep, OwnDoneStep, DumpFromDoneStep DEF Next

-----------------------------------------------------------------------------
(* The theorems.                                                           *)

\* The invariant of end_app holds in every run, for any number of processes
\* and threads, any initialised threads and any entries.
THEOREM Invariance == Spec => []Inv
BY InitInv, NextInv, PTL DEF Spec

\* The variables keep their types.
THEOREM TypeCorrect == Spec => []TypeOK
<1>1. Inv => TypeOK
  BY DEF Inv
<1> QED
  BY <1>1, Invariance, PTL

\* dump and dumpFrom never drift apart: whatever the slave whose turn it is
\* sends next is what the master's MPI_Recv asks for.
THEOREM InStep == Spec => []ProtocolInStep
<1>1. Inv => ProtocolInStep
  <2> SUFFICES ASSUME Inv, NEW p \in Procs, Turn(p)
               PROVE  ProtocolInStep!(p)!2
    BY DEF ProtocolInStep
  <2> QED
    BY TurnFacts DEF Sends, Start
<1> QED
  BY <1>1, Invariance, PTL

\* The assertion procWrote == procWriting of end_app holds after every turn.
THEOREM Agreement == Spec => []TurnAgreed
<1>1. Inv => TurnAgreed
  BY DEF Inv, WroteInv, TurnAgreed
<1> QED
  BY <1>1, Invariance, PTL

-----------------------------------------------------------------------------
(* JSONdump implements JSONfile.                                           *)

\* The entries the file should have never change, and an entry of a process
\* that has passed all its threads is in the file.
LEMMA WantedFacts ==
    ASSUME Inv
    PROVE  \A e \in Wanted : \E p \in Procs, t \in Threads : \E k \in 1..Len(Dump[p][t]) :
              /\ e = <<p, t, k>> /\ t \in InitializedThreads[p]
              /\ e \in File!Written <=> Passed(p, t, k)
<1> SUFFICES ASSUME NEW e \in Wanted
             PROVE  \E p \in Procs, t \in Threads : \E k \in 1..Len(Dump[p][t]) :
                       /\ e = <<p, t, k>> /\ t \in InitializedThreads[p]
                       /\ e \in File!Written <=> Passed(p, t, k)
  OBVIOUS
<1>1. PICK p \in Procs, t \in Threads : e \in EntriesOf(p, t)
  BY DEF Wanted, Universe
<1>2. PICK k \in 1..Len(Dump[p][t]) : e = <<p, t, k>>
  BY <1>1 DEF EntriesOf
<1>3. t \in InitializedThreads[p]
  BY <1>2 DEF Wanted
<1>4. e \in File!Written <=> Passed(p, t, k)
  BY <1>2 DEF Inv, FileInv
<1> QED
  BY <1>2, <1>3, <1>4

\* When process p writes the entry it is at, all entries before it are there.
LEMMA WriteRefines ==
    ASSUME Inv, NEW p \in Procs, phase[0] = "dump", procWriting[0] = p,
           at[p].thread <= T, More(p),
           file' = Append(file, <<p, at[p].thread, at[p].entry>>),
           UNCHANGED <<InitializedThreads, closed>>
    PROVE  File!Next
<1> USE ProcFacts
<1> DEFINE e == <<p, at[p].thread, at[p].entry>>
<1>1. /\ at[p].thread \in Threads /\ at[p].thread \in InitializedThreads[p]
      /\ at[p].entry \in 1..Len(Dump[p][at[p].thread])
  BY CommandType DEF Inv
<1>2. e \in Universe
  <2>1. e \in EntriesOf(p, at[p].thread)
    BY <1>1 DEF EntriesOf
  <2> QED
    BY <1>1, <2>1 DEF Universe
<1>3. e \in Wanted
  BY <1>1, <1>2 DEF Wanted
<1>4. e \notin File!Written
  <2>1. ~Passed(p, at[p].thread, at[p].entry)
    BY <1>1 DEF Passed, Threads
  <2> QED
    BY <1>1, <2>1 DEF Inv, FileInv
<1>5. ~closed
  BY DEF Inv, FileInv
<1>6. ASSUME NEW x \in Wanted, File!Before(x, e)
      PROVE  x \in File!Written
  <2>1. PICK q \in Procs, t \in Threads, k \in Nat :
            x = <<q, t, k>> /\ t \in InitializedThreads[q] /\ (Passed(q, t, k) => x \in File!Written)
    BY WantedFacts
  <2>2. q < p \/ (q = p /\ t < at[p].thread) \/ (q = p /\ t = at[p].thread /\ k < at[p].entry)
    BY <1>6, <2>1 DEF File!Before
  <2>3. CASE q < p
    <3>1. procWriting[q] > q
      BY <2>3 DEF Inv, TurnInv
    <3>2. at[q].thread = T + 1
      BY <3>1 DEF Inv, EmitInv
    <3> QED
      BY <2>1, <3>2 DEF Passed, Threads
  <2>4. CASE q = p
    BY <2>1, <2>2, <2>4 DEF Passed, Threads
  <2> QED
    BY <2>2, <2>3, <2>4
<1>7. UNCHANGED Wanted
  BY DEF Wanted
<1>8. File!Write(e)
  BY <1>3, <1>4, <1>5, <1>6, <1>7 DEF File!Write
<1> QED
  BY <1>2, <1>8 DEF File!Next

\* The master closes the file when every process has passed all its threads.
LEMMA CloseRefines ==
    ASSUME Inv, close(0)
    PROVE  File!Next
<1> USE ProcFacts
<1>1. phase[0] = "close" /\ closed' = TRUE /\ UNCHANGED <<InitializedThreads, file>>
  BY DEF close
<1>2. ~closed
  BY <1>1 DEF Inv, FileInv
<1>3. ASSUME NEW e \in Wanted PROVE e \in File!Written
  <2>1. PICK p \in Procs, t \in Threads, k \in Nat :
            t \in InitializedThreads[p] /\ (Passed(p, t, k) => e \in File!Written)
    BY WantedFacts
  <2>2. procWriting[p] > p
    <3>1. procWriting[0] = P
      BY <1>1 DEF Inv, TurnInv
    <3> QED
      BY <3>1 DEF Inv, TurnInv
  <2>3. at[p].thread = T + 1
    BY <2>2 DEF Inv, EmitInv
  <2> QED
    BY <2>1, <2>3 DEF Passed, Threads
<1>4. UNCHANGED Wanted
  BY <1>1 DEF Wanted
<1> QED
  BY <1>1, <1>2, <1>3, <1>4 DEF File!Next, File!Close

\* Steps that neither write nor close.
LEMMA QuietRefines ==
    ASSUME UNCHANGED <<InitializedThreads, file, closed>>
    PROVE  UNCHANGED File!vars
BY DEF File!vars, Wanted

LEMMA StepRefines == Inv /\ [Next]_vars => [File!Next]_(File!vars)
<1> SUFFICES ASSUME Inv, [Next]_vars PROVE [File!Next]_(File!vars)
  OBVIOUS
<1> USE ProcFacts
<1>1. CASE UNCHANGED vars
  BY <1>1, QuietRefines DEF vars
<1>2. CASE dump_own
  <2>1. phase[0] = "dump" /\ procWriting[0] = 0 /\ at[0].thread <= T
    BY <1>2 DEF dump_own
  <2>2. CASE More(0)
    BY <1>2, <2>1, <2>2, WriteRefines DEF dump_own
  <2>3. CASE ~More(0)
    BY <1>2, <2>3, QuietRefines DEF dump_own
  <2> QED
    BY <2>2, <2>3
<1>3. CASE dump_own_done \/ dumpFrom_done
  BY <1>3, QuietRefines DEF dump_own_done, dumpFrom_done
<1>4. ASSUME NEW p \in Procs, Process(p) PROVE [File!Next]_(File!vars)
  <2>1. CASE open(p) \/ dump_idle(p) \/ exchange_count(p) \/ exchange_length(p) \/ slave_done(p)
    BY <2>1, QuietRefines DEF open, dump_idle, exchange_count, exchange_length, slave_done
  <2>2. CASE bcast_root(p) \/ bcast_receive(p)
    BY <2>2, QuietRefines DEF bcast_root, bcast_receive
  <2>3. CASE exchange_command(p)
    <3>1. Turn(p) /\ at[p].thread <= T /\ UNCHANGED <<InitializedThreads, closed>>
      BY <2>3 DEF exchange_command
    <3>2. phase[0] = "dump" /\ procWriting[0] = p
      BY <3>1 DEF Turn
    <3>3. CASE More(p) /\ Command(p) \in Plain
      <4>1. file' = Append(file, <<p, at[p].thread, at[p].entry>>)
        BY <2>3, <3>3 DEF exchange_command
      <4> QED
        BY <3>1, <3>2, <3>3, <4>1, WriteRefines
    <3>4. CASE ~(More(p) /\ Command(p) \in Plain)
      <4>1. UNCHANGED file
        BY <2>3, <3>4 DEF exchange_command
      <4> QED
        BY <3>1, <4>1, QuietRefines
    <3> QED
      BY <3>3, <3>4
  <2>4. CASE exchange_datum(p)
    <3>1. /\ Turn(p) /\ at[p].part = "datum" /\ file' = Append(file, got)
          /\ UNCHANGED <<InitializedThreads, closed>>
      BY <2>4 DEF exchange_datum
    <3>2. /\ phase[0] = "dump" /\ procWriting[0] = p /\ at[p].thread <= T /\ More(p)
          /\ got = <<p, at[p].thread, at[p].entry>>
      BY <3>1, TurnFacts
    <3> QED
      BY <3>1, <3>2, WriteRefines
  <2>5. CASE close(p)
    <3>1. CASE p = 0
      BY <2>5, <3>1, CloseRefines
    <3>2. CASE p # 0
      <4>1. closed' = closed
        BY <2>5, <3>2 DEF close, Inv, TypeOK
      <4> QED
        BY <2>5, <4>1, QuietRefines DEF close
    <3> QED
      BY <3>1, <3>2
  <2> QED
    BY <1>4, <2>1, <2>2, <2>3, <2>4, <2>5 DEF Process
<1> QED
  BY <1>1, <1>2, <1>3, <1>4 DEF Next

\* The processes of a run write the file that JSONfile describes: the
\* entries of the initialised threads of all processes, in order, each once
\* and unmixed, and the file is closed when it is complete.
THEOREM Refinement == Spec => WritesInOrder
<1>1. Init => File!Init
  BY DEF Init, File!Init, Wanted
<1> QED
  BY <1>1, StepRefines, Invariance, PTL DEF Spec, WritesInOrder, File!Spec
=============================================================================
