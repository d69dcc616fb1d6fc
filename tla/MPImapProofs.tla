----------------------------- MODULE MPImapProofs -----------------------------
(* Proofs about MPImap. For every number of processes: the bursts of a        *)
(* process with framed point-to-point calls add up, and in a history of       *)
(* blocking calls every call is matched within its communication.             *)
EXTENDS MPImap, Induction, SequenceTheorems, TLAPS

--------------------------------------------------------------------------------
(* The instruction bursts.                                                    *)

\* What is still to be printed: the burst of a query without an answer, and
\* what failed tests hold back.
Asks(p) == \E k \in 1..Len(ops[p]) : ops[p][k].do = "get"
Owed(p) == IF Asks(p) THEN dif[p] * inFunction[p] ELSE 0
Held(p) == IF mode[p] = 1 THEN tmpDelta[p] ELSE 0

CountsInv(p) ==
    /\ index[p] \in 0..Len(program[p]) /\ ops[p] \in Seq(Range(ops[p]))
    /\ {previousCount[p], dif[p], tmpDelta[p], inside[p], printed[p]} \subseteq Int
    /\ \A j, k \in 1..Len(ops[p]) : ops[p][j].do = "get" /\ ops[p][k].do = "get" => j = k
    /\ inFunction[p] = IF Within(program[p], index[p]) THEN 1 ELSE 0
    /\ mode[p] = IF Testing(program[p], index[p]) THEN 1 ELSE 0
    /\ inFunction[p] = 1 => previousCount[p] = index[p]
BurstInv(p) == CountsInv(p) /\ printed[p] + Owed(p) + Held(p) = inside[p]

LEMMA WithinStep ==
    ASSUME NEW s, NEW k \in Nat
    PROVE  Within(s, k + 1) <=> s[k + 1].name = "enter" \/ (Within(s, k) /\ s[k + 1].name # "leave")
<1>1. ASSUME s[k + 1].name = "enter" PROVE Within(s, k + 1)
  <2>1. k + 1 \in 1..k + 1 /\ (k + 1) + 1..k + 1 = {}
    OBVIOUS
  <2> QED BY <1>1, <2>1 DEF Within
<1>2. ASSUME Within(s, k), s[k + 1].name # "leave" PROVE Within(s, k + 1)
  <2>1. PICK j \in 1..k : s[j].name = "enter" /\ \A i \in j + 1..k : s[i].name # "leave"
    BY <1>2 DEF Within
  <2>2. j \in 1..k + 1 /\ \A i \in j + 1..k + 1 : i \in j + 1..k \/ i = k + 1
    OBVIOUS
  <2> QED BY <1>2, <2>1, <2>2 DEF Within
<1>3. ASSUME Within(s, k + 1), s[k + 1].name # "enter" PROVE Within(s, k) /\ s[k + 1].name # "leave"
  <2>1. PICK j \in 1..k + 1 : s[j].name = "enter" /\ \A i \in j + 1..k + 1 : s[i].name # "leave"
    BY <1>3 DEF Within
  <2>2. j # k + 1
    BY <1>3, <2>1
  <2>3. j \in 1..k /\ k + 1 \in j + 1..k + 1 /\ \A i \in j + 1..k : i \in j + 1..k + 1
    BY <2>2
  <2> QED BY <2>1, <2>3 DEF Within
<1> QED BY <1>1, <1>2, <1>3

LEMMA TestingStep ==
    ASSUME NEW s, NEW k \in Nat
    PROVE  Testing(s, k + 1) <=> \/ s[k + 1].name = "Test" /\ ~s[k + 1].done
                                 \/ Testing(s, k) /\ ~Succeeds(s[k + 1])
<1>1. ASSUME s[k + 1].name = "Test" /\ ~s[k + 1].done PROVE Testing(s, k + 1)
  <2>1. k + 1 \in 1..k + 1 /\ (k + 1) + 1..k + 1 = {}
    OBVIOUS
  <2> QED BY <1>1, <2>1 DEF Testing
<1>2. ASSUME Testing(s, k), ~Succeeds(s[k + 1]) PROVE Testing(s, k + 1)
  <2>1. PICK j \in 1..k : s[j].name = "Test" /\ ~s[j].done /\ \A i \in j + 1..k : ~Succeeds(s[i])
    BY <1>2 DEF Testing
  <2>2. j \in 1..k + 1 /\ \A i \in j + 1..k + 1 : i \in j + 1..k \/ i = k + 1
    OBVIOUS
  <2> QED BY <1>2, <2>1, <2>2 DEF Testing
<1>3. ASSUME Testing(s, k + 1), ~(s[k + 1].name = "Test" /\ ~s[k + 1].done)
      PROVE  Testing(s, k) /\ ~Succeeds(s[k + 1])
  <2>1. PICK j \in 1..k + 1 : s[j].name = "Test" /\ ~s[j].done /\ \A i \in j + 1..k + 1 : ~Succeeds(s[i])
    BY <1>3 DEF Testing
  <2>2. j # k + 1
    BY <1>3, <2>1
  <2>3. j \in 1..k /\ k + 1 \in j + 1..k + 1 /\ \A i \in j + 1..k : i \in j + 1..k + 1
    BY <2>2
  <2> QED BY <2>1, <2>3 DEF Testing
<1> QED BY <1>1, <1>2, <1>3

\* The notification of a call has its name, and the fields of its class.
LEMMA Notified ==
    ASSUME NEW c \in Calls, c.name \in Routines
    PROVE  /\ mpi_update_db(c).name = c.name /\ mpi_update_db(c).comm_size = c.comm_size
           /\ c.name \in {"Send", "Recv", "Sendrecv", "Sendrecv_replace"} =>
                 mpi_update_db(c).other = c.other /\ mpi_update_db(c).tag = c.tag
           /\ c.name \in {"Sendrecv", "Sendrecv_replace"} =>
                 mpi_update_db(c).other2 = c.other2 /\ mpi_update_db(c).tag2 = c.tag2
           /\ c.name \in Collective =>
                 mpi_update_db(c).other = IF c.name \in {"Scatter", "Scatterv", "Gatherv"} THEN c.root ELSE 0
<1>1. CASE c.name \in {"Send", "Recv"}
  BY <1>1 DEF mpi_update_db, HookClass, point_to_point_class, basic_call, Cleared, Collective
<1>2. CASE c.name \in {"Isend", "Irecv"}
  BY <1>2 DEF mpi_update_db, HookClass, point_to_point_class, async_call, basic_call, Cleared, Collective
<1>3. CASE c.name \in {"Wait", "Test", "Waitall", "Testall"}
  BY <1>3 DEF mpi_update_db, HookClass, point_to_point_class, wait_call, test_call, waitall_call, testall_call, Cleared, Collective
<1>4. CASE c.name \in {"Sendrecv", "Sendrecv_replace"}
  BY <1>4 DEF mpi_update_db, HookClass, point_to_point_class, collective_class, sendrecv_call, Cleared, Collective
<1>5. CASE c.name \in {"Scatter", "Scatterv", "Gatherv"}
  BY <1>5 DEF mpi_update_db, HookClass, point_to_point_class, collective_class, anytag_call, Cleared, Collective
<1>6. CASE c.name \in {"Bcast", "Ibcast", "Reduce", "Ireduce", "Gather", "Igather"}
  BY <1>6 DEF mpi_update_db, HookClass, point_to_point_class, collective_class, rooted_call, gather_call, Cleared, Collective
<1>7. CASE c.name \in {"Allreduce", "Iallreduce", "Alltoall", "Ialltoall", "Alltoallv", "Allgather", "Iallgather"}
  BY <1>7 DEF mpi_update_db, HookClass, point_to_point_class, collective_class, allreduce_call, all_pairs_call, Cleared, Collective
<1>8. CASE c.name \in {"Init", "Finalize"}
  BY <1>8 DEF mpi_update_db, HookClass, point_to_point_class, collective_class, Cleared, Collective
<1> QED BY <1>1, <1>2, <1>3, <1>4, <1>5, <1>6, <1>7, <1>8 DEF Routines

\* What the variables are functions on.
TypeInv ==
    /\ program \in Programs
    /\ index \in [Procs -> Nat]
    /\ DOMAIN ops = Procs /\ DOMAIN mode = Procs /\ DOMAIN tmpDelta = Procs /\ DOMAIN inFunction = Procs
    /\ DOMAIN previousCount = Procs /\ DOMAIN dif = Procs /\ DOMAIN inside = Procs /\ DOMAIN printed = Procs

\* The variables of process q.
OfProcess(q) ==
    <<index[q], ops[q], mode[q], tmpDelta[q], inFunction[q], previousCount[q], dif[q], inside[q], printed[q]>>

\* A consumer leaves the variables of the other processes alone.
LEMMA StepKeeps ==
    ASSUME TypeInv, NEW p \in Procs, Step(p)
    PROVE  TypeInv' /\ program' = program /\ \A q \in Procs \ {p} : OfProcess(q)' = OfProcess(q)
<1>1. CASE visit_blocking(p)
  BY <1>1 DEF visit_blocking, Begin, TypeInv, OfProcess
<1>2. CASE visit_init_finalize(p)
  BY <1>2 DEF visit_init_finalize, Begin, TypeInv, OfProcess
<1>3. CASE visit_async(p)
  BY <1>3 DEF visit_async, Begin, Burst, TypeInv, OfProcess
<1>4. CASE visit_wait(p)
  BY <1>4 DEF visit_wait, Begin, Completed, Burst, TypeInv, OfProcess
<1>5. CASE visit_test_true(p)
  BY <1>5 DEF visit_test_true, Begin, Completed, Burst, TypeInv, OfProcess
<1>6. CASE visit_test_false(p)
  BY <1>6 DEF visit_test_false, Begin, TypeInv, OfProcess
<1>7. CASE visit_function(p)
  BY <1>7 DEF visit_function, TypeInv, OfProcess
<1>8. CASE send_msg_to_db(p)
  BY <1>8 DEF send_msg_to_db, localVars, TypeInv, OfProcess
<1>9. CASE send_query_and_update(p)
  BY <1>9 DEF send_query_and_update, Burst, localVars, TypeInv, OfProcess
<1>10. CASE test_removes(p)
  BY <1>10 DEF test_removes, localVars, TypeInv, OfProcess
<1> QED BY <1>1, <1>2, <1>3, <1>4, <1>5, <1>6, <1>7, <1>8, <1>9, <1>10 DEF Step

\* A point-to-point call asks once if it is a blocking one, and never else.
LEMMA AsksOnce ==
    ASSUME NEW p \in Procs, NEW c \in Calls, c.name \in PointToPoint \cap Routines
    PROVE  LET u == update_info(p, mpi_update_db(c))
           IN  /\ u \in Seq(Range(u))
               /\ c.name \in {"Send", "Recv"} => Len(u) = 2 /\ u[1].do = "put" /\ u[2].do = "get"
               /\ c.name \notin {"Send", "Recv"} => \A k \in 1..Len(u) : u[k].do # "get"
<1> DEFINE m == mpi_update_db(c)
           u == update_info(p, m)
<1>1. m.name = c.name
  BY Notified
<1> HIDE DEF m
<1>2. CASE c.name = "Send"
  <2>1. u = <<PutS(Entry(p, m.other, m.tag)), GetR(Entry(p, m.other, m.tag))>>
    BY <1>1, <1>2 DEF update_info, update_MPI_Send
  <2> HIDE DEF u
  <2>2. Len(u) = 2 /\ u[1].do = "put" /\ u[2].do = "get" /\ u \in Seq({u[1], u[2]}) /\ Range(u) = {u[1], u[2]}
    BY <2>1 DEF PutS, GetR, Op, Range
  <2> QED BY <1>2, <2>2 DEF u, m
<1>3. CASE c.name = "Recv"
  <2>1. u = <<PutR(Entry(m.other, p, m.tag)), GetS(Entry(m.other, p, m.tag))>>
    BY <1>1, <1>3 DEF update_info, update_MPI_Recv
  <2> HIDE DEF u
  <2>2. Len(u) = 2 /\ u[1].do = "put" /\ u[2].do = "get" /\ u \in Seq({u[1], u[2]}) /\ Range(u) = {u[1], u[2]}
    BY <2>1 DEF PutR, GetS, Op, Range
  <2> QED BY <1>3, <2>2 DEF u, m
<1>4. CASE c.name = "Isend"
  <2>1. u = <<PutS(Entry(p, m.other, m.tag)), PutS(Entry(p, m.other, m.tag))>>
    BY <1>1, <1>4 DEF update_info, update_MPI_Isend
  <2> HIDE DEF u
  <2>2. /\ Len(u) = 2 /\ u[1].do = "put" /\ u[2].do = "put" /\ u \in Seq({u[1], u[2]}) /\ Range(u) = {u[1], u[2]}
        /\ \A k \in 1..2 : k = 1 \/ k = 2
    BY <2>1 DEF PutS, Op, Range
  <2>3. \A k \in 1..Len(u) : u[k].do # "get"
    BY <2>2
  <2> QED BY <1>4, <2>2, <2>3 DEF u, m
<1>5. CASE c.name = "Test"
  <2>1. \/ u = <<>>
        \/ \E e : u = <<Op("take", "s", e)>>
    BY <1>1, <1>5 DEF update_info, test_ops
  <2> HIDE DEF u
  <2>2. CASE u = <<>>
    <3>1. Len(u) = 0 /\ u \in Seq(Range(u))
      BY <2>2
    <3> QED BY <1>5, <3>1 DEF u, m
  <2>3. ASSUME NEW e, u = <<Op("take", "s", e)>>
        PROVE  u \in Seq(Range(u)) /\ \A k \in 1..Len(u) : u[k].do # "get"
    <3>1. Len(u) = 1 /\ u[1].do = "take" /\ u \in Seq({u[1]}) /\ Range(u) = {u[1]}
      BY <2>3 DEF Op, Range
    <3> QED BY <3>1
  <2> QED BY <1>5, <2>1, <2>2, <2>3 DEF u, m
<1>6. CASE c.name \notin {"Send", "Recv", "Isend", "Test"}
  <2>1. c.name \in {"Irecv", "Wait", "Init", "Finalize"}
    BY <1>6 DEF PointToPoint, NonBlocking, Routines
  <2>2. u = <<>>
    BY <1>1, <2>1 DEF update_info
  <2> HIDE DEF u
  <2>3. Len(u) = 0 /\ u \in Seq(Range(u))
    BY <2>2
  <2> QED BY <1>6, <2>3 DEF u, m
<1> QED BY <1>2, <1>3, <1>4, <1>5, <1>6

\* A process whose calls add up.
Adds(p) == Names(p) \subseteq PointToPoint /\ Framed(program[p])

\* The call that comes next.
LEMMA NextFacts ==
    ASSUME TypeInv, NEW p \in Procs, Ready(p)
    PROVE  /\ program[p] \in Seq(Calls) /\ index[p] \in Nat /\ index[p] + 1 \in 1..Len(program[p])
           /\ NextCall(p) \in Calls /\ NextCall(p) = program[p][index[p] + 1]
<1>1. program[p] \in Seq(Calls) /\ index[p] \in Nat
  BY ProgramsAssumption DEF TypeInv
<1>2. index[p] + 1 \in 1..Len(program[p])
  BY <1>1 DEF Ready
<1> QED BY <1>1, <1>2 DEF NextCall

LEMMA AddsFacts ==
    ASSUME TypeInv, NEW p \in Procs, Ready(p), Adds(p)
    PROVE  /\ NextCall(p).name \in PointToPoint
           /\ NextCall(p).name = "enter" => ~Within(program[p], index[p])
           /\ NextCall(p).name \in {"leave", "Init", "Finalize"} => Within(program[p], index[p])
           /\ NextCall(p).name \in {"Isend", "Irecv", "Test"}
                 /\ (Testing(program[p], index[p]) \/ Testing(program[p], index[p] + 1))
                 => Within(program[p], index[p])
<1> DEFINE k == index[p] + 1
<1>1. k \in 1..Len(program[p]) /\ NextCall(p) = program[p][k] /\ index[p] \in Nat /\ k - 1 = index[p]
  BY NextFacts
<1> HIDE DEF k
<1>2. NextCall(p).name \in PointToPoint
  BY <1>1 DEF Adds, Names
<1> QED BY <1>1, <1>2 DEF Adds, Framed, k

\* Begin, with what it makes of the counts.
LEMMA BeginFacts ==
    ASSUME TypeInv, NEW p \in Procs, CountsInv(p), Ready(p), Adds(p), NextCall(p).name \in Routines,
           Begin(p, mpi_update_db(NextCall(p)))
    PROVE  /\ since(p) \in Int /\ inFunction[p] \in {0, 1} /\ (inFunction[p] = 1 => since(p) = 1)
           /\ Owed(p) = 0
           /\ dif'[p] = since(p) /\ inside'[p] = inside[p] + inFunction[p] /\ inFunction' = inFunction
           /\ previousCount'[p] = index[p] + 1 /\ index'[p] = index[p] + 1
           /\ index'[p] \in 0..Len(program[p]) /\ program' = program
           /\ ops'[p] \in Seq(Range(ops'[p]))
           /\ \A j, k \in 1..Len(ops'[p]) : ops'[p][j].do = "get" /\ ops'[p][k].do = "get" => j = k
           /\ inFunction'[p] = IF Within(program[p], index'[p]) THEN 1 ELSE 0
           /\ Owed(p)' = IF NextCall(p).name \in {"Send", "Recv"} THEN since(p) * inFunction[p] ELSE 0
<1> DEFINE c == NextCall(p)
           u == update_info(p, mpi_update_db(c))
<1>1. /\ c \in Calls /\ c = program[p][index[p] + 1] /\ index[p] \in Nat /\ program[p] \in Seq(Calls)
      /\ index[p] + 1 \in 1..Len(program[p])
  BY NextFacts
<1>2. c.name \in PointToPoint \cap Routines
  BY AddsFacts
<1>3. /\ u \in Seq(Range(u))
      /\ c.name \in {"Send", "Recv"} => Len(u) = 2 /\ u[1].do = "put" /\ u[2].do = "get"
      /\ c.name \notin {"Send", "Recv"} => \A k \in 1..Len(u) : u[k].do # "get"
  BY <1>1, <1>2, AsksOnce
<1>4. /\ ops'[p] = u /\ dif'[p] = since(p) /\ previousCount'[p] = index[p] + 1 /\ index'[p] = index[p] + 1
      /\ inside'[p] = inside[p] + inFunction[p] /\ inFunction' = inFunction /\ program' = program
  BY <1>1 DEF Begin, TypeInv, total
<1>5. since(p) \in Int /\ inFunction[p] \in {0, 1} /\ (inFunction[p] = 1 => since(p) = 1)
  BY <1>1 DEF CountsInv, since, total
<1>6. Owed(p) = 0
  <2>1. Len(ops[p]) = 0
    BY DEF Ready
  <2> QED BY <2>1 DEF Owed, Asks
<1>7. \A j, k \in 1..Len(u) : u[j].do = "get" /\ u[k].do = "get" => j = k
  <2>1. \A k \in 1..2 : k = 1 \/ k = 2
    OBVIOUS
  <2>2. CASE c.name \in {"Send", "Recv"}
    <3>1. Len(u) = 2 /\ u[1].do # "get"
      BY <1>3, <2>2
    <3> HIDE DEF u
    <3> QED BY <2>1, <3>1
  <2>3. CASE c.name \notin {"Send", "Recv"}
    BY <1>3, <2>3
  <2> QED BY <2>2, <2>3
<1>8. Within(program[p], index[p] + 1) <=> Within(program[p], index[p])
  <2>1. c.name \notin {"enter", "leave"}
    BY <1>2 DEF Routines
  <2> QED BY <1>1, <2>1, WithinStep
<1>9. inFunction'[p] = IF Within(program[p], index'[p]) THEN 1 ELSE 0
  BY <1>4, <1>8 DEF CountsInv
<1>10. Asks(p)' <=> c.name \in {"Send", "Recv"}
  <2>1. CASE c.name \in {"Send", "Recv"}
    <3>1. Len(u) = 2 /\ u[2].do = "get" /\ 2 \in 1..2
      BY <1>3, <2>1
    <3> HIDE DEF u
    <3> QED BY <1>4, <2>1, <3>1 DEF Asks
  <2>2. CASE c.name \notin {"Send", "Recv"}
    <3>1. \A k \in 1..Len(u) : u[k].do # "get"
      BY <1>3, <2>2
    <3> HIDE DEF u
    <3> QED BY <1>4, <2>2, <3>1 DEF Asks
  <2> QED BY <2>1, <2>2
<1>11. Owed(p)' = IF c.name \in {"Send", "Recv"} THEN since(p) * inFunction[p] ELSE 0
  <2>1. inFunction'[p] = inFunction[p]
    BY <1>4
  <2> QED BY <1>4, <1>10, <2>1 DEF Owed
<1>12. index'[p] \in 0..Len(program[p])
  BY <1>1, <1>4
<1> HIDE DEF u
<1> QED BY <1>3, <1>4, <1>5, <1>6, <1>7, <1>9, <1>11, <1>12

\* The instructions that go to the burst of a call, in the functions.
LEMMA Times ==
    ASSUME NEW f \in {0, 1}, NEW n \in Int
    PROVE  f * n = (IF f = 1 THEN n ELSE 0) /\ n * f = (IF f = 1 THEN n ELSE 0)
OBVIOUS

\* Each call that notifies, given what it does with the burst, the mode and
\* the instructions held back.
LEMMA BurstVisit ==
    ASSUME TypeInv, NEW p \in Procs, BurstInv(p), Ready(p), Adds(p), NextCall(p).name \in Routines,
           Begin(p, mpi_update_db(NextCall(p))),
           tmpDelta'[p] \in Int, printed'[p] \in Int,
           mode'[p] = (IF Testing(program[p], index[p] + 1) THEN 1 ELSE 0),
           printed'[p] + Held(p)' + (IF NextCall(p).name \in {"Send", "Recv"} THEN since(p) * inFunction[p] ELSE 0)
              = printed[p] + Held(p) + inFunction[p]
    PROVE  BurstInv(p)'
<1>1. CountsInv(p)
  BY DEF BurstInv
<1>2. /\ since(p) \in Int /\ inFunction[p] \in {0, 1}
      /\ Owed(p) = 0
      /\ dif'[p] = since(p) /\ inside'[p] = inside[p] + inFunction[p] /\ inFunction' = inFunction
      /\ previousCount'[p] = index[p] + 1 /\ index'[p] = index[p] + 1
      /\ index'[p] \in 0..Len(program[p]) /\ program' = program
      /\ ops'[p] \in Seq(Range(ops'[p]))
      /\ \A j, k \in 1..Len(ops'[p]) : ops'[p][j].do = "get" /\ ops'[p][k].do = "get" => j = k
      /\ inFunction'[p] = IF Within(program[p], index'[p]) THEN 1 ELSE 0
      /\ Owed(p)' = IF NextCall(p).name \in {"Send", "Recv"} THEN since(p) * inFunction[p] ELSE 0
  BY <1>1, BeginFacts
<1>3. index[p] \in Nat
  BY NextFacts
<1>4. inside[p] \in Int /\ printed[p] \in Int /\ tmpDelta[p] \in Int
  BY <1>1 DEF CountsInv
<1>5. CountsInv(p)'
  <2>1. {previousCount'[p], dif'[p], tmpDelta'[p], inside'[p], printed'[p]} \subseteq Int
    BY <1>2, <1>3, <1>4
  <2> QED BY <1>2, <2>1 DEF CountsInv
<1>6. Held(p) \in Int /\ Held(p)' \in Int
  BY <1>4 DEF Held
<1>7. Owed(p)' \in Int
  <2>1. since(p) * inFunction[p] \in Int
    BY <1>2
  <2> QED BY <1>2, <2>1
<1>8. printed[p] + 0 + Held(p) = inside[p]
  BY <1>2 DEF BurstInv
<1>9. printed'[p] + Held(p)' + Owed(p)' = printed[p] + Held(p) + inFunction[p]
  BY <1>2
<1>10. printed'[p] + Owed(p)' + Held(p)' = inside'[p]
  BY <1>2, <1>4, <1>6, <1>7, <1>8, <1>9
<1> QED BY <1>5, <1>10 DEF BurstInv

\* What the test of the next call says of the mode.
LEMMA TestingNext ==
    ASSUME TypeInv, NEW p \in Procs, Ready(p), CountsInv(p)
    PROVE  /\ NextCall(p).name # "Test" => (Testing(program[p], index[p] + 1) <=> mode[p] = 1)
           /\ NextCall(p).name = "Test" /\ NextCall(p).done => ~Testing(program[p], index[p] + 1)
           /\ NextCall(p).name = "Test" /\ ~NextCall(p).done => Testing(program[p], index[p] + 1)
           /\ Testing(program[p], index[p]) <=> mode[p] = 1
           /\ Within(program[p], index[p]) <=> inFunction[p] = 1
           /\ mode[p] \in {0, 1} /\ inFunction[p] \in {0, 1}
<1>1. index[p] \in Nat /\ NextCall(p) = program[p][index[p] + 1]
  BY NextFacts
<1>2. /\ Testing(program[p], index[p]) <=> mode[p] = 1
      /\ Within(program[p], index[p]) <=> inFunction[p] = 1
      /\ mode[p] \in {0, 1} /\ inFunction[p] \in {0, 1}
  BY DEF CountsInv
<1>3. Testing(program[p], index[p] + 1) <=>
         \/ NextCall(p).name = "Test" /\ ~NextCall(p).done
         \/ Testing(program[p], index[p]) /\ ~Succeeds(NextCall(p))
  BY <1>1, TestingStep
<1> QED BY <1>2, <1>3 DEF Succeeds

\* The tail of a sequence is over the set of its elements.
LEMMA TailOver ==
    ASSUME NEW S, NEW s \in Seq(S), s # <<>>
    PROVE  Tail(s) \in Seq(Range(Tail(s)))
<1>1. Tail(s) \in Seq(S)
  OBVIOUS
<1> QED BY <1>1, OverRange

LEMMA BurstStep ==
    ASSUME TypeInv, AccMode = 1, NEW p \in Procs, BurstInv(p), Adds(p), Step(p)
    PROVE  BurstInv(p)'
<1> DEFINE c == NextCall(p)
<1>1. CountsInv(p) /\ printed[p] + Owed(p) + Held(p) = inside[p]
  BY DEF BurstInv
<1>2. tmpDelta[p] \in Int /\ printed[p] \in Int /\ inside[p] \in Int /\ dif[p] \in Int /\ previousCount[p] \in Int
  BY <1>1 DEF CountsInv
<1>3. Held(p) \in Int
  BY <1>2 DEF Held
<1>4. ASSUME Ready(p), c.name \in Routines, Begin(p, mpi_update_db(c))
      PROVE  /\ since(p) \in Int /\ inFunction[p] \in {0, 1} /\ (inFunction[p] = 1 => since(p) = 1)
             /\ mode[p] \in {0, 1} /\ c.name \in PointToPoint
             /\ c.name \in {"Isend", "Irecv", "Test"} /\ (mode[p] = 1 \/ (c.name = "Test" /\ ~c.done)) => inFunction[p] = 1
             /\ c.name \in {"Init", "Finalize"} => inFunction[p] = 1
             /\ \A n \in Int : inFunction[p] * n = (IF inFunction[p] = 1 THEN n ELSE 0)
             /\ since(p) * inFunction[p] = inFunction[p]
  <2>1. since(p) \in Int /\ inFunction[p] \in {0, 1} /\ (inFunction[p] = 1 => since(p) = 1)
    BY <1>1, <1>4, BeginFacts
  <2>2. /\ mode[p] \in {0, 1} /\ c.name \in PointToPoint
        /\ c.name \in {"Isend", "Irecv", "Test"} /\ (mode[p] = 1 \/ (c.name = "Test" /\ ~c.done)) => inFunction[p] = 1
        /\ c.name \in {"Init", "Finalize"} => inFunction[p] = 1
    BY <1>1, <1>4, AddsFacts, TestingNext
  <2> QED BY <2>1, <2>2, Times
<1>5. CASE visit_blocking(p)
  <2>1. /\ Ready(p) /\ Begin(p, mpi_update_db(c)) /\ UNCHANGED <<mode, tmpDelta, printed>>
        /\ c.name \notin {"Isend", "Irecv", "Wait", "Test", "Init", "Finalize", "enter", "leave"}
    BY <1>5 DEF visit_blocking
  <2>2. c.name \in {"Send", "Recv"}
    BY <2>1, AddsFacts DEF PointToPoint, NonBlocking
  <2>3. c.name \in Routines
    BY <2>2 DEF Routines
  <2>4. Held(p)' = Held(p)
    BY <2>1 DEF Held
  <2>5. mode'[p] = IF Testing(program[p], index[p] + 1) THEN 1 ELSE 0
    BY <1>1, <2>1, <2>2, TestingNext
  <2>6. since(p) * inFunction[p] = inFunction[p] /\ inFunction[p] \in {0, 1}
    BY <1>4, <2>1, <2>3
  <2>7. printed'[p] + Held(p)' + since(p) * inFunction[p] = printed[p] + Held(p) + inFunction[p]
    BY <1>2, <1>3, <2>1, <2>4, <2>6
  <2> QED BY <1>2, <2>1, <2>2, <2>3, <2>5, <2>7, BurstVisit
<1>6. CASE visit_init_finalize(p)
  <2>1. /\ Ready(p) /\ Begin(p, mpi_update_db(c)) /\ UNCHANGED <<mode, tmpDelta>>
        /\ c.name \in {"Init", "Finalize"} /\ printed'[p] = printed[p] + since(p)
    BY <1>6 DEF visit_init_finalize, TypeInv
  <2>3. c.name \in Routines
    BY <2>1 DEF Routines
  <2>4. Held(p)' = Held(p)
    BY <2>1 DEF Held
  <2>5. mode'[p] = IF Testing(program[p], index[p] + 1) THEN 1 ELSE 0
    BY <1>1, <2>1, TestingNext
  <2>6. since(p) = 1 /\ inFunction[p] = 1
    BY <1>4, <2>1, <2>3
  <2>7. printed'[p] + Held(p)' + 0 = printed[p] + Held(p) + inFunction[p] /\ printed'[p] \in Int
    BY <1>2, <1>3, <2>1, <2>4, <2>6
  <2> QED BY <1>2, <2>1, <2>3, <2>5, <2>7, BurstVisit
<1>7. CASE visit_async(p)
  <2>1. /\ Ready(p) /\ Begin(p, mpi_update_db(c)) /\ mode' = mode
        /\ c.name \in {"Isend", "Irecv"} /\ printed'[p] = printed[p] + inFunction[p] * held_back(p)
        /\ tmpDelta'[p] = IF mode[p] = 1 THEN 0 ELSE tmpDelta[p]
    BY <1>7 DEF visit_async, Burst, TypeInv
  <2>3. c.name \in Routines
    BY <2>1 DEF Routines
  <2>4. /\ since(p) \in Int /\ inFunction[p] \in {0, 1} /\ (inFunction[p] = 1 => since(p) = 1)
        /\ mode[p] \in {0, 1} /\ (mode[p] = 1 => inFunction[p] = 1)
        /\ \A n \in Int : inFunction[p] * n = (IF inFunction[p] = 1 THEN n ELSE 0)
    BY <1>4, <2>1, <2>3
  <2>5. mode'[p] = IF Testing(program[p], index[p] + 1) THEN 1 ELSE 0
    BY <1>1, <2>1, TestingNext
  <2>6. held_back(p) = (IF mode[p] = 1 THEN tmpDelta[p] + since(p) ELSE since(p)) /\ held_back(p) \in Int
    BY <1>2, <2>4 DEF held_back
  <2>7. printed'[p] = printed[p] + (IF inFunction[p] = 1 THEN held_back(p) ELSE 0)
    BY <2>1, <2>4, <2>6
  <2>8. printed'[p] + Held(p)' + 0 = printed[p] + Held(p) + inFunction[p] /\ printed'[p] \in Int /\ tmpDelta'[p] \in Int
    BY <1>2, <2>1, <2>4, <2>6, <2>7 DEF Held
  <2> QED BY <2>1, <2>3, <2>5, <2>8, BurstVisit
<1>8. CASE visit_wait(p)
  <2>1. /\ Ready(p) /\ Begin(p, mpi_update_db(c)) /\ UNCHANGED <<mode, tmpDelta>>
        /\ c.name = "Wait" /\ printed'[p] = printed[p] + inFunction[p] * since(p)
    BY <1>8 DEF visit_wait, Burst, TypeInv
  <2>3. c.name \in Routines
    BY <2>1 DEF Routines
  <2>4. /\ since(p) \in Int /\ inFunction[p] \in {0, 1} /\ (inFunction[p] = 1 => since(p) = 1)
        /\ \A n \in Int : inFunction[p] * n = (IF inFunction[p] = 1 THEN n ELSE 0)
    BY <1>4, <2>1, <2>3
  <2>5. mode'[p] = IF Testing(program[p], index[p] + 1) THEN 1 ELSE 0
    BY <1>1, <2>1, TestingNext
  <2>6. printed'[p] = printed[p] + inFunction[p]
    BY <2>1, <2>4
  <2>7. Held(p)' = Held(p)
    BY <2>1 DEF Held
  <2>8. printed'[p] + Held(p)' + 0 = printed[p] + Held(p) + inFunction[p] /\ printed'[p] \in Int
    BY <1>2, <1>3, <2>4, <2>6, <2>7
  <2> QED BY <1>2, <2>1, <2>3, <2>5, <2>8, BurstVisit
<1>9. CASE visit_test_true(p)
  <2>1. /\ Ready(p) /\ Begin(p, mpi_update_db(c)) /\ mode'[p] = 0 /\ tmpDelta'[p] = held_back(p)
        /\ c.name = "Test" /\ c.done /\ printed'[p] = printed[p] + inFunction[p] * held_back(p)
    BY <1>9 DEF visit_test_true, Burst, TypeInv, test_delta
  <2>3. c.name \in Routines
    BY <2>1 DEF Routines
  <2>4. /\ since(p) \in Int /\ inFunction[p] \in {0, 1} /\ (inFunction[p] = 1 => since(p) = 1)
        /\ mode[p] \in {0, 1} /\ (mode[p] = 1 => inFunction[p] = 1)
        /\ \A n \in Int : inFunction[p] * n = (IF inFunction[p] = 1 THEN n ELSE 0)
    BY <1>4, <2>1, <2>3
  <2>5. mode'[p] = IF Testing(program[p], index[p] + 1) THEN 1 ELSE 0
    BY <1>1, <2>1, TestingNext
  <2>6. held_back(p) = (IF mode[p] = 1 THEN tmpDelta[p] + since(p) ELSE since(p)) /\ held_back(p) \in Int
    BY <1>2, <2>4 DEF held_back
  <2>7. printed'[p] = printed[p] + (IF inFunction[p] = 1 THEN held_back(p) ELSE 0)
    BY <2>1, <2>4, <2>6
  <2>8. printed'[p] + Held(p)' + 0 = printed[p] + Held(p) + inFunction[p] /\ printed'[p] \in Int /\ tmpDelta'[p] \in Int
    BY <1>2, <2>1, <2>4, <2>6, <2>7 DEF Held
  <2> QED BY <2>1, <2>3, <2>5, <2>8, BurstVisit
<1>10. CASE visit_test_false(p)
  <2>1. /\ Ready(p) /\ Begin(p, mpi_update_db(c)) /\ mode'[p] = 1 /\ tmpDelta'[p] = held_back(p)
        /\ c.name = "Test" /\ ~c.done /\ printed' = printed
    BY <1>10 DEF visit_test_false, TypeInv
  <2>3. c.name \in Routines
    BY <2>1 DEF Routines
  <2>4. since(p) \in Int /\ inFunction[p] = 1 /\ since(p) = 1 /\ mode[p] \in {0, 1}
    BY <1>4, <2>1, <2>3
  <2>5. mode'[p] = IF Testing(program[p], index[p] + 1) THEN 1 ELSE 0
    BY <1>1, <2>1, TestingNext
  <2>6. held_back(p) = (IF mode[p] = 1 THEN tmpDelta[p] + since(p) ELSE since(p)) /\ held_back(p) \in Int
    BY <1>2, <2>4 DEF held_back
  <2>8. printed'[p] + Held(p)' + 0 = printed[p] + Held(p) + inFunction[p] /\ printed'[p] \in Int /\ tmpDelta'[p] \in Int
    BY <1>2, <2>1, <2>4, <2>6 DEF Held
  <2> QED BY <2>1, <2>3, <2>5, <2>8, BurstVisit
<1>11. CASE visit_function(p)
  <2>1. /\ Ready(p) /\ c.name \in {"enter", "leave"} /\ program' = program
        /\ index'[p] = index[p] + 1 /\ inside'[p] = inside[p] + inFunction[p]
        /\ inFunction'[p] = IF c.name = "enter" THEN 1 ELSE 0
        /\ UNCHANGED <<ops, mode, tmpDelta, dif>>
        /\ c.name = "leave" => printed'[p] = printed[p] + since(p) /\ previousCount' = previousCount
        /\ c.name = "enter" => printed' = printed /\ previousCount'[p] = index[p] + 1
    BY <1>11 DEF visit_function, TypeInv, total
  <2>2. /\ c.name = "enter" => inFunction[p] = 0
        /\ c.name = "leave" => inFunction[p] = 1
        /\ Testing(program[p], index[p] + 1) <=> mode[p] = 1
        /\ mode[p] \in {0, 1}
    <3>1. /\ c.name = "enter" => ~Within(program[p], index[p])
          /\ c.name = "leave" => Within(program[p], index[p])
      BY <2>1, AddsFacts
    <3> QED BY <1>1, <2>1, <3>1, TestingNext
  <2>3. index[p] \in Nat /\ index[p] + 1 \in 1..Len(program[p]) /\ c = program[p][index[p] + 1] /\ program[p] \in Seq(Calls)
    BY <2>1, NextFacts
  <2>4. Within(program[p], index[p] + 1) <=> c.name = "enter"
    BY <2>1, <2>3, WithinStep
  <2>5. c.name = "leave" => since(p) = 1
    BY <1>1, <2>2, <2>3 DEF since, total, CountsInv
  <2>6. ops[p] = <<>> /\ Len(ops[p]) = 0 /\ Len(ops'[p]) = 0
    BY <2>1 DEF Ready
  <2>7. Owed(p) = 0 /\ Owed(p)' = 0 /\ Held(p)' = Held(p)
    BY <2>1, <2>6 DEF Owed, Asks, Held
  <2>8. CountsInv(p)'
    <3>1. {previousCount'[p], dif'[p], tmpDelta'[p], inside'[p], printed'[p]} \subseteq Int
      BY <1>2, <2>1, <2>2, <2>3, <2>5
    <3>2. index'[p] \in 0..Len(program'[p]) /\ (inFunction'[p] = 1 => previousCount'[p] = index'[p])
      BY <2>1, <2>3
    <3>3. ops'[p] \in Seq(Range(ops'[p]))
      BY <1>1, <2>1 DEF CountsInv
    <3> QED BY <2>1, <2>2, <2>4, <2>6, <3>1, <3>2, <3>3 DEF CountsInv
  <2>9. printed'[p] + Owed(p)' + Held(p)' = inside'[p]
    BY <1>1, <1>2, <1>3, <2>1, <2>2, <2>5, <2>7
  <2> QED BY <2>8, <2>9 DEF BurstInv
<1>12. ASSUME ops[p] # <<>>, ops'[p] = Tail(ops[p]), UNCHANGED <<program, index, localVars>>,
              printed'[p] = printed[p] + (IF Head(ops[p]).do = "get" THEN inFunction[p] * dif[p] ELSE 0)
       PROVE  BurstInv(p)'
  <2>1. ops[p] \in Seq(Range(ops[p])) /\ Len(ops[p]) \in Nat /\ Len(ops[p]) > 0
    <3>1. ops[p] \in Seq(Range(ops[p]))
      BY <1>1 DEF CountsInv
    <3> QED BY <1>12, <3>1
  <2>2. /\ Len(ops'[p]) = Len(ops[p]) - 1
        /\ \A k \in 1..Len(ops'[p]) : k + 1 \in 1..Len(ops[p]) /\ ops'[p][k] = ops[p][k + 1]
        /\ Head(ops[p]) = ops[p][1] /\ 1 \in 1..Len(ops[p])
    <3>1. Len(Tail(ops[p])) = Len(ops[p]) - 1 /\ \A k \in 1..Len(ops[p]) - 1 : Tail(ops[p])[k] = ops[p][k + 1]
      BY <1>12, <2>1
    <3> QED BY <1>12, <2>1, <3>1
  <2>3. ops'[p] \in Seq(Range(ops'[p]))
    BY <1>12, <2>1, TailOver
  <2>4. \A j, k \in 1..Len(ops'[p]) : ops'[p][j].do = "get" /\ ops'[p][k].do = "get" => j = k
    <3>1. \A j, k \in 1..Len(ops[p]) : ops[p][j].do = "get" /\ ops[p][k].do = "get" => j = k
      BY <1>1 DEF CountsInv
    <3>2. ASSUME NEW j \in 1..Len(ops'[p]), NEW k \in 1..Len(ops'[p]), ops'[p][j].do = "get", ops'[p][k].do = "get"
          PROVE  j = k
      <4>1. j + 1 = k + 1
        BY <2>2, <3>1, <3>2
      <4>2. j \in Int /\ k \in Int
        BY <2>1, <2>2
      <4> QED BY <4>1, <4>2
    <3> QED BY <3>2
  <2>5. /\ mode'[p] = mode[p] /\ tmpDelta'[p] = tmpDelta[p] /\ inFunction'[p] = inFunction[p] /\ dif'[p] = dif[p]
        /\ previousCount'[p] = previousCount[p] /\ inside'[p] = inside[p]
    BY <1>12 DEF localVars
  <2>6. inFunction[p] \in {0, 1}
    BY <1>1 DEF CountsInv
  <2>7. inFunction[p] * dif[p] \in Int /\ dif[p] * inFunction[p] = inFunction[p] * dif[p]
    BY <1>2, <2>6
  <2>8. CountsInv(p)'
    <3>1. printed'[p] \in Int
      BY <1>2, <1>12, <2>7
    <3> QED BY <1>1, <1>12, <2>3, <2>4, <2>5, <3>1 DEF CountsInv
  <2>9. Held(p)' = Held(p)
    BY <2>5 DEF Held
  <2>10. CASE Head(ops[p]).do = "get"
    <3>1. Asks(p)
      BY <2>2, <2>10 DEF Asks
    <3>2. ~Asks(p)'
      <4>1. ASSUME NEW k \in 1..Len(ops'[p]), ops'[p][k].do = "get"
            PROVE  FALSE
        <5>1. \A i, j \in 1..Len(ops[p]) : ops[p][i].do = "get" /\ ops[p][j].do = "get" => i = j
          BY <1>1 DEF CountsInv
        <5>2. k + 1 \in 1..Len(ops[p]) /\ ops[p][k + 1].do = "get" /\ ops[p][1].do = "get" /\ 1 \in 1..Len(ops[p])
          BY <2>2, <2>10, <4>1
        <5>3. k + 1 = 1 /\ k \in Nat /\ k > 0
          BY <2>1, <2>2, <5>1, <5>2
        <5> QED BY <5>3
      <4> QED BY <4>1 DEF Asks
    <3>3. Owed(p) = dif[p] * inFunction[p] /\ Owed(p)' = 0
      BY <3>1, <3>2 DEF Owed
    <3> QED BY <1>1, <1>2, <1>3, <1>12, <2>5, <2>7, <2>8, <2>9, <2>10, <3>3 DEF BurstInv
  <2>11. CASE Head(ops[p]).do # "get"
    <3>1. Asks(p)' <=> Asks(p)
      <4>1. ASSUME NEW k \in 1..Len(ops[p]), ops[p][k].do = "get"
            PROVE  k - 1 \in 1..Len(ops'[p]) /\ ops'[p][k - 1] = ops[p][k]
        <5>1. k # 1
          BY <2>2, <2>11, <4>1
        <5>2. k - 1 \in 1..Len(ops'[p]) /\ (k - 1) + 1 = k
          BY <2>1, <2>2, <5>1
        <5> QED BY <2>2, <5>2
      <4>2. Asks(p) => Asks(p)'
        BY <4>1 DEF Asks
      <4>3. Asks(p)' => Asks(p)
        BY <2>2 DEF Asks
      <4> QED BY <4>2, <4>3
    <3>2. Owed(p)' = Owed(p)
      BY <2>5, <3>1 DEF Owed
    <3>3. Owed(p) \in Int
      BY <2>7 DEF Owed
    <3> QED BY <1>1, <1>2, <1>3, <1>12, <2>5, <2>8, <2>9, <2>11, <3>2, <3>3 DEF BurstInv
  <2> QED BY <2>10, <2>11
<1>13. CASE send_msg_to_db(p) \/ test_removes(p)
  <2>1. /\ ops[p] # <<>> /\ ops'[p] = Tail(ops[p]) /\ UNCHANGED <<program, index, localVars>>
        /\ Head(ops[p]).do # "get" /\ printed'[p] = printed[p]
    BY <1>13 DEF send_msg_to_db, test_removes, TypeInv
  <2> QED BY <1>2, <1>12, <2>1
<1>14. CASE send_query_and_update(p)
  <2>1. /\ ops[p] # <<>> /\ ops'[p] = Tail(ops[p]) /\ UNCHANGED <<program, index, localVars>>
        /\ Head(ops[p]).do = "get" /\ printed'[p] = printed[p] + inFunction[p] * dif[p]
    BY <1>14 DEF send_query_and_update, Burst, TypeInv
  <2> QED BY <1>12, <2>1
<1> QED BY <1>5, <1>6, <1>7, <1>8, <1>9, <1>10, <1>11, <1>13, <1>14 DEF Step

BurstsKept == TypeInv /\ \A p \in Procs : Adds(p) => BurstInv(p)

LEMMA BurstsInit ==
    ASSUME Init
    PROVE  BurstsKept
<1>1. TypeInv
  BY NAssumption DEF Init, TypeInv, Procs
<1>2. ASSUME NEW p \in Procs
      PROVE  BurstInv(p)
  <2>1. program[p] \in Seq(Calls) /\ Len(program[p]) \in Nat
    BY ProgramsAssumption DEF Init
  <2>2. ops[p] = <<>> /\ Len(ops[p]) = 0 /\ ops[p] \in Seq(Range(ops[p]))
    BY DEF Init
  <2>3. ~Within(program[p], 0) /\ ~Testing(program[p], 0)
    BY DEF Within, Testing
  <2>4. CountsInv(p)
    BY <2>1, <2>2, <2>3 DEF CountsInv, Init
  <2>5. Owed(p) = 0 /\ Held(p) = 0 /\ printed[p] = 0 /\ inside[p] = 0
    BY <2>2 DEF Owed, Held, Asks, Init
  <2> QED BY <2>4, <2>5 DEF BurstInv
<1> QED BY <1>1, <1>2 DEF BurstsKept

LEMMA BurstsNext ==
    ASSUME BurstsKept, AccMode = 1, [Next]_vars
    PROVE  BurstsKept'
<1>1. CASE Next
  <2>1. PICK q \in Procs : Step(q)
    BY <1>1 DEF Next
  <2>2. TypeInv' /\ program' = program /\ \A p \in Procs \ {q} : OfProcess(p)' = OfProcess(p)
    BY <2>1, StepKeeps DEF BurstsKept
  <2>3. ASSUME NEW p \in Procs, Adds(p)'
        PROVE  BurstInv(p)'
    <3>1. Adds(p) /\ BurstInv(p)
      BY <2>2, <2>3 DEF Adds, Names, BurstsKept
    <3>2. CASE p = q
      BY <2>1, <3>1, <3>2, BurstStep DEF BurstsKept
    <3>3. CASE p # q
      <4>1. /\ index'[p] = index[p] /\ ops'[p] = ops[p] /\ mode'[p] = mode[p] /\ tmpDelta'[p] = tmpDelta[p]
            /\ inFunction'[p] = inFunction[p] /\ previousCount'[p] = previousCount[p] /\ dif'[p] = dif[p]
            /\ inside'[p] = inside[p] /\ printed'[p] = printed[p] /\ program'[p] = program[p]
        BY <2>2, <3>3 DEF OfProcess
      <4> QED BY <3>1, <4>1 DEF BurstInv, CountsInv, Owed, Held, Asks
    <3> QED BY <3>2, <3>3
  <2> QED BY <2>2, <2>3 DEF BurstsKept
<1>2. CASE UNCHANGED vars
  BY <1>2 DEF vars, BurstsKept, TypeInv, Adds, Names, BurstInv, CountsInv, Owed, Held, Asks
<1> QED BY <1>1, <1>2

\* With accMode, the bursts of a process whose calls are point-to-point and
\* framed add up to the instructions it executed in the functions
\* (extract_MPI_Isend, extract_info, send_query_and_update).
THEOREM BurstsAdd ==
    (/\ AccMode = 1
     /\ \A s \in Programs, p \in Procs : (\A k \in DOMAIN s[p] : s[p][k].name \in PointToPoint) => Framed(s[p]))
    => (Spec => []BurstsAddUp)
<1> SUFFICES ASSUME AccMode = 1,
                    \A s \in Programs, p \in Procs :
                       (\A k \in DOMAIN s[p] : s[p][k].name \in PointToPoint) => Framed(s[p])
             PROVE  Spec => []BurstsAddUp
  OBVIOUS
<1>1. Init => BurstsKept
  BY BurstsInit
<1>2. BurstsKept /\ [Next]_vars => BurstsKept'
  BY BurstsNext
<1>3. BurstsKept => BurstsAddUp
  <2> SUFFICES ASSUME BurstsKept, NEW p \in Procs, Names(p) \subseteq PointToPoint, Done(p), mode[p] = 0
               PROVE  printed[p] = inside[p]
    BY DEF BurstsAddUp
  <2>1. program \in Programs /\ DOMAIN program[p] = 1..Len(program[p])
    BY ProgramsAssumption DEF BurstsKept, TypeInv
  <2>2. Adds(p)
    BY <2>1 DEF Adds, Names
  <2>3. CountsInv(p) /\ printed[p] + Owed(p) + Held(p) = inside[p]
    BY <2>2 DEF BurstsKept, BurstInv
  <2>4. Len(ops[p]) = 0
    BY DEF Done
  <2>5. Owed(p) = 0 /\ Held(p) = 0
    BY <2>4 DEF Owed, Held, Asks
  <2> QED BY <2>3, <2>5 DEF CountsInv
<1> QED BY <1>1, <1>2, <1>3, PTL DEF Spec

--------------------------------------------------------------------------------
(* The operations of a blocking call.                                         *)

\* u has each element of X once.
Lists(u, X) == u \in Seq(X) /\ Range(u) = X /\ \A i, j \in 1..Len(u) : u[i] = u[j] => i = j

LEMMA ListsFacts ==
    ASSUME NEW u, NEW X, Lists(u, X)
    PROVE  /\ u \in Seq(X) /\ Len(u) \in Nat /\ DOMAIN u = 1..Len(u)
           /\ \A i \in 1..Len(u) : u[i] \in X
           /\ \A x \in X : \E i \in 1..Len(u) : u[i] = x
<1>1. u \in Seq(X) /\ Len(u) \in Nat /\ DOMAIN u = 1..Len(u)
  BY DEF Lists
<1> QED BY <1>1 DEF Lists, Range

LEMMA ListsNone == Lists(<<>>, {})
<1>1. <<>> \in Seq({}) /\ Len(<<>>) = 0 /\ DOMAIN <<>> = {}
  OBVIOUS
<1>2. Range(<<>>) = {}
  BY <1>1 DEF Range
<1> QED BY <1>1, <1>2 DEF Lists

LEMMA ListsOne == \A a : Lists(<<a>>, {a})
<1> TAKE a
<1>1. <<a>> \in Seq({a}) /\ Len(<<a>>) = 1 /\ DOMAIN <<a>> = {1} /\ <<a>>[1] = a
  OBVIOUS
<1>2. Range(<<a>>) = {a}
  BY <1>1 DEF Range
<1>3. \A i, j \in 1..1 : i = j
  OBVIOUS
<1> QED BY <1>1, <1>2, <1>3 DEF Lists

\* Sequences of different elements, one behind the other.
LEMMA ListsBoth ==
    ASSUME NEW u, NEW X, NEW v, NEW Y, Lists(u, X), Lists(v, Y), X \cap Y = {}
    PROVE  Lists(u \o v, X \cup Y)
<1> DEFINE w == u \o v
           m == Len(u)
           n == Len(v)
<1>1. m \in Nat /\ n \in Nat /\ u \in Seq(X) /\ v \in Seq(Y)
  BY ListsFacts
<1>2. u \in Seq(X \cup Y) /\ v \in Seq(X \cup Y)
  BY <1>1
<1>3. /\ w \in Seq(X \cup Y) /\ Len(w) = m + n /\ DOMAIN w = 1..m + n
      /\ \A i \in 1..m + n : w[i] = IF i <= m THEN u[i] ELSE v[i - m]
  BY <1>1, <1>2
<1> HIDE DEF w, m, n
<1>4. \A i \in 1..m + n : \/ i \in 1..m /\ w[i] = u[i] /\ w[i] \in X
                          \/ i - m \in 1..n /\ w[i] = v[i - m] /\ w[i] \in Y
  <2> TAKE i \in 1..m + n
  <2>1. CASE i <= m
    <3>1. i \in 1..m
      BY <1>1, <2>1
    <3> QED BY <1>3, <2>1, <3>1, ListsFacts DEF m
  <2>2. CASE ~(i <= m)
    <3>1. i - m \in 1..n
      BY <1>1, <2>2
    <3> QED BY <1>3, <2>2, <3>1, ListsFacts DEF n
  <2> QED BY <2>1, <2>2
<1>5. \A i, j \in 1..Len(w) : w[i] = w[j] => i = j
  <2> SUFFICES ASSUME NEW i \in 1..m + n, NEW j \in 1..m + n, w[i] = w[j]
               PROVE  i = j
    BY <1>3
  <2>1. CASE w[i] \in X
    <3>1. i \in 1..m /\ j \in 1..m /\ u[i] = u[j]
      BY <1>4, <2>1
    <3> QED BY <3>1 DEF Lists, m
  <2>2. CASE w[i] \in Y
    <3>1. i - m \in 1..n /\ j - m \in 1..n /\ v[i - m] = v[j - m]
      BY <1>4, <2>2
    <3>2. i - m = j - m
      BY <3>1 DEF Lists, n
    <3> QED BY <1>1, <3>2
  <2> QED BY <1>4, <2>1, <2>2
<1>6. Range(w) = X \cup Y
  <2>1. ASSUME NEW x \in X
        PROVE  \E i \in 1..m + n : w[i] = x
    <3>1. PICK i \in 1..m : u[i] = x
      BY ListsFacts DEF m
    <3>2. i \in 1..m + n /\ i <= m
      BY <1>1
    <3> QED BY <1>3, <3>1, <3>2
  <2>2. ASSUME NEW y \in Y
        PROVE  \E i \in 1..m + n : w[i] = y
    <3>1. PICK i \in 1..n : v[i] = y
      BY ListsFacts DEF n
    <3>2. i + m \in 1..m + n /\ ~(i + m <= m) /\ (i + m) - m = i
      BY <1>1
    <3> QED BY <1>3, <3>1, <3>2
  <2> QED BY <1>3, <1>4, <2>1, <2>2 DEF Range
<1> QED BY <1>3, <1>5, <1>6 DEF Lists, w

\* The head is gone from the tail.
LEMMA ListsTail ==
    ASSUME NEW u, NEW X, Lists(u, X), u # <<>>
    PROVE  Head(u) \in X /\ Lists(Tail(u), X \ {Head(u)})
<1> DEFINE w == Tail(u)
           n == Len(u)
           Y == X \ {Head(u)}
<1>1. u \in Seq(X) /\ n \in Nat \ {0}
  BY ListsFacts
<1>2. /\ w \in Seq(X) /\ Len(w) = n - 1 /\ DOMAIN w = 1..n - 1 /\ \A i \in 1..n - 1 : w[i] = u[i + 1]
      /\ Head(u) = u[1] /\ w = [i \in 1..n - 1 |-> w[i]]
  <2>1. w \in Seq(X) /\ Len(w) = n - 1 /\ Head(u) = u[1]
    BY <1>1
  <2>2. \A i \in 1..n - 1 : w[i] = u[i + 1]
    BY <1>1
  <2> HIDE DEF w
  <2>3. DOMAIN w = 1..n - 1 /\ w = [i \in 1..n - 1 |-> w[i]]
    BY <2>1
  <2> QED BY <2>1, <2>2, <2>3
<1> HIDE DEF w, n
<1>3. \A i \in 1..n - 1 : i + 1 \in 1..n /\ i + 1 # 1 /\ 1 \in 1..n
  BY <1>1
<1>4. \A i \in 1..n - 1 : w[i] \in Y
  BY <1>2, <1>3, ListsFacts DEF Lists, n
<1>5. \A i, j \in 1..n - 1 : w[i] = w[j] => i = j
  <2> SUFFICES ASSUME NEW i \in 1..n - 1, NEW j \in 1..n - 1, w[i] = w[j]
               PROVE  i = j
    OBVIOUS
  <2>1. i + 1 = j + 1
    BY <1>2, <1>3 DEF Lists, n
  <2> QED BY <1>1, <2>1
<1>6. \A x \in Y : \E i \in 1..n - 1 : w[i] = x
  <2> TAKE x \in Y
  <2>1. PICK i \in 1..n : u[i] = x
    BY ListsFacts DEF n
  <2>2. i # 1
    BY <1>2, <2>1
  <2>3. i - 1 \in 1..n - 1 /\ (i - 1) + 1 = i
    BY <1>1, <2>2
  <2> QED BY <1>2, <2>1, <2>3
<1>7. w \in Seq(Y)
  <2>1. [i \in 1..n - 1 |-> w[i]] \in Seq(Y)
    BY <1>1, <1>4
  <2> QED BY <1>2, <2>1
<1>8. Range(w) = Y
  BY <1>2, <1>4, <1>6 DEF Range
<1>9. Head(u) \in X
  BY <1>1, <1>2, ListsFacts DEF n
<1> QED BY <1>2, <1>5, <1>7, <1>8, <1>9 DEF Lists, w

\* What call c of process p is to do, as the communications it takes part in
\* require it: the entries of what it sends and of what it receives.
RootOf(c) == IF c.name \in {"Scatter", "Scatterv", "Gatherv"} THEN c.root ELSE 0
Members(c) == 0..c.comm_size - 1
OutTo(p, c) ==
    CASE c.name = "Bcast" -> IF RootOf(c) = p THEN Members(c) \ {p} ELSE {}
      [] c.name \in {"Reduce", "Gather", "Gatherv"} -> {RootOf(c)}
      [] c.name \in {"Scatter", "Scatterv"} -> IF RootOf(c) = p THEN Members(c) ELSE {}
      [] OTHER -> Members(c)
InFrom(p, c) ==
    CASE c.name = "Bcast" -> IF RootOf(c) = p THEN {} ELSE {RootOf(c)}
      [] c.name \in {"Reduce", "Gather", "Gatherv"} -> IF RootOf(c) = p THEN Members(c) ELSE {}
      [] c.name \in {"Scatter", "Scatterv"} -> {RootOf(c)}
      [] OTHER -> Members(c)
Sends(p, c) ==
    IF c.name \in Sending THEN {Entry(p, c.other, c.tag)}
    ELSE IF c.name \in Collective THEN {Entry(p, q, 0) : q \in OutTo(p, c)} ELSE {}
Receives(p, c) ==
    IF c.name \in Receiving THEN {Entry(Source(c), p, SourceTag(c))}
    ELSE IF c.name \in Collective THEN {Entry(q, p, 0) : q \in InFrom(p, c)} ELSE {}
Each(do, db, E) == {Op(do, db, e) : e \in E}
Does(p, c) ==
    Each("put", "s", Sends(p, c)) \cup Each("get", "r", Sends(p, c))
      \cup Each("put", "r", Receives(p, c)) \cup Each("get", "s", Receives(p, c))

LEMMA OthersFacts ==
    ASSUME NEW n \in Nat, NEW p \in 0..n - 1
    PROVE  /\ \A k \in 1..n - 1 : Others(p, n)[k] \in 0..n - 1 /\ Others(p, n)[k] # p
           /\ \A j, k \in 1..n - 1 : Others(p, n)[j] = Others(p, n)[k] => j = k
           /\ \A q \in 0..n - 1 : q # p => \E k \in 1..n - 1 : Others(p, n)[k] = q
<1>1. \A k \in 1..n - 1 : Others(p, n)[k] = IF k <= p THEN k - 1 ELSE k
  BY DEF Others
<1>2. ASSUME NEW q \in 0..n - 1, q # p
      PROVE  \E k \in 1..n - 1 : Others(p, n)[k] = q
  <2>1. CASE q < p
    <3>1. q + 1 \in 1..n - 1 /\ q + 1 <= p /\ (q + 1) - 1 = q
      BY <2>1
    <3> QED BY <1>1, <3>1
  <2>2. CASE q > p
    <3>1. q \in 1..n - 1 /\ ~(q <= p)
      BY <2>2
    <3> QED BY <1>1, <3>1
  <2> QED BY <1>2, <2>1, <2>2
<1> QED BY <1>1, <1>2

LEMMA EachFacts ==
    ASSUME NEW do, NEW db, NEW do2, NEW db2, NEW E, NEW F, <<do, db>> # <<do2, db2>> \/ E \cap F = {}
    PROVE  Each(do, db, E) \cap Each(do2, db2, F) = {}
<1> SUFFICES ASSUME NEW e \in E, NEW f \in F, Op(do, db, e) = Op(do2, db2, f)
             PROVE  FALSE
  BY DEF Each
<1>1. do = do2 /\ db = db2 /\ e = f
  BY DEF Op
<1> QED BY <1>1

LEMMA EachUnion ==
    \A do, db, E, F : Each(do, db, E \cup F) = Each(do, db, E) \cup Each(do, db, F)
BY DEF Each

\* A sequence given by its elements, all different.
LEMMA ListsOf ==
    ASSUME NEW m \in Int, NEW u, NEW X, u = [k \in 1..m |-> u[k]], m >= 0,
           \A k \in 1..m : u[k] \in X,
           \A j, k \in 1..m : u[j] = u[k] => j = k,
           \A x \in X : \E k \in 1..m : u[k] = x
    PROVE  Lists(u, X)
<1>1. m \in Nat
  OBVIOUS
<1>2. [k \in 1..m |-> u[k]] \in Seq(X) /\ Len([k \in 1..m |-> u[k]]) = m /\ DOMAIN [k \in 1..m |-> u[k]] = 1..m
  BY <1>1
<1>3. u \in Seq(X) /\ Len(u) = m /\ DOMAIN u = 1..m
  BY <1>2
<1>4. Range(u) = X
  BY <1>3 DEF Range
<1> QED BY <1>3, <1>4 DEF Lists

LEMMA SenderLists ==
    ASSUME NEW n \in Nat, NEW p \in 0..n - 1, NEW do, NEW db
    PROVE  Lists(AsSender(p, n, do, db), Each(do, db, {Entry(p, q, 0) : q \in (0..n - 1) \ {p}}))
<1> DEFINE u == AsSender(p, n, do, db)
           X == Each(do, db, {Entry(p, q, 0) : q \in (0..n - 1) \ {p}})
           o(q) == Op(do, db, Entry(p, q, 0))
<1>1. u = [k \in 1..n - 1 |-> u[k]] /\ \A k \in 1..n - 1 : u[k] = o(Others(p, n)[k])
  BY DEF AsSender
<1>2. \A q, r : o(q) = o(r) => q = r
  BY DEF Op, Entry
<1>3. X = {o(q) : q \in (0..n - 1) \ {p}}
  BY DEF Each
<1> HIDE DEF u, X, o
<1>4. /\ \A k \in 1..n - 1 : u[k] \in X
      /\ \A x \in X : \E k \in 1..n - 1 : u[k] = x
      /\ \A j, k \in 1..n - 1 : u[j] = u[k] => j = k
  BY <1>1, <1>2, <1>3, OthersFacts
<1>5. n - 1 \in Int /\ n - 1 >= 0
  OBVIOUS
<1>6. Lists(u, X)
  BY <1>1, <1>4, <1>5, ListsOf
<1> QED BY <1>6 DEF u, X

LEMMA ReceiverLists ==
    ASSUME NEW n \in Nat, NEW p \in 0..n - 1, NEW do, NEW db
    PROVE  Lists(AsReceiver(p, n, do, db), Each(do, db, {Entry(q, p, 0) : q \in (0..n - 1) \ {p}}))
<1> DEFINE u == AsReceiver(p, n, do, db)
           X == Each(do, db, {Entry(q, p, 0) : q \in (0..n - 1) \ {p}})
           o(q) == Op(do, db, Entry(q, p, 0))
<1>1. u = [k \in 1..n - 1 |-> u[k]] /\ \A k \in 1..n - 1 : u[k] = o(Others(p, n)[k])
  BY DEF AsReceiver
<1>2. \A q, r : o(q) = o(r) => q = r
  BY DEF Op, Entry
<1>3. X = {o(q) : q \in (0..n - 1) \ {p}}
  BY DEF Each
<1> HIDE DEF u, X, o
<1>4. /\ \A k \in 1..n - 1 : u[k] \in X
      /\ \A x \in X : \E k \in 1..n - 1 : u[k] = x
      /\ \A j, k \in 1..n - 1 : u[j] = u[k] => j = k
  BY <1>1, <1>2, <1>3, OthersFacts
<1>5. n - 1 \in Int /\ n - 1 >= 0
  OBVIOUS
<1>6. Lists(u, X)
  BY <1>1, <1>4, <1>5, ListsOf
<1> QED BY <1>6 DEF u, X

LEMMA SelfLists ==
    \A p, do, db : Lists(Self(p, do, db), Each(do, db, {Entry(p, p, 0)}))
<1> TAKE p, do, db
<1>1. Each(do, db, {Entry(p, p, 0)}) = {Op(do, db, Entry(p, p, 0))}
  BY DEF Each
<1> QED BY <1>1, ListsOne DEF Self

LEMMA ListsTwo == \A a, b : a # b => Lists(<<a, b>>, {a, b})
<1> SUFFICES ASSUME NEW a, NEW b, a # b
             PROVE  Lists(<<a, b>>, {a, b})
  OBVIOUS
<1> DEFINE u == <<a, b>>
<1>1. u = [k \in 1..2 |-> u[k]] /\ u[1] = a /\ u[2] = b
  OBVIOUS
<1>2. \A k \in 1..2 : k = 1 \/ k = 2
  OBVIOUS
<1> HIDE DEF u
<1>3. /\ \A k \in 1..2 : u[k] \in {a, b}
      /\ \A j, k \in 1..2 : u[j] = u[k] => j = k
      /\ \A x \in {a, b} : \E k \in 1..2 : u[k] = x
  BY <1>1, <1>2
<1>4. ASSUME NEW m \in Int, m = 2 PROVE Lists(u, {a, b})
  <2>1. /\ u = [k \in 1..m |-> u[k]] /\ m >= 0
        /\ \A k \in 1..m : u[k] \in {a, b}
        /\ \A j, k \in 1..m : u[j] = u[k] => j = k
        /\ \A x \in {a, b} : \E k \in 1..m : u[k] = x
    BY <1>1, <1>3, <1>4
  <2> QED BY <2>1, ListsOf
<1>5. Lists(u, {a, b})
  BY <1>4
<1> QED BY <1>5 DEF u

LEMMA ListsFour == \A a, b, c, d : a \notin {b, c, d} /\ b \notin {c, d} /\ c # d => Lists(<<a, b, c, d>>, {a, b, c, d})
<1> SUFFICES ASSUME NEW a, NEW b, NEW c, NEW d, a \notin {b, c, d}, b \notin {c, d}, c # d
             PROVE  Lists(<<a, b, c, d>>, {a, b, c, d})
  OBVIOUS
<1> DEFINE u == <<a, b, c, d>>
<1>1. u = [k \in 1..4 |-> u[k]] /\ u[1] = a /\ u[2] = b /\ u[3] = c /\ u[4] = d
  OBVIOUS
<1>2. \A k \in 1..4 : k = 1 \/ k = 2 \/ k = 3 \/ k = 4
  OBVIOUS
<1> HIDE DEF u
<1>3. /\ \A k \in 1..4 : u[k] \in {a, b, c, d}
      /\ \A j, k \in 1..4 : u[j] = u[k] => j = k
      /\ \A x \in {a, b, c, d} : \E k \in 1..4 : u[k] = x
  BY <1>1, <1>2
<1>4. ASSUME NEW m \in Int, m = 4 PROVE Lists(u, {a, b, c, d})
  <2>1. /\ u = [k \in 1..m |-> u[k]] /\ m >= 0
        /\ \A k \in 1..m : u[k] \in {a, b, c, d}
        /\ \A j, k \in 1..m : u[j] = u[k] => j = k
        /\ \A x \in {a, b, c, d} : \E k \in 1..m : u[k] = x
    BY <1>1, <1>3, <1>4
  <2> QED BY <2>1, ListsOf
<1>5. Lists(u, {a, b, c, d})
  BY <1>4
<1> QED BY <1>5 DEF u

\* The operations of a list, told apart by what they do, where, and for whom.
LEMMA EachElement ==
    \A do, db, E : \A x \in Each(do, db, E) : x.do = do /\ x.db = db /\ x.e \in E
BY DEF Each, Op

LEMMA EntryFacts ==
    ASSUME NEW n \in Nat, NEW p \in 0..n - 1
    PROVE  /\ {Entry(p, q, 0) : q \in 0..n - 1} = {Entry(p, q, 0) : q \in (0..n - 1) \ {p}} \cup {Entry(p, p, 0)}
           /\ {Entry(q, p, 0) : q \in 0..n - 1} = {Entry(q, p, 0) : q \in (0..n - 1) \ {p}} \cup {Entry(p, p, 0)}
           /\ Entry(p, p, 0) \notin {Entry(p, q, 0) : q \in (0..n - 1) \ {p}}
           /\ Entry(p, p, 0) \notin {Entry(q, p, 0) : q \in (0..n - 1) \ {p}}
<1>1. \A q : Entry(p, q, 0) = Entry(p, p, 0) \/ Entry(q, p, 0) = Entry(p, p, 0) => q = p
  BY DEF Entry
<1> QED BY <1>1

\* A process that sends to, or receives from, all members of a communicator.
LEMMA PairListsOut ==
    ASSUME NEW n \in Nat, NEW p \in 0..n - 1, NEW do, NEW db
    PROVE  LET E == {Entry(p, q, 0) : q \in (0..n - 1) \ {p}}
           IN  /\ Lists(AsSender(p, n, do, db), Each(do, db, E))
               /\ Lists(Self(p, do, db), Each(do, db, {Entry(p, p, 0)}))
               /\ Each(do, db, E) \cap Each(do, db, {Entry(p, p, 0)}) = {}
               /\ Each(do, db, E) \cup Each(do, db, {Entry(p, p, 0)}) = Each(do, db, {Entry(p, q, 0) : q \in 0..n - 1})
<1> DEFINE E == {Entry(p, q, 0) : q \in (0..n - 1) \ {p}}
           F == {Entry(p, p, 0)}
<1>1. E \cap F = {} /\ {Entry(p, q, 0) : q \in 0..n - 1} = E \cup F
  BY EntryFacts
<1>2. Lists(AsSender(p, n, do, db), Each(do, db, E)) /\ Lists(Self(p, do, db), Each(do, db, F))
  BY SenderLists, SelfLists
<1> HIDE DEF E, F
<1>3. Each(do, db, E) \cap Each(do, db, F) = {} /\ Each(do, db, E \cup F) = Each(do, db, E) \cup Each(do, db, F)
  BY <1>1, EachFacts, EachUnion
<1> QED BY <1>1, <1>2, <1>3 DEF E, F

LEMMA PairListsIn ==
    ASSUME NEW n \in Nat, NEW p \in 0..n - 1, NEW do, NEW db
    PROVE  LET E == {Entry(q, p, 0) : q \in (0..n - 1) \ {p}}
           IN  /\ Lists(AsReceiver(p, n, do, db), Each(do, db, E))
               /\ Lists(Self(p, do, db), Each(do, db, {Entry(p, p, 0)}))
               /\ Each(do, db, E) \cap Each(do, db, {Entry(p, p, 0)}) = {}
               /\ Each(do, db, E) \cup Each(do, db, {Entry(p, p, 0)}) = Each(do, db, {Entry(q, p, 0) : q \in 0..n - 1})
<1> DEFINE E == {Entry(q, p, 0) : q \in (0..n - 1) \ {p}}
           F == {Entry(p, p, 0)}
<1>1. E \cap F = {} /\ {Entry(q, p, 0) : q \in 0..n - 1} = E \cup F
  BY EntryFacts
<1>2. Lists(AsReceiver(p, n, do, db), Each(do, db, E)) /\ Lists(Self(p, do, db), Each(do, db, F))
  BY ReceiverLists, SelfLists
<1> HIDE DEF E, F
<1>3. Each(do, db, E) \cap Each(do, db, F) = {} /\ Each(do, db, E \cup F) = Each(do, db, E) \cup Each(do, db, F)
  BY <1>1, EachFacts, EachUnion
<1> QED BY <1>1, <1>2, <1>3 DEF E, F

\* Four pairs of lists, one behind the other.
LEMMA ListsEight ==
    ASSUME NEW a, NEW A, NEW b, NEW B, NEW c, NEW C, NEW d, NEW D, Lists(a, A), Lists(b, B), Lists(c, C), Lists(d, D),
           NEW f, NEW F, NEW g, NEW G, NEW h, NEW H, NEW i, NEW I, Lists(f, F), Lists(g, G), Lists(h, H), Lists(i, I),
           A \cap B = {}, C \cap D = {}, F \cap G = {}, H \cap I = {},
           (A \cup B) \cap (C \cup D) = {}, (A \cup B \cup C \cup D) \cap (F \cup G) = {},
           (A \cup B \cup C \cup D \cup F \cup G) \cap (H \cup I) = {}
    PROVE  Lists(a \o b \o c \o d \o f \o g \o h \o i, A \cup B \cup C \cup D \cup F \cup G \cup H \cup I)
<1>1. Lists(a \o b, A \cup B)
  BY ListsBoth
<1>2. Lists(a \o b \o c, A \cup B \cup C)
  <2>1. (A \cup B) \cap C = {}
    OBVIOUS
  <2> QED BY <1>1, <2>1, ListsBoth
<1>3. Lists(a \o b \o c \o d, A \cup B \cup C \cup D)
  <2>1. (A \cup B \cup C) \cap D = {}
    OBVIOUS
  <2> QED BY <1>2, <2>1, ListsBoth
<1>4. Lists(a \o b \o c \o d \o f, A \cup B \cup C \cup D \cup F)
  <2>1. (A \cup B \cup C \cup D) \cap F = {}
    OBVIOUS
  <2> QED BY <1>3, <2>1, ListsBoth
<1>5. Lists(a \o b \o c \o d \o f \o g, A \cup B \cup C \cup D \cup F \cup G)
  <2>1. (A \cup B \cup C \cup D \cup F) \cap G = {}
    OBVIOUS
  <2> QED BY <1>4, <2>1, ListsBoth
<1>6. Lists(a \o b \o c \o d \o f \o g \o h, A \cup B \cup C \cup D \cup F \cup G \cup H)
  <2>1. (A \cup B \cup C \cup D \cup F \cup G) \cap H = {}
    OBVIOUS
  <2> QED BY <1>5, <2>1, ListsBoth
<1>7. (A \cup B \cup C \cup D \cup F \cup G \cup H) \cap I = {}
  OBVIOUS
<1> QED BY <1>6, <1>7, ListsBoth

\* A list of four between a first and a last operation.
LEMMA ListsAround ==
    ASSUME NEW x, NEW y, x # y, NEW a, NEW A, NEW b, NEW B, NEW c, NEW C, NEW d, NEW D,
           Lists(a, A), Lists(b, B), Lists(c, C), Lists(d, D),
           A \cap B = {}, C \cap D = {}, (A \cup B) \cap (C \cup D) = {}, {x, y} \cap (A \cup B \cup C \cup D) = {}
    PROVE  Lists(<<x>> \o (a \o b \o c \o d) \o <<y>>, {x, y} \cup A \cup B \cup C \cup D)
<1>1. Lists(a \o b, A \cup B)
  BY ListsBoth
<1>2. Lists(a \o b \o c, A \cup B \cup C)
  <2>1. (A \cup B) \cap C = {}
    OBVIOUS
  <2> QED BY <1>1, <2>1, ListsBoth
<1>3. Lists(a \o b \o c \o d, A \cup B \cup C \cup D)
  <2>1. (A \cup B \cup C) \cap D = {}
    OBVIOUS
  <2> QED BY <1>2, <2>1, ListsBoth
<1>4. Lists(<<x>> \o (a \o b \o c \o d), {x} \cup (A \cup B \cup C \cup D))
  <2>1. Lists(<<x>>, {x}) /\ {x} \cap (A \cup B \cup C \cup D) = {}
    BY ListsOne
  <2> QED BY <1>3, <2>1, ListsBoth
<1>5. Lists(<<y>>, {y}) /\ ({x} \cup (A \cup B \cup C \cup D)) \cap {y} = {}
  BY ListsOne
<1>6. Lists((<<x>> \o (a \o b \o c \o d)) \o <<y>>, ({x} \cup (A \cup B \cup C \cup D)) \cup {y})
  BY <1>4, <1>5, ListsBoth
<1>7. ({x} \cup (A \cup B \cup C \cup D)) \cup {y} = {x, y} \cup A \cup B \cup C \cup D
  OBVIOUS
<1> QED BY <1>6, <1>7

\* Operations of different kinds are different, and so are those of entries
\* that are.
LEMMA Kinds ==
    ASSUME NEW A, NEW B, NEW da, NEW la, NEW ea, NEW db, NEW lb, NEW eb,
           A = Each(da, la, ea), B = Each(db, lb, eb), da # db \/ la # lb
    PROVE  A \cap B = {}
<1>1. <<da, la>> # <<db, lb>>
  OBVIOUS
<1> QED BY <1>1, EachFacts

LEMMA AllreduceLists ==
    ASSUME NEW n \in Nat, NEW p \in 0..n - 1, NEW m, m.comm_size = n
    PROVE  Lists(update_MPI_Allreduce(p, m),
                 LET S == {Entry(p, q, 0) : q \in 0..n - 1}
                     R == {Entry(q, p, 0) : q \in 0..n - 1}
                 IN  Each("put", "s", S) \cup Each("get", "r", S) \cup Each("put", "r", R) \cup Each("get", "s", R))
<1> DEFINE S == {Entry(p, q, 0) : q \in 0..n - 1}
           R == {Entry(q, p, 0) : q \in 0..n - 1}
           S0 == {Entry(p, q, 0) : q \in (0..n - 1) \ {p}}
           R0 == {Entry(q, p, 0) : q \in (0..n - 1) \ {p}}
           O == {Entry(p, p, 0)}
           A == Each("put", "s", S0)
           B == Each("put", "s", O)
           C == Each("put", "r", R0)
           D == Each("put", "r", O)
           F == Each("get", "s", R0)
           G == Each("get", "s", O)
           H == Each("get", "r", S0)
           I == Each("get", "r", O)
<1>1. /\ Lists(AsSender(p, n, "put", "s"), A) /\ Lists(Self(p, "put", "s"), B) /\ A \cap B = {} /\ A \cup B = Each("put", "s", S)
      /\ Lists(AsReceiver(p, n, "put", "r"), C) /\ Lists(Self(p, "put", "r"), D) /\ C \cap D = {} /\ C \cup D = Each("put", "r", R)
      /\ Lists(AsReceiver(p, n, "get", "s"), F) /\ Lists(Self(p, "get", "s"), G) /\ F \cap G = {} /\ F \cup G = Each("get", "s", R)
      /\ Lists(AsSender(p, n, "get", "r"), H) /\ Lists(Self(p, "get", "r"), I) /\ H \cap I = {} /\ H \cup I = Each("get", "r", S)
  <2>1. Lists(AsSender(p, n, "put", "s"), A) /\ Lists(Self(p, "put", "s"), B) /\ A \cap B = {} /\ A \cup B = Each("put", "s", S)
    BY PairListsOut
  <2>2. Lists(AsReceiver(p, n, "put", "r"), C) /\ Lists(Self(p, "put", "r"), D) /\ C \cap D = {} /\ C \cup D = Each("put", "r", R)
    BY PairListsIn
  <2>3. Lists(AsReceiver(p, n, "get", "s"), F) /\ Lists(Self(p, "get", "s"), G) /\ F \cap G = {} /\ F \cup G = Each("get", "s", R)
    BY PairListsIn
  <2>4. Lists(AsSender(p, n, "get", "r"), H) /\ Lists(Self(p, "get", "r"), I) /\ H \cap I = {} /\ H \cup I = Each("get", "r", S)
    BY PairListsOut
  <2> QED BY <2>1, <2>2, <2>3, <2>4
<1> HIDE DEF S, R, S0, R0, O, A, B, C, D, F, G, H, I
<1>2. /\ (A \cup B) \cap (C \cup D) = {}
      /\ (A \cup B) \cap (F \cup G) = {}
      /\ (C \cup D) \cap (F \cup G) = {}
      /\ (A \cup B) \cap (H \cup I) = {}
      /\ (C \cup D) \cap (H \cup I) = {}
      /\ (F \cup G) \cap (H \cup I) = {}
  BY <1>1, Kinds
<1>3. (A \cup B \cup C \cup D) \cap (F \cup G) = {} /\ (A \cup B \cup C \cup D \cup F \cup G) \cap (H \cup I) = {}
  BY <1>2
<1>4. Lists(update_MPI_Allreduce(p, m), A \cup B \cup C \cup D \cup F \cup G \cup H \cup I)
  BY <1>1, <1>2, <1>3, ListsEight DEF update_MPI_Allreduce
<1>5. A \cup B \cup C \cup D \cup F \cup G \cup H \cup I
        = Each("put", "s", S) \cup Each("get", "r", S) \cup Each("put", "r", R) \cup Each("get", "s", R)
  BY <1>1
<1> QED BY <1>4, <1>5 DEF S, R

LEMMA Around == \A x, y : (<<x>> \o <<>>) \o <<y>> = <<x, y>>
<1> TAKE x, y
<1>1. <<x>> \in Seq({x, y}) /\ <<y>> \in Seq({x, y})
  OBVIOUS
<1>2. <<x>> \o <<>> = <<x>>
  BY <1>1, ConcatEmptySeq
<1>3. <<x>> \o <<y>> = <<x, y>>
  <2> DEFINE a == <<x>>
             b == <<y>>
             c == <<x, y>>
  <2>1. Len(a) = 1 /\ Len(b) = 1 /\ a[1] = x /\ b[1] = y /\ a \in Seq({x, y}) /\ b \in Seq({x, y})
    BY <1>1
  <2>2. c \in Seq({x, y}) /\ Len(c) = 2 /\ c[1] = x /\ c[2] = y
    OBVIOUS
  <2> HIDE DEF a, b, c
  <2>3. a \o b \in Seq({x, y}) /\ Len(a \o b) = 2 /\ (a \o b)[1] = x /\ (a \o b)[2] = y
    <3>1. /\ a \o b \in Seq({x, y}) /\ Len(a \o b) = Len(a) + Len(b)
          /\ \A i \in 1..Len(a) + Len(b) : (a \o b)[i] = IF i <= Len(a) THEN a[i] ELSE b[i - Len(a)]
      BY <2>1, ConcatProperties
    <3>2. 1 \in 1..1 + 1 /\ 2 \in 1..1 + 1 /\ 1 + 1 = 2 /\ 1 <= 1 /\ ~(2 <= 1) /\ 2 - 1 = 1
      OBVIOUS
    <3> QED BY <2>1, <3>1, <3>2
  <2>4. \A i \in 1..2 : i = 1 \/ i = 2
    OBVIOUS
  <2>5. a \o b = c
    BY <2>2, <2>3, <2>4, SeqEqual
  <2> QED BY <2>5 DEF a, b, c
<1> QED BY <1>2, <1>3

LEMMA ReduceLists ==
    ASSUME NEW n \in Nat, NEW p \in 0..n - 1, NEW m, m.comm_size = n, m.other \in 0..n - 1
    PROVE  Lists(update_MPI_Reduce(p, m),
                 LET S == {Entry(p, m.other, 0)}
                     R == IF m.other = p THEN {Entry(q, p, 0) : q \in 0..n - 1} ELSE {}
                 IN  Each("put", "s", S) \cup Each("get", "r", S) \cup Each("put", "r", R) \cup Each("get", "s", R))
<1> DEFINE e == Entry(p, m.other, 0)
           S == {e}
           R == {Entry(q, p, 0) : q \in 0..n - 1}
           R0 == {Entry(q, p, 0) : q \in (0..n - 1) \ {p}}
           O == {Entry(p, p, 0)}
           A == Each("put", "r", R0)
           B == Each("put", "r", O)
           C == Each("get", "s", R0)
           D == Each("get", "s", O)
<1>1. Each("put", "s", S) = {PutS(e)} /\ Each("get", "r", S) = {GetR(e)} /\ PutS(e) # GetR(e)
  BY DEF Each, PutS, GetR, Op
<1>2. CASE m.other = p
  <2>1. /\ Lists(AsReceiver(p, n, "put", "r"), A) /\ Lists(Self(p, "put", "r"), B) /\ A \cap B = {} /\ A \cup B = Each("put", "r", R)
        /\ Lists(AsReceiver(p, n, "get", "s"), C) /\ Lists(Self(p, "get", "s"), D) /\ C \cap D = {} /\ C \cup D = Each("get", "s", R)
    BY PairListsIn
  <2>2. update_MPI_Reduce(p, m)
          = <<PutS(e)>> \o (AsReceiver(p, n, "put", "r") \o Self(p, "put", "r") \o AsReceiver(p, n, "get", "s") \o Self(p, "get", "s"))
              \o <<GetR(e)>>
    BY <1>2 DEF update_MPI_Reduce
  <2> HIDE DEF e, S, R, R0, O, A, B, C, D
  <2>3. /\ Each("put", "s", S) \cap Each("put", "r", R) = {} /\ Each("put", "s", S) \cap Each("get", "s", R) = {}
        /\ Each("get", "r", S) \cap Each("put", "r", R) = {} /\ Each("get", "r", S) \cap Each("get", "s", R) = {}
        /\ Each("put", "r", R) \cap Each("get", "s", R) = {}
    BY Kinds
  <2>4. (A \cup B) \cap (C \cup D) = {} /\ {PutS(e), GetR(e)} \cap (A \cup B \cup C \cup D) = {}
    BY <1>1, <2>1, <2>3
  <2>5. Lists(update_MPI_Reduce(p, m), {PutS(e), GetR(e)} \cup A \cup B \cup C \cup D)
    BY <1>1, <2>1, <2>2, <2>4, ListsAround
  <2>6. {PutS(e), GetR(e)} \cup A \cup B \cup C \cup D
          = Each("put", "s", S) \cup Each("get", "r", S) \cup Each("put", "r", R) \cup Each("get", "s", R)
    BY <1>1, <2>1
  <2> QED BY <1>2, <2>5, <2>6 DEF S, R, e
<1>3. CASE m.other # p
  <2>1. update_MPI_Reduce(p, m) = <<PutS(e), GetR(e)>>
    <3>1. update_MPI_Reduce(p, m) = (<<PutS(e)>> \o <<>>) \o <<GetR(e)>>
      BY <1>3 DEF update_MPI_Reduce
    <3> HIDE DEF e
    <3>2. (<<PutS(e)>> \o <<>>) \o <<GetR(e)>> = <<PutS(e), GetR(e)>>
      BY Around
    <3> QED BY <3>1, <3>2
  <2>2. Each("put", "r", {}) = {} /\ Each("get", "s", {}) = {}
    BY DEF Each
  <2>3. Each("put", "s", S) \cup Each("get", "r", S) \cup Each("put", "r", {}) \cup Each("get", "s", {}) = {PutS(e), GetR(e)}
    BY <1>1, <2>2
  <2>4. Lists(<<PutS(e), GetR(e)>>, {PutS(e), GetR(e)})
    BY <1>1, ListsTwo
  <2> QED BY <1>3, <2>1, <2>3, <2>4
<1> QED BY <1>2, <1>3

LEMMA ScatterLists ==
    ASSUME NEW n \in Nat, NEW p \in 0..n - 1, NEW m, m.comm_size = n, m.other \in 0..n - 1
    PROVE  Lists(update_MPI_Scatter(p, m),
                 LET S == IF m.other = p THEN {Entry(p, q, 0) : q \in 0..n - 1} ELSE {}
                     R == {Entry(m.other, p, 0)}
                 IN  Each("put", "s", S) \cup Each("get", "r", S) \cup Each("put", "r", R) \cup Each("get", "s", R))
<1> DEFINE e == Entry(m.other, p, 0)
           R == {e}
           S == {Entry(p, q, 0) : q \in 0..n - 1}
           S0 == {Entry(p, q, 0) : q \in (0..n - 1) \ {p}}
           O == {Entry(p, p, 0)}
           A == Each("put", "s", S0)
           B == Each("put", "s", O)
           C == Each("get", "r", S0)
           D == Each("get", "r", O)
<1>1. Each("put", "r", R) = {PutR(e)} /\ Each("get", "s", R) = {GetS(e)} /\ PutR(e) # GetS(e)
  BY DEF Each, PutR, GetS, Op
<1>2. CASE m.other = p
  <2>1. /\ Lists(AsSender(p, n, "put", "s"), A) /\ Lists(Self(p, "put", "s"), B) /\ A \cap B = {} /\ A \cup B = Each("put", "s", S)
        /\ Lists(AsSender(p, n, "get", "r"), C) /\ Lists(Self(p, "get", "r"), D) /\ C \cap D = {} /\ C \cup D = Each("get", "r", S)
    BY PairListsOut
  <2>2. update_MPI_Scatter(p, m)
          = <<PutR(e)>> \o (AsSender(p, n, "put", "s") \o Self(p, "put", "s") \o AsSender(p, n, "get", "r") \o Self(p, "get", "r"))
              \o <<GetS(e)>>
    BY <1>2 DEF update_MPI_Scatter
  <2> HIDE DEF e, S, R, S0, O, A, B, C, D
  <2>3. /\ Each("put", "r", R) \cap Each("put", "s", S) = {} /\ Each("put", "r", R) \cap Each("get", "r", S) = {}
        /\ Each("get", "s", R) \cap Each("put", "s", S) = {} /\ Each("get", "s", R) \cap Each("get", "r", S) = {}
        /\ Each("put", "s", S) \cap Each("get", "r", S) = {}
    BY Kinds
  <2>4. (A \cup B) \cap (C \cup D) = {} /\ {PutR(e), GetS(e)} \cap (A \cup B \cup C \cup D) = {}
    BY <1>1, <2>1, <2>3
  <2>5. Lists(update_MPI_Scatter(p, m), {PutR(e), GetS(e)} \cup A \cup B \cup C \cup D)
    BY <1>1, <2>1, <2>2, <2>4, ListsAround
  <2>6. {PutR(e), GetS(e)} \cup A \cup B \cup C \cup D
          = Each("put", "s", S) \cup Each("get", "r", S) \cup Each("put", "r", R) \cup Each("get", "s", R)
    BY <1>1, <2>1
  <2> QED BY <1>2, <2>5, <2>6 DEF S, R, e
<1>3. CASE m.other # p
  <2>1. update_MPI_Scatter(p, m) = <<PutR(e), GetS(e)>>
    <3>1. update_MPI_Scatter(p, m) = (<<PutR(e)>> \o <<>>) \o <<GetS(e)>>
      BY <1>3 DEF update_MPI_Scatter
    <3> HIDE DEF e
    <3>2. (<<PutR(e)>> \o <<>>) \o <<GetS(e)>> = <<PutR(e), GetS(e)>>
      BY Around
    <3> QED BY <3>1, <3>2
  <2>2. Each("put", "s", {}) = {} /\ Each("get", "r", {}) = {}
    BY DEF Each
  <2>3. Each("put", "s", {}) \cup Each("get", "r", {}) \cup Each("put", "r", R) \cup Each("get", "s", R) = {PutR(e), GetS(e)}
    BY <1>1, <2>2
  <2>4. Lists(<<PutR(e), GetS(e)>>, {PutR(e), GetS(e)})
    BY <1>1, ListsTwo
  <2> QED BY <1>3, <2>1, <2>3, <2>4
<1> QED BY <1>2, <1>3

LEMMA BcastLists ==
    ASSUME NEW n \in Nat, NEW p \in 0..n - 1, NEW m, m.comm_size = n, m.other \in 0..n - 1
    PROVE  Lists(update_MPI_Bcast(p, m),
                 LET S == IF m.other = p THEN {Entry(p, q, 0) : q \in (0..n - 1) \ {p}} ELSE {}
                     R == IF m.other = p THEN {} ELSE {Entry(m.other, p, 0)}
                 IN  Each("put", "s", S) \cup Each("get", "r", S) \cup Each("put", "r", R) \cup Each("get", "s", R))
<1> DEFINE e == Entry(m.other, p, 0)
           R == {e}
           S == {Entry(p, q, 0) : q \in (0..n - 1) \ {p}}
<1>1. Each("put", "r", R) = {PutR(e)} /\ Each("get", "s", R) = {GetS(e)} /\ PutR(e) # GetS(e)
  BY DEF Each, PutR, GetS, Op
<1>2. \A do, db : Each(do, db, {}) = {}
  BY DEF Each
<1>3. CASE m.other = p
  <2>1. Lists(AsSender(p, n, "put", "s"), Each("put", "s", S)) /\ Lists(AsSender(p, n, "get", "r"), Each("get", "r", S))
    BY PairListsOut
  <2>2. update_MPI_Bcast(p, m) = AsSender(p, n, "put", "s") \o AsSender(p, n, "get", "r")
    BY <1>3 DEF update_MPI_Bcast
  <2>3. Each("put", "s", S) \cap Each("get", "r", S) = {}
    BY Kinds
  <2>4. Lists(update_MPI_Bcast(p, m), Each("put", "s", S) \cup Each("get", "r", S))
    <3> DEFINE A == Each("put", "s", S)
               B == Each("get", "r", S)
    <3> HIDE DEF A, B
    <3>1. Lists(AsSender(p, n, "put", "s") \o AsSender(p, n, "get", "r"), A \cup B)
      BY <2>1, <2>3, ListsBoth DEF A, B
    <3> QED BY <2>2, <3>1 DEF A, B
  <2>5. Each("put", "s", S) \cup Each("get", "r", S) \cup Each("put", "r", {}) \cup Each("get", "s", {})
          = Each("put", "s", S) \cup Each("get", "r", S)
    BY <1>2
  <2> QED BY <1>3, <2>4, <2>5
<1>4. CASE m.other # p
  <2>1. update_MPI_Bcast(p, m) = <<PutR(e), GetS(e)>>
    BY <1>4 DEF update_MPI_Bcast
  <2>2. Each("put", "s", {}) \cup Each("get", "r", {}) \cup Each("put", "r", R) \cup Each("get", "s", R) = {PutR(e), GetS(e)}
    BY <1>1, <1>2
  <2>3. Lists(<<PutR(e), GetS(e)>>, {PutR(e), GetS(e)})
    BY <1>1, ListsTwo
  <2> QED BY <1>4, <2>1, <2>2, <2>3
<1> QED BY <1>3, <1>4

\* update_info lists what a blocking call is to do.
LEMMA DoesListed ==
    ASSUME NEW p \in Procs, NEW c \in Calls, c.name \in Routines \ NonBlocking,
           c.name \in Collective => p < c.comm_size /\ c.root \in 0..c.comm_size - 1
    PROVE  Lists(update_info(p, mpi_update_db(c)), Does(p, c))
<1> DEFINE m == mpi_update_db(c)
           n == c.comm_size
<1>1. /\ m.name = c.name /\ m.comm_size = n
      /\ c.name \in {"Send", "Recv", "Sendrecv", "Sendrecv_replace"} => m.other = c.other /\ m.tag = c.tag
      /\ c.name \in {"Sendrecv", "Sendrecv_replace"} => m.other2 = c.other2 /\ m.tag2 = c.tag2
      /\ c.name \in Collective => m.other = RootOf(c)
  BY Notified DEF RootOf
<1>2. n \in Nat /\ p \in Nat
  BY NAssumption DEF Calls, Procs
<1> HIDE DEF m, n
<1>3. \A do, db : Each(do, db, {}) = {}
  BY DEF Each
<1>4. \A do, db, e : Each(do, db, {e}) = {Op(do, db, e)}
  BY DEF Each
<1>5. CASE c.name = "Send"
  <2> DEFINE e == Entry(p, c.other, c.tag)
  <2>1. update_info(p, m) = <<PutS(e), GetR(e)>>
    BY <1>1, <1>5 DEF update_info, update_MPI_Send
  <2>2. Sends(p, c) = {e} /\ Receives(p, c) = {}
    BY <1>5 DEF Sends, Receives, Sending, Receiving, Collective
  <2> HIDE DEF e
  <2>3. Does(p, c) = {PutS(e), GetR(e)}
    BY <1>3, <1>4, <2>2 DEF Does, PutS, GetR
  <2>4. PutS(e) # GetR(e)
    BY DEF PutS, GetR, Op
  <2> QED BY <2>1, <2>3, <2>4, ListsTwo DEF m
<1>6. CASE c.name = "Recv"
  <2> DEFINE e == Entry(c.other, p, c.tag)
  <2>1. update_info(p, m) = <<PutR(e), GetS(e)>>
    BY <1>1, <1>6 DEF update_info, update_MPI_Recv
  <2>2. Sends(p, c) = {} /\ Receives(p, c) = {e}
    BY <1>6 DEF Sends, Receives, Sending, Receiving, Collective, Source, SourceTag
  <2> HIDE DEF e
  <2>3. Does(p, c) = {PutR(e), GetS(e)}
    BY <1>3, <1>4, <2>2 DEF Does, PutR, GetS
  <2>4. PutR(e) # GetS(e)
    BY DEF PutR, GetS, Op
  <2> QED BY <2>1, <2>3, <2>4, ListsTwo DEF m
<1>7. CASE c.name \in {"Sendrecv", "Sendrecv_replace"}
  <2> DEFINE e == Entry(p, c.other, c.tag)
             f == Entry(c.other2, p, c.tag2)
  <2>1. update_info(p, m) = <<PutS(e), PutR(f), GetR(e), GetS(f)>>
    BY <1>1, <1>7 DEF update_info, update_MPI_Sendrecv
  <2>2. Sends(p, c) = {e} /\ Receives(p, c) = {f}
    BY <1>7 DEF Sends, Receives, Sending, Receiving, Collective, Source, SourceTag
  <2> HIDE DEF e, f
  <2>3. Does(p, c) = {PutS(e), PutR(f), GetR(e), GetS(f)}
    BY <1>3, <1>4, <2>2 DEF Does, PutS, GetR, PutR, GetS
  <2>4. PutS(e) \notin {PutR(f), GetR(e), GetS(f)} /\ PutR(f) \notin {GetR(e), GetS(f)} /\ GetR(e) # GetS(f)
    BY DEF PutR, GetS, PutS, GetR, Op
  <2> QED BY <2>1, <2>3, <2>4, ListsFour DEF m
<1>8. CASE c.name \in Collective
  <2>1. p \in 0..n - 1 /\ RootOf(c) \in 0..n - 1
    BY <1>2, <1>8 DEF RootOf, n
  <2>2. Sends(p, c) = {Entry(p, q, 0) : q \in OutTo(p, c)} /\ Receives(p, c) = {Entry(q, p, 0) : q \in InFrom(p, c)}
    BY <1>8 DEF Sends, Receives, Sending, Receiving, Collective
  <2>3. CASE c.name = "Bcast"
    <3>1. OutTo(p, c) = (IF m.other = p THEN (0..n - 1) \ {p} ELSE {}) /\ InFrom(p, c) = (IF m.other = p THEN {} ELSE {m.other})
      BY <1>1, <1>8, <2>3 DEF OutTo, InFrom, Members, n
    <3>2. /\ Sends(p, c) = IF m.other = p THEN {Entry(p, q, 0) : q \in (0..n - 1) \ {p}} ELSE {}
          /\ Receives(p, c) = IF m.other = p THEN {} ELSE {Entry(m.other, p, 0)}
      BY <2>2, <3>1
    <3>3. update_info(p, m) = update_MPI_Bcast(p, m)
      BY <1>1, <2>3 DEF update_info
    <3>4. m.other \in 0..n - 1
      BY <1>1, <1>8, <2>1
    <3>5. Lists(update_MPI_Bcast(p, m), Does(p, c))
      BY <1>1, <1>2, <2>1, <3>2, <3>4, BcastLists DEF Does
    <3> QED BY <3>3, <3>5 DEF m
  <2>4. CASE c.name \in {"Reduce", "Gather", "Gatherv"}
    <3>1. OutTo(p, c) = {m.other} /\ InFrom(p, c) = (IF m.other = p THEN 0..n - 1 ELSE {})
      BY <1>1, <1>8, <2>4 DEF OutTo, InFrom, Members, n
    <3>2. /\ Sends(p, c) = {Entry(p, m.other, 0)}
          /\ Receives(p, c) = IF m.other = p THEN {Entry(q, p, 0) : q \in 0..n - 1} ELSE {}
      BY <2>2, <3>1
    <3>3. update_info(p, m) = update_MPI_Reduce(p, m)
      BY <1>1, <2>4 DEF update_info
    <3>4. m.other \in 0..n - 1
      BY <1>1, <1>8, <2>1
    <3>5. Lists(update_MPI_Reduce(p, m), Does(p, c))
      BY <1>1, <1>2, <2>1, <3>2, <3>4, ReduceLists DEF Does
    <3> QED BY <3>3, <3>5 DEF m
  <2>5. CASE c.name \in {"Scatter", "Scatterv"}
    <3>1. OutTo(p, c) = (IF m.other = p THEN 0..n - 1 ELSE {}) /\ InFrom(p, c) = {m.other}
      BY <1>1, <1>8, <2>5 DEF OutTo, InFrom, Members, n
    <3>2. /\ Sends(p, c) = IF m.other = p THEN {Entry(p, q, 0) : q \in 0..n - 1} ELSE {}
          /\ Receives(p, c) = {Entry(m.other, p, 0)}
      BY <2>2, <3>1
    <3>3. update_info(p, m) = update_MPI_Scatter(p, m)
      BY <1>1, <2>5 DEF update_info
    <3>4. m.other \in 0..n - 1
      BY <1>1, <1>8, <2>1
    <3>5. Lists(update_MPI_Scatter(p, m), Does(p, c))
      BY <1>1, <1>2, <2>1, <3>2, <3>4, ScatterLists DEF Does
    <3> QED BY <3>3, <3>5 DEF m
  <2>6. CASE c.name \in {"Allgather", "Alltoall", "Alltoallv"}
    <3>1. OutTo(p, c) = 0..n - 1 /\ InFrom(p, c) = 0..n - 1
      BY <2>6 DEF OutTo, InFrom, Members, n
    <3>2. Sends(p, c) = {Entry(p, q, 0) : q \in 0..n - 1} /\ Receives(p, c) = {Entry(q, p, 0) : q \in 0..n - 1}
      BY <2>2, <3>1
    <3>3. update_info(p, m) = update_MPI_Allreduce(p, m)
      BY <1>1, <2>6 DEF update_info
    <3> QED BY <1>1, <1>2, <2>1, <3>2, <3>3, AllreduceLists DEF m, Does
  <2> QED BY <1>8, <2>3, <2>4, <2>5, <2>6 DEF Collective
<1>9. CASE c.name \notin Sending \cup Receiving \cup Collective
  <2>1. Sends(p, c) = {} /\ Receives(p, c) = {}
    BY <1>9 DEF Sends, Receives
  <2>2. Does(p, c) = {}
    BY <1>3, <2>1 DEF Does
  <2>3. update_info(p, m) = <<>>
    BY <1>1, <1>9 DEF update_info, Sending, Receiving, Collective, NonBlocking
  <2> QED BY <2>2, <2>3, ListsNone DEF m
<1> QED BY <1>5, <1>6, <1>7, <1>8, <1>9 DEF Sending, Receiving

--------------------------------------------------------------------------------
(* Histories: every operation has one partner.                                *)

Historic == program \in Programs /\ Blocking /\ History(program)

Work(p, k, o) == p \in Procs /\ k \in 1..Len(program[p]) /\ o \in Does(p, program[p][k])
Ev(p, k) == program[p][k].ev
Same(e, f) == e.id_s = f.id_s /\ e.id_r = f.id_r
Outward(o) == (o.do = "put") = (o.db = "s")

LEMMA CallFacts ==
    ASSUME Historic, NEW p \in Procs, NEW k \in 1..Len(program[p])
    PROVE  /\ program[p] \in Seq(Calls) /\ program[p][k] \in Calls /\ Len(program[p]) \in Nat
           /\ Ev(p, k) \in Int /\ program[p][k].name \notin NonBlocking
           /\ InHistory(program, p, program[p][k])
<1>1. program[p] \in Seq(Calls)
  BY ProgramsAssumption DEF Historic
<1>2. program[p][k] \in Calls /\ Len(program[p]) \in Nat
  BY <1>1
<1>3. Ev(p, k) \in Int
  BY <1>2 DEF Ev, Calls
<1>4. program[p][k].name \in Names(p)
  BY DEF Names
<1> QED BY <1>1, <1>2, <1>3, <1>4 DEF Historic, Blocking, History

LEMMA DoesFacts ==
    ASSUME NEW p, NEW c, NEW o \in Does(p, c)
    PROVE  /\ o = Op(o.do, o.db, o.e) /\ o.do \in {"put", "get"} /\ o.db \in {"s", "r"}
           /\ Outward(o) => o.e \in Sends(p, c) /\ o.e.id_s = p
           /\ ~Outward(o) => o.e \in Receives(p, c) /\ o.e.id_r = p
           /\ o.e = Entry(o.e.id_s, o.e.id_r, o.e.tag)
           /\ c.name \in Sending \cup Receiving \cup Collective
<1>1. /\ \A e \in Sends(p, c) : e.id_s = p /\ e = Entry(e.id_s, e.id_r, e.tag) /\ c.name \in Sending \cup Collective
      /\ \A e \in Receives(p, c) : e.id_r = p /\ e = Entry(e.id_s, e.id_r, e.tag) /\ c.name \in Receiving \cup Collective
  BY DEF Sends, Receives, Entry
<1>2. \/ o \in Each("put", "s", Sends(p, c)) \/ o \in Each("get", "r", Sends(p, c))
      \/ o \in Each("put", "r", Receives(p, c)) \/ o \in Each("get", "s", Receives(p, c))
  BY DEF Does
<1>3. \A do, db, E : o \in Each(do, db, E) => o.do = do /\ o.db = db /\ o.e \in E /\ o = Op(o.do, o.db, o.e)
  BY DEF Each, Op
<1>4. CASE o \in Each("put", "s", Sends(p, c))
  BY <1>1, <1>3, <1>4 DEF Outward
<1>5. CASE o \in Each("get", "r", Sends(p, c))
  BY <1>1, <1>3, <1>5 DEF Outward
<1>6. CASE o \in Each("put", "r", Receives(p, c))
  BY <1>1, <1>3, <1>6 DEF Outward
<1>7. CASE o \in Each("get", "s", Receives(p, c))
  BY <1>1, <1>3, <1>7 DEF Outward
<1> QED BY <1>2, <1>4, <1>5, <1>6, <1>7

LEMMA IsDone ==
    ASSUME NEW p, NEW c, NEW do \in {"put", "get"}, NEW db \in {"s", "r"}, NEW e,
           e \in IF (do = "put") = (db = "s") THEN Sends(p, c) ELSE Receives(p, c)
    PROVE  Op(do, db, e) \in Does(p, c)
BY DEF Does, Each

\* A call has one entry for each process it sends to or receives from.
LEMMA OneEntry ==
    ASSUME NEW p, NEW c
    PROVE  /\ \A e, f \in Sends(p, c) : Same(e, f) => e = f
           /\ \A e, f \in Receives(p, c) : Same(e, f) => e = f
BY DEF Sends, Receives, Same, Entry

\* Calls that communicate are in the order of their communications.
LEMMA InOrder ==
    ASSUME Historic, NEW p, NEW j, NEW a, NEW k, NEW b, Work(p, j, a), Work(p, k, b)
    PROVE  /\ Ev(p, j) < Ev(p, k) => j < k
           /\ Ev(p, j) = Ev(p, k) => j = k
           /\ j < k => Ev(p, j) < Ev(p, k)
<1>1. p \in Procs /\ j \in 1..Len(program[p]) /\ k \in 1..Len(program[p])
  BY DEF Work
<1>2. Len(program[p]) \in Nat /\ Ev(p, j) \in Int /\ Ev(p, k) \in Int
  BY <1>1, CallFacts
<1>3. {program[p][j].name, program[p][k].name} \subseteq Sending \cup Receiving \cup Collective
  BY DoesFacts DEF Work
<1>4. (j < k => Ev(p, j) < Ev(p, k)) /\ (k < j => Ev(p, k) < Ev(p, j))
  BY <1>1, <1>3 DEF Historic, History, Ev
<1>5. j \in Int /\ k \in Int
  BY <1>1, <1>2
<1> QED BY <1>2, <1>4, <1>5

\* An operation is known by its entry's processes and its communication.
LEMMA OneWork ==
    ASSUME Historic, NEW p, NEW j, NEW a, NEW q, NEW k, NEW b, Work(p, j, a), Work(q, k, b),
           a.do = b.do, a.db = b.db, Same(a.e, b.e), Ev(p, j) = Ev(q, k)
    PROVE  p = q /\ j = k /\ a = b
<1>1. a \in Does(p, program[p][j]) /\ b \in Does(q, program[q][k])
  BY DEF Work
<1>2. /\ a = Op(a.do, a.db, a.e)
      /\ Outward(a) => a.e \in Sends(p, program[p][j]) /\ a.e.id_s = p
      /\ ~Outward(a) => a.e \in Receives(p, program[p][j]) /\ a.e.id_r = p
  BY <1>1, DoesFacts
<1>3. /\ b = Op(b.do, b.db, b.e)
      /\ Outward(b) => b.e \in Sends(q, program[q][k]) /\ b.e.id_s = q
      /\ ~Outward(b) => b.e \in Receives(q, program[q][k]) /\ b.e.id_r = q
  BY <1>1, DoesFacts
<1>4. Outward(a) <=> Outward(b)
  BY DEF Outward
<1>5. p = q
  BY <1>2, <1>3, <1>4 DEF Same
<1>6. j = k
  BY <1>5, InOrder
<1>7. a.e = b.e
  BY <1>2, <1>3, <1>4, <1>5, <1>6, OneEntry
<1> QED BY <1>2, <1>3, <1>5, <1>6, <1>7

\* In a collective call q gets from p what p has for q.
LEMMA BothWays ==
    ASSUME NEW p, NEW q, NEW c, NEW d, Joint(d, c), c.name \in Collective, p \in Members(c), q \in Members(c)
    PROVE  q \in OutTo(p, c) <=> p \in InFrom(q, d)
<1>1. d.name = c.name /\ RootOf(d) = RootOf(c) /\ Members(d) = Members(c)
  BY DEF Joint, RootOf, Members
<1>2. CASE c.name = "Bcast"
  BY <1>1, <1>2 DEF OutTo, InFrom
<1>3. CASE c.name \in {"Reduce", "Gather", "Gatherv"}
  BY <1>1, <1>3 DEF OutTo, InFrom
<1>4. CASE c.name \in {"Scatter", "Scatterv"}
  BY <1>1, <1>4 DEF OutTo, InFrom
<1>5. CASE c.name \in {"Allgather", "Alltoall", "Alltoallv"}
  BY <1>1, <1>5 DEF OutTo, InFrom
<1> QED BY <1>2, <1>3, <1>4, <1>5 DEF Collective

LEMMA MembersFacts ==
    ASSUME NEW c \in Calls, NEW p, c.name \in Collective, c.root \in 0..c.comm_size - 1
    PROVE  OutTo(p, c) \subseteq Members(c) /\ InFrom(p, c) \subseteq Members(c)
<1>1. RootOf(c) \in Members(c)
  BY DEF RootOf, Members, Calls
<1>2. CASE c.name = "Bcast"
  BY <1>1, <1>2 DEF OutTo, InFrom
<1>3. CASE c.name \in {"Reduce", "Gather", "Gatherv"}
  BY <1>1, <1>3 DEF OutTo, InFrom
<1>4. CASE c.name \in {"Scatter", "Scatterv"}
  BY <1>1, <1>4 DEF OutTo, InFrom
<1>5. CASE c.name \in {"Allgather", "Alltoall", "Alltoallv"}
  BY <1>1, <1>5 DEF OutTo, InFrom
<1> QED BY <1>2, <1>3, <1>4, <1>5 DEF Collective

\* What is sent is received, and what is received has been sent.
LEMMA SendPartner ==
    ASSUME Historic, NEW p \in Procs, NEW k \in 1..Len(program[p]), NEW e \in Sends(p, program[p][k])
    PROVE  /\ e.id_s = p /\ e.id_r \in Procs
           /\ \E j \in 1..Len(program[e.id_r]) : \E f \in Receives(e.id_r, program[e.id_r][j]) :
                 Same(e, f) /\ (e.tag = f.tag \/ f.tag = ANY_TAG) /\ Ev(e.id_r, j) = Ev(p, k)
<1> DEFINE c == program[p][k]
<1>1. c \in Calls /\ InHistory(program, p, c)
  BY CallFacts
<1>2. CASE c.name \in Sending
  <2>1. e = Entry(p, c.other, c.tag)
    BY <1>2 DEF Sends
  <2>2. e.id_s = p /\ e.id_r = c.other /\ e.tag = c.tag
    BY <2>1 DEF Entry
  <2>3. c.other \in Procs /\ \E j \in 1..Len(program[c.other]) : Transfer(c, program[c.other][j], p, c.other)
    BY <1>1, <1>2 DEF InHistory
  <2>4. PICK j \in 1..Len(program[c.other]) : Transfer(c, program[c.other][j], p, c.other)
    BY <2>3
  <2> DEFINE d == program[c.other][j]
             f == Entry(Source(d), c.other, SourceTag(d))
  <2>5. d.name \in Receiving /\ Source(d) = p /\ SourceTag(d) \in {c.tag, ANY_TAG} /\ c.ev = d.ev
    BY <2>4 DEF Transfer
  <2>6. f \in Receives(c.other, d)
    BY <2>5 DEF Receives
  <2>7. f.id_s = p /\ f.id_r = c.other /\ f.tag = SourceTag(d)
    BY <2>5 DEF Entry
  <2> HIDE DEF f
  <2> QED BY <2>2, <2>3, <2>5, <2>6, <2>7 DEF Same, Ev
<1>3. CASE c.name \notin Sending
  <2>1. c.name \in Collective /\ \E q \in OutTo(p, c) : e = Entry(p, q, 0)
    BY <1>3 DEF Sends
  <2>2. PICK q \in OutTo(p, c) : e = Entry(p, q, 0)
    BY <2>1
  <2>3. e.id_s = p /\ e.id_r = q /\ e.tag = 0
    BY <2>2 DEF Entry
  <2>4. /\ p < c.comm_size /\ c.comm_size <= N /\ c.root \in 0..c.comm_size - 1
        /\ \A i \in 0..c.comm_size - 1 : \E j \in 1..Len(program[i]) : Joint(program[i][j], c)
    BY <1>1, <2>1 DEF InHistory
  <2>5. q \in Members(c)
    BY <1>1, <2>1, <2>4, MembersFacts
  <2>6. q \in Procs /\ p \in Members(c)
    <3>1. c.comm_size \in Nat
      BY <1>1 DEF Calls
    <3> QED BY <2>4, <2>5, <3>1, NAssumption DEF Members, Procs
  <2>7. PICK j \in 1..Len(program[q]) : Joint(program[q][j], c)
    BY <2>4, <2>5 DEF Members
  <2> DEFINE d == program[q][j]
             f == Entry(p, q, 0)
  <2>8. p \in InFrom(q, d)
    BY <2>1, <2>5, <2>6, <2>7, BothWays
  <2>9. d.name = c.name /\ d.ev = c.ev
    BY <2>7 DEF Joint
  <2>10. f \in Receives(q, d)
    BY <2>1, <2>8, <2>9 DEF Receives, Receiving, Collective
  <2> QED BY <2>2, <2>3, <2>6, <2>9, <2>10 DEF Same, Ev
<1> QED BY <1>2, <1>3

LEMMA ReceivePartner ==
    ASSUME Historic, NEW p \in Procs, NEW k \in 1..Len(program[p]), NEW e \in Receives(p, program[p][k])
    PROVE  /\ e.id_r = p /\ e.id_s \in Procs
           /\ \E j \in 1..Len(program[e.id_s]) : \E f \in Sends(e.id_s, program[e.id_s][j]) :
                 Same(e, f) /\ (e.tag = f.tag \/ e.tag = ANY_TAG) /\ Ev(e.id_s, j) = Ev(p, k)
<1> DEFINE c == program[p][k]
<1>1. c \in Calls /\ InHistory(program, p, c)
  BY CallFacts
<1>2. CASE c.name \in Receiving
  <2>1. e = Entry(Source(c), p, SourceTag(c))
    BY <1>2 DEF Receives
  <2>2. e.id_r = p /\ e.id_s = Source(c) /\ e.tag = SourceTag(c)
    BY <2>1 DEF Entry
  <2> DEFINE q == Source(c)
  <2>3. q \in Procs /\ \E j \in 1..Len(program[q]) : Transfer(program[q][j], c, q, p)
    BY <1>1, <1>2 DEF InHistory
  <2>4. PICK j \in 1..Len(program[q]) : Transfer(program[q][j], c, q, p)
    BY <2>3
  <2> DEFINE d == program[q][j]
             f == Entry(q, d.other, d.tag)
  <2>5. d.name \in Sending /\ d.other = p /\ SourceTag(c) \in {d.tag, ANY_TAG} /\ c.ev = d.ev
    BY <2>4 DEF Transfer
  <2>6. f \in Sends(q, d)
    BY <2>5 DEF Sends
  <2>7. f.id_s = q /\ f.id_r = p /\ f.tag = d.tag
    BY <2>5 DEF Entry
  <2> HIDE DEF f, q
  <2>8. q = e.id_s
    BY <2>2 DEF q
  <2> QED BY <2>2, <2>3, <2>5, <2>6, <2>7, <2>8 DEF Same, Ev
<1>3. CASE c.name \notin Receiving
  <2>1. c.name \in Collective /\ \E q \in InFrom(p, c) : e = Entry(q, p, 0)
    BY <1>3 DEF Receives
  <2>2. PICK q \in InFrom(p, c) : e = Entry(q, p, 0)
    BY <2>1
  <2>3. e.id_s = q /\ e.id_r = p /\ e.tag = 0
    BY <2>2 DEF Entry
  <2>4. /\ p < c.comm_size /\ c.comm_size <= N /\ c.root \in 0..c.comm_size - 1
        /\ \A i \in 0..c.comm_size - 1 : \E j \in 1..Len(program[i]) : Joint(program[i][j], c)
    BY <1>1, <2>1 DEF InHistory
  <2>5. q \in Members(c)
    BY <1>1, <2>1, <2>4, MembersFacts
  <2>6. q \in Procs /\ p \in Members(c)
    <3>1. c.comm_size \in Nat
      BY <1>1 DEF Calls
    <3> QED BY <2>4, <2>5, <3>1, NAssumption DEF Members, Procs
  <2>7. PICK j \in 1..Len(program[q]) : Joint(program[q][j], c)
    BY <2>4, <2>5 DEF Members
  <2> DEFINE d == program[q][j]
             f == Entry(q, p, 0)
  <2>8. d.name = c.name /\ d.ev = c.ev /\ Joint(c, d) /\ Members(d) = Members(c)
    BY <2>7 DEF Joint, Members
  <2>9. p \in OutTo(q, d)
    BY <2>1, <2>2, <2>5, <2>6, <2>8, BothWays
  <2>10. f \in Sends(q, d)
    BY <2>1, <2>8, <2>9 DEF Sends, Sending, Collective
  <2> QED BY <2>2, <2>3, <2>6, <2>8, <2>10 DEF Same, Ev
<1> QED BY <1>2, <1>3

Partner(do) == IF do = "put" THEN "get" ELSE "put"

LEMMA Partners ==
    ASSUME Historic, NEW p, NEW k, NEW o, Work(p, k, o)
    PROVE  \E q, j, w : /\ Work(q, j, w) /\ w.do = Partner(o.do) /\ w.db = o.db /\ Same(w.e, o.e)
                        /\ Ev(q, j) = Ev(p, k) /\ items_are_equal(w.e, o.e) /\ items_are_equal(o.e, w.e)
<1>1. p \in Procs /\ k \in 1..Len(program[p]) /\ o \in Does(p, program[p][k])
  BY DEF Work
<1>2. /\ o.do \in {"put", "get"} /\ o.db \in {"s", "r"}
      /\ Outward(o) => o.e \in Sends(p, program[p][k])
      /\ ~Outward(o) => o.e \in Receives(p, program[p][k])
  BY <1>1, DoesFacts
<1>3. CASE Outward(o)
  <2> DEFINE q == o.e.id_r
  <2>1. q \in Procs /\ \E j \in 1..Len(program[q]) : \E f \in Receives(q, program[q][j]) :
           Same(o.e, f) /\ (o.e.tag = f.tag \/ f.tag = ANY_TAG) /\ Ev(q, j) = Ev(p, k)
    BY <1>1, <1>2, <1>3, SendPartner
  <2>2. PICK j \in 1..Len(program[q]) : \E f \in Receives(q, program[q][j]) :
           Same(o.e, f) /\ (o.e.tag = f.tag \/ f.tag = ANY_TAG) /\ Ev(q, j) = Ev(p, k)
    BY <2>1
  <2>3. PICK f \in Receives(q, program[q][j]) :
           Same(o.e, f) /\ (o.e.tag = f.tag \/ f.tag = ANY_TAG) /\ Ev(q, j) = Ev(p, k)
    BY <2>2
  <2> DEFINE w == Op(Partner(o.do), o.db, f)
  <2>4. w \in Does(q, program[q][j])
    <3>1. Partner(o.do) \in {"put", "get"} /\ ~((Partner(o.do) = "put") = (o.db = "s"))
      BY <1>2, <1>3 DEF Partner, Outward
    <3> QED BY <1>2, <2>3, <3>1, IsDone
  <2>5. w.do = Partner(o.do) /\ w.db = o.db /\ w.e = f
    BY DEF Op
  <2>6. items_are_equal(f, o.e) /\ items_are_equal(o.e, f) /\ Same(f, o.e)
    BY <2>3 DEF items_are_equal, Same
  <2>7. Work(q, j, w)
    BY <2>1, <2>2, <2>4 DEF Work
  <2> HIDE DEF w, q
  <2> QED BY <2>3, <2>5, <2>6, <2>7
<1>4. CASE ~Outward(o)
  <2> DEFINE q == o.e.id_s
  <2>1. q \in Procs /\ \E j \in 1..Len(program[q]) : \E f \in Sends(q, program[q][j]) :
           Same(o.e, f) /\ (o.e.tag = f.tag \/ o.e.tag = ANY_TAG) /\ Ev(q, j) = Ev(p, k)
    BY <1>1, <1>2, <1>4, ReceivePartner
  <2>2. PICK j \in 1..Len(program[q]) : \E f \in Sends(q, program[q][j]) :
           Same(o.e, f) /\ (o.e.tag = f.tag \/ o.e.tag = ANY_TAG) /\ Ev(q, j) = Ev(p, k)
    BY <2>1
  <2>3. PICK f \in Sends(q, program[q][j]) :
           Same(o.e, f) /\ (o.e.tag = f.tag \/ o.e.tag = ANY_TAG) /\ Ev(q, j) = Ev(p, k)
    BY <2>2
  <2> DEFINE w == Op(Partner(o.do), o.db, f)
  <2>4. w \in Does(q, program[q][j])
    <3>1. Partner(o.do) \in {"put", "get"} /\ (Partner(o.do) = "put") = (o.db = "s")
      BY <1>2, <1>4 DEF Partner, Outward
    <3> QED BY <1>2, <2>3, <3>1, IsDone
  <2>5. w.do = Partner(o.do) /\ w.db = o.db /\ w.e = f
    BY DEF Op
  <2>6. items_are_equal(f, o.e) /\ items_are_equal(o.e, f) /\ Same(f, o.e)
    BY <2>3 DEF items_are_equal, Same
  <2>7. Work(q, j, w)
    BY <2>1, <2>2, <2>4 DEF Work
  <2> HIDE DEF w, q
  <2> QED BY <2>3, <2>5, <2>6, <2>7
<1> QED BY <1>3, <1>4

--------------------------------------------------------------------------------
(* The matching: what is in a list has been put, has not been taken, and      *)
(* stands in the order of the communications.                                 *)

\* Operation o of call k of process p has been done.
Issued(p, k, o) ==
    Work(p, k, o) /\ (k < index[p] \/ (k = index[p] /\ o \notin Range(ops[p])))
DidPut(db, x) == \E p, k : Issued(p, k, Op("put", db, x.e)) /\ Ev(p, k) = x.ev
DidGet(db, x) == \E p, k, o : /\ Issued(p, k, o) /\ o.do = "get" /\ o.db = db
                              /\ Same(o.e, x.e) /\ Ev(p, k) = x.ev

OpsInv(p) ==
    /\ Lists(ops[p], Range(ops[p])) /\ index[p] \in 0..Len(program[p])
    /\ ops[p] # <<>> => index[p] > 0 /\ Range(ops[p]) \subseteq Does(p, This(p))
Item(p, k, o) == [e |-> o.e, ev |-> Ev(p, k)]
Here(db, x) == \E i \in 1..Len(List(db)) : List(db)[i] = x
ListInv(db) ==
    /\ List(db) \in Seq(Range(List(db)))
    /\ \A i \in 1..Len(List(db)) : DidPut(db, List(db)[i]) /\ ~DidGet(db, List(db)[i])
    /\ \A i, j \in 1..Len(List(db)) :
          i < j /\ Same(List(db)[i].e, List(db)[j].e) => List(db)[i].ev < List(db)[j].ev
    /\ \A p, k, o : Issued(p, k, o) /\ o.do = "put" /\ o.db = db
                        => DidGet(db, Item(p, k, o)) \/ Here(db, Item(p, k, o))
    /\ \A p, k, o : Issued(p, k, o) /\ o.do = "get" /\ o.db = db
                        => \E f : Same(f, o.e) /\ DidPut(db, [e |-> f, ev |-> Ev(p, k)])
MatchInv ==
    /\ \A p \in Procs : OpsInv(p)
    /\ ListInv("s") /\ ListInv("r")
    /\ \A f \in found : f[1] = f[2]

\* A list whose operations are left alone.
LEMMA Untouched ==
    ASSUME NEW db, ListInv(db), List(db)' = List(db), program' = program,
           \A p, k, o : o.db = db => (Issued(p, k, o)' <=> Issued(p, k, o))
    PROVE  ListInv(db)'
<1>1. \A p, k : Ev(p, k)' = Ev(p, k)
  BY DEF Ev
<1>2. \A do, e : Op(do, db, e).db = db
  BY DEF Op
<1>3. \A x : DidPut(db, x)' <=> DidPut(db, x)
  BY <1>1, <1>2 DEF DidPut
<1>4. \A x : DidGet(db, x)' <=> DidGet(db, x)
  BY <1>1 DEF DidGet
<1>5. \A p, k, o : Item(p, k, o)' = Item(p, k, o)
  BY <1>1 DEF Item
<1>6. \A x : Here(db, x)' <=> Here(db, x)
  BY DEF Here
<1> QED BY <1>1, <1>3, <1>4, <1>5, <1>6 DEF ListInv

\* One more operation of call index[p] is done.
LEMMA Doing ==
    ASSUME Historic, TypeInv, \A q \in Procs : OpsInv(q), NEW p \in Procs, ops[p] # <<>>,
           ops' = [ops EXCEPT ![p] = Tail(@)], UNCHANGED <<program, index>>
    PROVE  /\ Work(p, index[p], Head(ops[p])) /\ ~Issued(p, index[p], Head(ops[p]))
           /\ \A q, k, o : Issued(q, k, o)' <=> Issued(q, k, o) \/ (q = p /\ k = index[p] /\ o = Head(ops[p]))
           /\ \A q \in Procs : OpsInv(q)'
<1> DEFINE h == Head(ops[p])
           X == Range(ops[p])
<1>1. Lists(ops[p], X) /\ index[p] \in 0..Len(program[p]) /\ index[p] > 0 /\ X \subseteq Does(p, This(p))
  BY DEF OpsInv
<1>2. h \in X /\ Lists(Tail(ops[p]), X \ {h})
  BY <1>1, ListsTail
<1>3. ops'[p] = Tail(ops[p]) /\ \A q \in Procs : q # p => ops'[q] = ops[q]
  BY DEF TypeInv
<1>4. Range(ops'[p]) = X \ {h} /\ Lists(ops'[p], Range(ops'[p]))
  <2>1. Range(Tail(ops[p])) = X \ {h}
    BY <1>2 DEF Lists
  <2> QED BY <1>2, <1>3, <2>1
<1>5. index[p] \in 1..Len(program[p])
  <2>1. Len(program[p]) \in Nat
    BY ProgramsAssumption DEF TypeInv
  <2> QED BY <1>1, <2>1
<1> HIDE DEF h, X
<1>6. Work(p, index[p], h) /\ ~Issued(p, index[p], h)
  BY <1>1, <1>2, <1>5 DEF Work, Issued, This, X
<1>7. ASSUME NEW q, NEW k, NEW o
      PROVE  Issued(q, k, o)' <=> Issued(q, k, o) \/ (q = p /\ k = index[p] /\ o = h)
  <2>1. Work(q, k, o)' <=> Work(q, k, o)
    BY DEF Work
  <2>2. CASE q = p
    BY <1>2, <1>4, <1>6, <2>1, <2>2 DEF Issued, X
  <2>3. CASE q # p
    BY <1>3, <2>1, <2>3 DEF Issued, Work
  <2> QED BY <2>2, <2>3
<1>8. ASSUME NEW q \in Procs
      PROVE  OpsInv(q)'
  <2>1. CASE q = p
    BY <1>1, <1>4, <2>1 DEF OpsInv, This
  <2>2. CASE q # p
    BY <1>3, <2>2 DEF OpsInv, This
  <2> QED BY <2>1, <2>2
<1> QED BY <1>6, <1>7, <1>8 DEF h

LEMMA OneActor ==
    ASSUME NEW p, NEW j, NEW a, NEW q, NEW k, NEW b, Work(p, j, a), Work(q, k, b),
           a.do = b.do, a.db = b.db, Same(a.e, b.e)
    PROVE  p = q
<1>1. a \in Does(p, program[p][j]) /\ b \in Does(q, program[q][k])
  BY DEF Work
<1>2. (Outward(a) => a.e.id_s = p) /\ (~Outward(a) => a.e.id_r = p)
  BY <1>1, DoesFacts
<1>3. (Outward(b) => b.e.id_s = q) /\ (~Outward(b) => b.e.id_r = q)
  BY <1>1, DoesFacts
<1> QED BY <1>2, <1>3 DEF Outward, Same

LEMMA OpFields ==
    \A do, db, e : Op(do, db, e).do = do /\ Op(do, db, e).db = db /\ Op(do, db, e).e = e
BY DEF Op

LEMMA IssuedFacts ==
    \A p, k, o : Issued(p, k, o) => Work(p, k, o) /\ (k < index[p] \/ k = index[p])
BY DEF Issued

\* Adding to the end of a list.
LEMMA AppendFacts ==
    ASSUME NEW l, l \in Seq(Range(l)), NEW x
    PROVE  LET a == Append(l, x)
           IN  /\ a \in Seq(Range(a)) /\ Len(a) = Len(l) + 1 /\ Len(l) \in Nat
               /\ \A i \in 1..Len(a) : (i \in 1..Len(l) /\ a[i] = l[i]) \/ (i = Len(l) + 1 /\ a[i] = x)
               /\ \A i \in 1..Len(l) : i \in 1..Len(a) /\ a[i] = l[i]
               /\ Len(l) + 1 \in 1..Len(a) /\ a[Len(l) + 1] = x
<1> DEFINE S == Range(l) \cup {x}
           a == Append(l, x)
           n == Len(l)
<1>1. l \in Seq(S) /\ n \in Nat
  BY DEF S
<1>2. x \in S
  BY DEF S
<1> HIDE DEF S
<1>3. a \in Seq(S) /\ Len(a) = n + 1 /\ a[n + 1] = x /\ \A i \in 1..n : a[i] = l[i]
  BY <1>1, <1>2, AppendProperties
<1>4. a \in Seq(Range(a))
  BY <1>3, OverRange
<1> HIDE DEF a, n
<1>5. \A i \in 1..n + 1 : i \in 1..n \/ i = n + 1
  BY <1>1
<1>6. (\A i \in 1..n : i \in 1..n + 1) /\ n + 1 \in 1..n + 1
  BY <1>1
<1> QED BY <1>1, <1>3, <1>4, <1>5, <1>6 DEF a, n

\* A put.
LEMMA PutKeeps ==
    ASSUME Historic, NEW db, ListInv(db), NEW p, NEW h, Work(p, index[p], h), ~Issued(p, index[p], h),
           h.do = "put", h.db = db, program' = program,
           \A q, k, o : Issued(q, k, o)' <=> Issued(q, k, o) \/ (q = p /\ k = index[p] /\ o = h),
           List(db)' = Append(List(db), Item(p, index[p], h))
    PROVE  ListInv(db)'
<1> SUFFICES ASSUME NEW L, L = List(db), NEW M, M = List(db)', NEW c, c = index[p],
                    NEW v, v = Ev(p, c), NEW x, x = Item(p, c, h)
             PROVE  ListInv(db)'
  OBVIOUS
<1> DEFINE n == Len(L)
<1>1. /\ M \in Seq(Range(M)) /\ Len(M) = n + 1 /\ n \in Nat
      /\ \A i \in 1..Len(M) : (i \in 1..n /\ M[i] = L[i]) \/ (i = n + 1 /\ M[i] = x)
      /\ \A i \in 1..n : i \in 1..Len(M) /\ M[i] = L[i]
      /\ n + 1 \in 1..Len(M) /\ M[n + 1] = x
  <2>1. L \in Seq(Range(L))
    BY DEF ListInv
  <2> QED BY <2>1, AppendFacts
<1>2. \A q, k : Ev(q, k)' = Ev(q, k)
  BY DEF Ev
<1>3. \A q, k, o : Item(q, k, o)' = Item(q, k, o)
  BY <1>2 DEF Item
<1>4. \A y : DidGet(db, y)' <=> DidGet(db, y)
  <2>1. h.do # "get"
    OBVIOUS
  <2> QED BY <1>2, <2>1 DEF DidGet
<1>5. \A y : DidPut(db, y) => DidPut(db, y)'
  BY <1>2 DEF DidPut
<1>6. h = Op("put", db, h.e) /\ x.e = h.e /\ x.ev = v
  <2>1. h = Op(h.do, h.db, h.e)
    BY DoesFacts DEF Work
  <2> QED BY <2>1 DEF Item
<1>7. DidPut(db, x)'
  <2>1. Issued(p, c, Op("put", db, x.e))'
    BY <1>6
  <2> QED BY <1>2, <1>6, <2>1 DEF DidPut
<1> HIDE DEF n
<1>8. ~DidGet(db, x)
  <2> SUFFICES ASSUME DidGet(db, x) PROVE FALSE
    OBVIOUS
  <2>1. PICK q, k, o : Issued(q, k, o) /\ o.do = "get" /\ o.db = db /\ Same(o.e, x.e) /\ Ev(q, k) = x.ev
    BY DEF DidGet
  <2>2. PICK f : Same(f, o.e) /\ DidPut(db, [e |-> f, ev |-> Ev(q, k)])
    BY <2>1 DEF ListInv
  <2>3. PICK r, j : Issued(r, j, Op("put", db, f)) /\ Ev(r, j) = Ev(q, k)
    BY <2>2 DEF DidPut
  <2>4. Same(Op("put", db, f).e, h.e) /\ Ev(r, j) = v
    BY <1>6, <2>1, <2>2, <2>3, OpFields DEF Same
  <2>5. Work(r, j, Op("put", db, f))
    BY <2>3, IssuedFacts
  <2>6. r = p /\ j = c /\ Op("put", db, f) = h
    BY <2>4, <2>5, OneWork, OpFields
  <2> QED BY <2>3, <2>6
<1>9. ASSUME NEW i \in 1..n, Same(L[i].e, x.e)
      PROVE  L[i].ev < x.ev
  <2>1. PICK q, k : Issued(q, k, Op("put", db, L[i].e)) /\ Ev(q, k) = L[i].ev
    BY DEF ListInv, DidPut, n
  <2> DEFINE o == Op("put", db, L[i].e)
  <2>2. o.do = h.do /\ o.db = h.db /\ Same(o.e, h.e) /\ Work(q, k, o) /\ (k < index[q] \/ k = index[q])
    BY <1>6, <1>9, <2>1, IssuedFacts, OpFields
  <2> HIDE DEF o
  <2>3. q = p
    BY <2>2, OneActor
  <2>4. k # c
    <3> SUFFICES ASSUME k = c PROVE FALSE
      OBVIOUS
    <3>1. o = h
      BY <2>2, <2>3, OneWork
    <3> QED BY <2>1, <2>3, <3>1 DEF o
  <2>5. Ev(p, k) < Ev(p, c)
    BY <2>2, <2>3, <2>4, InOrder
  <2> QED BY <1>6, <2>1, <2>3, <2>5
<1>10. \A y : Here(db, y) => Here(db, y)'
  BY <1>1 DEF Here, n
<1>11. Here(db, x)'
  BY <1>1 DEF Here, n
<1>12. \A i \in 1..Len(M) : DidPut(db, M[i])' /\ ~DidGet(db, M[i])'
  <2> TAKE i \in 1..Len(M)
  <2>1. CASE i \in 1..n /\ M[i] = L[i]
    BY <1>4, <1>5, <2>1 DEF ListInv, n
  <2>2. CASE i = n + 1 /\ M[i] = x
    BY <1>4, <1>7, <1>8, <2>2
  <2> QED BY <1>1, <2>1, <2>2
<1>13. \A i, j \in 1..Len(M) : i < j /\ Same(M[i].e, M[j].e) => M[i].ev < M[j].ev
  <2> SUFFICES ASSUME NEW i \in 1..Len(M), NEW j \in 1..Len(M), i < j, Same(M[i].e, M[j].e)
               PROVE  M[i].ev < M[j].ev
    OBVIOUS
  <2>1. i \in 1..n /\ M[i] = L[i]
    BY <1>1
  <2>2. CASE j \in 1..n /\ M[j] = L[j]
    BY <2>1, <2>2 DEF ListInv, n
  <2>3. CASE j = n + 1 /\ M[j] = x
    BY <1>9, <2>1, <2>3
  <2> QED BY <1>1, <2>2, <2>3
<1>14. ASSUME NEW q, NEW k, NEW o, Issued(q, k, o)', o.do = "put", o.db = db
       PROVE  (DidGet(db, Item(q, k, o)) \/ Here(db, Item(q, k, o)))'
  <2>1. CASE Issued(q, k, o)
    BY <1>3, <1>4, <1>10, <1>14, <2>1 DEF ListInv
  <2>2. CASE q = p /\ k = c /\ o = h
    BY <1>3, <1>11, <2>2
  <2> QED BY <1>14, <2>1, <2>2
<1>15. ASSUME NEW q, NEW k, NEW o, Issued(q, k, o)', o.do = "get", o.db = db
       PROVE  \E f : Same(f, o.e) /\ DidPut(db, [e |-> f, ev |-> Ev(q, k)])'
  <2>1. Issued(q, k, o)
    BY <1>15
  <2>2. PICK f : Same(f, o.e) /\ DidPut(db, [e |-> f, ev |-> Ev(q, k)])
    BY <1>15, <2>1 DEF ListInv
  <2>3. DidPut(db, [e |-> f, ev |-> Ev(q, k)])'
    BY <1>2, <2>2 DEF DidPut
  <2> QED BY <2>2, <2>3
<1> QED BY <1>1, <1>12, <1>13, <1>14, <1>15 DEF ListInv

LEMMA RemoveFacts ==
    ASSUME NEW l, l \in Seq(Range(l)), NEW k \in 1..Len(l)
    PROVE  LET r == RemoveAt(l, k)
           IN  /\ r \in Seq(Range(r)) /\ Len(r) = Len(l) - 1 /\ Len(l) \in Nat
               /\ \A i \in 1..Len(r) : i + (IF i < k THEN 0 ELSE 1) \in (1..Len(l)) \ {k} /\ r[i] = l[i + (IF i < k THEN 0 ELSE 1)]
               /\ \A i \in 1..Len(l) : i # k => \E j \in 1..Len(r) : r[j] = l[i]
<1> DEFINE S == Range(l)
           n == Len(l)
           a == SubSeq(l, 1, k - 1)
           b == SubSeq(l, k + 1, n)
           r == RemoveAt(l, k)
<1>1. n \in Nat /\ k \in 1..n
  OBVIOUS
<1>2. a \in Seq(S) /\ Len(a) = k - 1 /\ \A i \in 1..k - 1 : a[i] = l[i]
  <2>1. \A i \in 1..k - 1 : i \in 1..Len(l)
    BY <1>1
  <2>2. a \in Seq(S) /\ Len(a) = (IF 1 <= k - 1 THEN (k - 1) - 1 + 1 ELSE 0)
        /\ \A i \in 1..(k - 1) - 1 + 1 : a[i] = l[1 + i - 1]
    BY <1>1, <2>1, SubSeqProperties
  <2>3. (IF 1 <= k - 1 THEN (k - 1) - 1 + 1 ELSE 0) = k - 1 /\ (k - 1) - 1 + 1 = k - 1 /\ \A i \in 1..k - 1 : 1 + i - 1 = i
    BY <1>1
  <2> QED BY <2>2, <2>3
<1>3. b \in Seq(S) /\ Len(b) = n - k /\ \A i \in 1..n - k : b[i] = l[k + i]
  <2>1. \A i \in k + 1..n : i \in 1..Len(l)
    BY <1>1
  <2>2. b \in Seq(S) /\ Len(b) = (IF k + 1 <= n THEN n - (k + 1) + 1 ELSE 0)
        /\ \A i \in 1..n - (k + 1) + 1 : b[i] = l[(k + 1) + i - 1]
    BY <1>1, <2>1, SubSeqProperties
  <2>3. (IF k + 1 <= n THEN n - (k + 1) + 1 ELSE 0) = n - k /\ n - (k + 1) + 1 = n - k /\ \A i \in 1..n - k : (k + 1) + i - 1 = k + i
    BY <1>1
  <2> QED BY <2>2, <2>3
<1>4. r = a \o b
  BY DEF RemoveAt
<1> HIDE DEF a, b, r, S, n
<1>5. /\ r \in Seq(S) /\ Len(r) = Len(a) + Len(b)
      /\ \A i \in 1..Len(a) + Len(b) : r[i] = IF i <= Len(a) THEN a[i] ELSE b[i - Len(a)]
  BY <1>2, <1>3, <1>4, ConcatProperties
<1>6. Len(r) = n - 1 /\ r \in Seq(Range(r))
  BY <1>1, <1>2, <1>3, <1>5, OverRange
<1>7. ASSUME NEW i \in 1..n - 1
      PROVE  i + (IF i < k THEN 0 ELSE 1) \in (1..n) \ {k} /\ r[i] = l[i + (IF i < k THEN 0 ELSE 1)]
  <2>1. i \in 1..Len(a) + Len(b)
    BY <1>5, <1>6
  <2>2. CASE i < k
    <3>1. i <= Len(a) /\ i \in 1..k - 1 /\ i + 0 = i /\ i \in (1..n) \ {k}
      BY <1>1, <1>2, <2>2
    <3> QED BY <1>2, <1>5, <2>1, <2>2, <3>1
  <2>3. CASE ~(i < k)
    <3>1. ~(i <= Len(a)) /\ i - Len(a) \in 1..n - k /\ k + (i - Len(a)) = i + 1 /\ i + 1 \in (1..n) \ {k}
      BY <1>1, <1>2, <2>3
    <3> QED BY <1>3, <1>5, <2>1, <2>3, <3>1
  <2> QED BY <2>2, <2>3
<1>8. ASSUME NEW i \in 1..n, i # k
      PROVE  \E j \in 1..n - 1 : r[j] = l[i]
  <2>1. CASE i < k
    <3>1. i \in 1..n - 1 /\ i + 0 = i
      BY <1>1, <2>1
    <3> QED BY <1>7, <2>1, <3>1
  <2>2. CASE i > k
    <3>1. i - 1 \in 1..n - 1 /\ ~(i - 1 < k) /\ (i - 1) + 1 = i
      BY <1>1, <2>2
    <3> QED BY <1>7, <3>1
  <2> QED BY <1>1, <1>8, <2>1, <2>2
<1> QED BY <1>1, <1>6, <1>7, <1>8 DEF n, r

\* An entry names two processes.
LEMMA Ends ==
    ASSUME Historic, NEW p, NEW k, NEW o, Work(p, k, o)
    PROVE  o.e.id_s \in Procs /\ o.e.id_r \in Procs /\ ANY_SOURCE \notin Procs
<1>1. p \in Procs /\ k \in 1..Len(program[p]) /\ o \in Does(p, program[p][k])
  BY DEF Work
<1>2. /\ Outward(o) => o.e \in Sends(p, program[p][k])
      /\ ~Outward(o) => o.e \in Receives(p, program[p][k])
  BY <1>1, DoesFacts
<1>3. ANY_SOURCE \notin Procs
  BY NAssumption DEF Procs, ANY_SOURCE
<1> QED BY <1>1, <1>2, <1>3, SendPartner, ReceivePartner

\* The first entry that a query matches is of the query's own communication.
LEMMA FirstIsOwn ==
    ASSUME Historic, TypeInv, NEW db, ListInv(db), NEW p, NEW c, c = index[p], NEW h, Work(p, c, h), ~Issued(p, c, h),
           h.do = "get", h.db = db, NEW L, L = List(db), NEW k \in 1..Len(L), items_are_equal(L[k].e, h.e),
           \A j \in 1..Len(L) : items_are_equal(L[j].e, h.e) => k <= j
    PROVE  Same(L[k].e, h.e) /\ L[k].ev = Ev(p, c)
<1> DEFINE y == L[k]
           v == Ev(p, c)
           w == Op("put", db, y.e)
<1>1. PICK q, j : Issued(q, j, w) /\ Ev(q, j) = y.ev
  BY DEF ListInv, DidPut
<1>2. ~DidGet(db, y)
  BY DEF ListInv
<1>3. w.do = "put" /\ w.db = db /\ w.e = y.e
  BY OpFields
<1> HIDE DEF w, y, v
<1>4. Work(q, j, w) /\ (j < index[q] \/ j = index[q])
  BY <1>1, IssuedFacts
<1>5. Same(y.e, h.e)
  <2>1. y.e.id_s \in Procs /\ h.e.id_s \in Procs /\ ANY_SOURCE \notin Procs
    BY <1>3, <1>4, Ends
  <2> QED BY <2>1 DEF items_are_equal, Same, y
<1>6. y.ev \in Int /\ v \in Int
  BY <1>1, <1>4, CallFacts DEF Work, v
<1>7. ~(y.ev < v)
  <2> SUFFICES ASSUME y.ev < v PROVE FALSE
    OBVIOUS
  <2>1. PICK r, i, g : Work(r, i, g) /\ g.do = Partner(w.do) /\ g.db = w.db /\ Same(g.e, w.e) /\ Ev(r, i) = Ev(q, j)
    BY <1>4, Partners
  <2>2. g.do = "get" /\ g.db = db /\ Same(g.e, y.e) /\ Same(g.e, h.e)
    BY <1>3, <1>5, <2>1 DEF Partner, Same
  <2>3. r = p
    BY <2>1, <2>2, OneActor
  <2>4. i < c
    BY <1>1, <2>1, <2>3, InOrder DEF v
  <2>5. Issued(r, i, g)
    BY <2>1, <2>3, <2>4 DEF Issued
  <2>6. DidGet(db, y)
    BY <1>1, <2>1, <2>2, <2>5 DEF DidGet
  <2> QED BY <1>2, <2>6
<1>8. ~(v < y.ev)
  <2> SUFFICES ASSUME v < y.ev PROVE FALSE
    OBVIOUS
  <2>1. PICK r, i, g : /\ Work(r, i, g) /\ g.do = Partner(h.do) /\ g.db = h.db /\ Same(g.e, h.e)
                       /\ Ev(r, i) = v /\ items_are_equal(g.e, h.e)
    BY Partners DEF v
  <2>2. g.do = "put" /\ g.db = db /\ Same(g.e, w.e)
    BY <1>3, <1>5, <2>1 DEF Partner, Same
  <2>3. r = q
    BY <1>3, <1>4, <2>1, <2>2, OneActor
  <2>4. i < j
    BY <1>1, <1>4, <2>1, <2>3, InOrder
  <2>5. i < index[q]
    <3>1. q \in Procs /\ i \in 1..Len(program[q]) /\ j \in 1..Len(program[q])
      BY <1>4, <2>1, <2>3 DEF Work
    <3>2. Len(program[q]) \in Nat
      BY <3>1, CallFacts
    <3>3. i \in Int /\ j \in Int
      BY <3>1, <3>2
    <3>4. CASE j = index[q]
      BY <2>4, <3>4
    <3>5. CASE j < index[q]
      <4>1. index[q] \in Int
        BY <3>1 DEF TypeInv
      <4> QED BY <2>4, <3>3, <3>5, <4>1
    <3> QED BY <1>4, <3>4, <3>5
  <2>6. Issued(q, i, g)
    BY <2>1, <2>3, <2>5 DEF Issued
  <2>7. DidGet(db, Item(q, i, g)) \/ Here(db, Item(q, i, g))
    BY <2>2, <2>6 DEF ListInv
  <2>8. Item(q, i, g).e = g.e /\ Item(q, i, g).ev = v
    BY <2>1, <2>3 DEF Item
  <2>9. CASE DidGet(db, Item(q, i, g))
    <3>1. PICK r2, i2, o : Issued(r2, i2, o) /\ o.do = "get" /\ o.db = db /\ Same(o.e, g.e) /\ Ev(r2, i2) = v
      BY <2>8, <2>9 DEF DidGet
    <3>2. Work(r2, i2, o) /\ Same(o.e, h.e)
      BY <2>1, <3>1, IssuedFacts DEF Same
    <3>3. r2 = p /\ i2 = c /\ o = h
      BY <3>1, <3>2, OneWork DEF v
    <3> QED BY <3>1, <3>3
  <2>10. CASE Here(db, Item(q, i, g))
    <3>1. PICK m \in 1..Len(L) : L[m] = Item(q, i, g)
      BY <2>10 DEF Here
    <3>2. k <= m
      BY <2>1, <2>8, <3>1
    <3>3. k # m
      BY <1>6, <2>8, <3>1 DEF y
    <3>4. Len(L) \in Nat
      BY DEF ListInv
    <3>5. k < m
      BY <3>1, <3>2, <3>3, <3>4
    <3>6. Same(y.e, L[m].e)
      BY <1>5, <2>1, <2>8, <3>1 DEF Same
    <3>7. y.ev < v
      BY <2>8, <3>1, <3>5, <3>6 DEF ListInv, y
    <3> QED BY <1>7, <3>7
  <2> QED BY <2>7, <2>9, <2>10
<1>9. y.ev = v
  BY <1>6, <1>7, <1>8
<1> QED BY <1>5, <1>9 DEF y, v

\* A get.
LEMMA GetKeeps ==
    ASSUME Historic, NEW db, ListInv(db), NEW p, NEW c, c = index[p], NEW h, Work(p, c, h), ~Issued(p, c, h),
           h.do = "get", h.db = db, program' = program,
           \A q, j, o : Issued(q, j, o)' <=> Issued(q, j, o) \/ (q = p /\ j = c /\ o = h),
           NEW L, L = List(db), NEW k \in 1..Len(L), NEW v, v = Ev(p, c), Same(L[k].e, h.e), L[k].ev = v,
           NEW M, M = RemoveAt(L, k), List(db)' = M
    PROVE  ListInv(db)'
<1> DEFINE n == Len(L)
           y == L[k]
           at(i) == i + (IF i < k THEN 0 ELSE 1)
<1>1. /\ M \in Seq(Range(M)) /\ Len(M) = n - 1 /\ n \in Nat
      /\ \A i \in 1..Len(M) : at(i) \in (1..n) \ {k} /\ M[i] = L[at(i)]
      /\ \A i \in 1..n : i # k => \E j \in 1..Len(M) : M[j] = L[i]
  <2>1. L \in Seq(Range(L))
    BY DEF ListInv
  <2>2. k \in 1..Len(L) /\ M = RemoveAt(L, k)
    OBVIOUS
  <2> HIDE DEF at, n, y
  <2>3. /\ M \in Seq(Range(M)) /\ Len(M) = Len(L) - 1 /\ Len(L) \in Nat
        /\ \A i \in 1..Len(M) : i + (IF i < k THEN 0 ELSE 1) \in (1..Len(L)) \ {k} /\ M[i] = L[i + (IF i < k THEN 0 ELSE 1)]
        /\ \A i \in 1..Len(L) : i # k => \E j \in 1..Len(M) : M[j] = L[i]
    BY ONLY <2>1, <2>2, RemoveFacts
  <2> QED BY ONLY <2>3 DEF at, n
<1>2. \A i, j \in 1..n - 1 : i < j => at(i) < at(j)
  BY <1>1
<1> HIDE DEF at, n, y
<1>3. \A q, j : Ev(q, j)' = Ev(q, j)
  BY DEF Ev
<1>4. \A q, j, o : Item(q, j, o)' = Item(q, j, o)
  BY <1>3 DEF Item
<1>5. \A x : DidPut(db, x)' <=> DidPut(db, x)
  <2>1. \A x : Op("put", db, x.e) # h
    BY OpFields
  <2> QED BY <1>3, <2>1 DEF DidPut
<1>6. \A x : DidGet(db, x) => DidGet(db, x)'
  BY <1>3 DEF DidGet
<1>7. \A x : Same(h.e, x.e) /\ v = x.ev => DidGet(db, x)'
  BY <1>3 DEF DidGet
<1>8. ASSUME NEW x, DidGet(db, x)', ~DidGet(db, x)
      PROVE  Same(h.e, x.e) /\ v = x.ev
  <2>1. PICK q, j, o : Issued(q, j, o)' /\ o.do = "get" /\ o.db = db /\ Same(o.e, x.e) /\ Ev(q, j) = x.ev
    BY <1>3, <1>8 DEF DidGet
  <2>2. ~Issued(q, j, o)
    BY <1>8, <2>1 DEF DidGet
  <2> QED BY <2>1, <2>2
<1>9. \A i, j \in 1..n : i < j /\ Same(L[i].e, L[j].e) => L[i].ev < L[j].ev
  BY DEF ListInv, n
<1>10. ASSUME NEW i \in (1..n) \ {k}
       PROVE  DidPut(db, L[i])' /\ ~DidGet(db, L[i])'
  <2>1. DidPut(db, L[i]) /\ ~DidGet(db, L[i])
    BY DEF ListInv, n
  <2> SUFFICES ASSUME DidGet(db, L[i])' PROVE FALSE
    BY <1>5, <2>1
  <2>2. Same(h.e, L[i].e) /\ v = L[i].ev
    BY <1>8, <2>1
  <2>3. Same(L[k].e, L[i].e) /\ Same(L[i].e, L[k].e)
    BY <2>2 DEF Same
  <2>4. v \in Int
    BY CallFacts DEF Work
  <2>5. k \in 1..n /\ (i < k \/ k < i)
    BY <1>1 DEF n
  <2> QED BY <1>9, <2>2, <2>3, <2>4, <2>5
<1>11. \A i \in 1..Len(M) : DidPut(db, M[i])' /\ ~DidGet(db, M[i])'
  BY <1>1, <1>10
<1>12. \A i, j \in 1..Len(M) : i < j /\ Same(M[i].e, M[j].e) => M[i].ev < M[j].ev
  BY <1>1, <1>2, <1>9
<1>13. ASSUME NEW q, NEW j, NEW o, Issued(q, j, o)', o.do = "put", o.db = db
       PROVE  (DidGet(db, Item(q, j, o)) \/ Here(db, Item(q, j, o)))'
  <2>1. Issued(q, j, o)
    BY <1>13
  <2>2. DidGet(db, Item(q, j, o)) \/ Here(db, Item(q, j, o))
    BY <1>13, <2>1 DEF ListInv
  <2>3. CASE DidGet(db, Item(q, j, o))
    BY <1>4, <1>6, <2>3
  <2>4. CASE Here(db, Item(q, j, o))
    <3>1. PICK i \in 1..n : L[i] = Item(q, j, o)
      BY <2>4 DEF Here, n
    <3>2. CASE i = k
      BY <1>4, <1>7, <3>1, <3>2 DEF Same
    <3>3. CASE i # k
      <4>1. \E m \in 1..Len(M) : M[m] = Item(q, j, o)
        BY <1>1, <3>1, <3>3
      <4> QED BY <1>4, <4>1 DEF Here
    <3> QED BY <3>2, <3>3
  <2> QED BY <2>2, <2>3, <2>4
<1>14. ASSUME NEW q, NEW j, NEW o, Issued(q, j, o)', o.do = "get", o.db = db
       PROVE  (\E f : Same(f, o.e) /\ DidPut(db, [e |-> f, ev |-> Ev(q, j)]))'
  <2>1. \A f, u : DidPut(db, [e |-> f, ev |-> u])' <=> DidPut(db, [e |-> f, ev |-> u])
    BY <1>5
  <2>2. \E f : Same(f, o.e) /\ DidPut(db, [e |-> f, ev |-> Ev(q, j)])
    <3>1. CASE Issued(q, j, o)
      BY <1>14, <3>1 DEF ListInv
    <3>2. CASE q = p /\ j = c /\ o = h
      <4>1. DidPut(db, L[k])
        BY DEF ListInv
      <4>2. DidPut(db, [e |-> L[k].e, ev |-> v])
        BY <4>1 DEF DidPut
      <4> QED BY <3>2, <4>2
    <3> QED BY <1>14, <3>1, <3>2
  <2>3. PICK f : Same(f, o.e) /\ DidPut(db, [e |-> f, ev |-> Ev(q, j)])
    BY <2>2
  <2> QED BY <1>3, <2>1, <2>3
<1> QED BY <1>1, <1>11, <1>12, <1>13, <1>14 DEF ListInv

\* A call begins: none of its operations is done.
LEMMA VisitKeeps ==
    ASSUME Historic, TypeInv, MatchInv, NEW p \in Procs, Ready(p), program' = program,
           index' = [index EXCEPT ![p] = @ + 1], Lists(ops'[p], Does(p, NextCall(p))),
           \A q \in Procs : q # p => ops'[q] = ops[q], UNCHANGED dbVars
    PROVE  MatchInv'
<1> DEFINE c == index[p]
<1>1. c \in Nat /\ c + 1 \in 1..Len(program[p]) /\ NextCall(p) = program[p][c + 1] /\ Len(program[p]) \in Nat
  BY NextFacts
<1>2. ops[p] = <<>> /\ Range(ops[p]) = {}
  BY DEF Ready, Range
<1>3. index'[p] = c + 1 /\ \A q \in Procs : q # p => index'[q] = index[q]
  BY DEF TypeInv
<1> HIDE DEF c
<1>4. Range(ops'[p]) = Does(p, NextCall(p)) /\ Lists(ops'[p], Range(ops'[p]))
  BY DEF Lists
<1>5. ASSUME NEW q, NEW k, NEW o
      PROVE  Issued(q, k, o)' <=> Issued(q, k, o)
  <2>1. Work(q, k, o)' <=> Work(q, k, o)
    BY DEF Work
  <2>2. CASE q = p /\ Work(q, k, o)
    <3>1. k \in 1..Len(program[p]) /\ o \in Does(p, program[p][k])
      BY <2>2 DEF Work
    <3>2. k \in Int
      BY <1>1, <3>1
    <3>3. Issued(q, k, o) <=> k < c \/ k = c
      BY <1>2, <2>2 DEF Issued, c
    <3>4. Issued(q, k, o)' <=> k < c + 1 \/ (k = c + 1 /\ o \notin Does(p, program[p][c + 1]))
      BY <1>1, <1>3, <1>4, <2>1, <2>2 DEF Issued
    <3>5. k < c + 1 <=> k < c \/ k = c
      BY <1>1, <3>2
    <3> QED BY <3>1, <3>3, <3>4, <3>5
  <2>3. CASE q # p
    BY <1>3, <2>1, <2>3 DEF Issued, Work
  <2>4. CASE ~Work(q, k, o)
    BY <2>1, <2>4 DEF Issued
  <2> QED BY <2>2, <2>3, <2>4
<1>6. \A db : List(db)' = List(db)
  BY DEF List, dbVars
<1>7. ListInv("s")' /\ ListInv("r")'
  BY <1>5, <1>6, Untouched DEF MatchInv
<1>8. ASSUME NEW q \in Procs
      PROVE  OpsInv(q)'
  <2>1. CASE q = p
    <3>1. index'[p] \in 0..Len(program[p]) /\ index'[p] > 0
      BY <1>1, <1>3
    <3>2. This(p)' = NextCall(p)
      BY <1>1, <1>3 DEF This
    <3> QED BY <1>4, <2>1, <3>1, <3>2 DEF OpsInv
  <2>2. CASE q # p
    BY <1>3, <2>2 DEF OpsInv, This, MatchInv
  <2> QED BY <2>1, <2>2
<1>9. \A f \in found' : f[1] = f[2]
  BY DEF MatchInv, dbVars
<1> QED BY <1>7, <1>8, <1>9 DEF MatchInv

\* The call that comes next is a blocking one, or marks the functions.
LEMMA NextIsBlocking ==
    ASSUME Historic, TypeInv, NEW p \in Procs, Ready(p)
    PROVE  /\ NextCall(p).name \notin NonBlocking
           /\ NextCall(p).name \notin {"enter", "leave"} => Lists(update_info(p, mpi_update_db(NextCall(p))), Does(p, NextCall(p)))
           /\ NextCall(p).name \in {"enter", "leave"} => Does(p, NextCall(p)) = {}
<1> DEFINE c == NextCall(p)
           k == index[p] + 1
<1>1. k \in 1..Len(program[p]) /\ c = program[p][k] /\ c \in Calls
  BY NextFacts
<1>2. c.name \notin NonBlocking /\ InHistory(program, p, c)
  BY <1>1, CallFacts
<1>3. c.name \in Routines \cup {"enter", "leave"}
  BY <1>1 DEF Calls
<1>4. c.name \in Collective => p < c.comm_size /\ c.root \in 0..c.comm_size - 1
  BY <1>2 DEF InHistory
<1>5. CASE c.name \in {"enter", "leave"}
  <2>1. Sends(p, c) = {} /\ Receives(p, c) = {}
    BY <1>5 DEF Sends, Receives, Sending, Receiving, Collective
  <2>2. Does(p, c) = {}
    BY <2>1 DEF Does, Each
  <2> QED BY <1>2, <1>5, <2>2
<1>6. CASE c.name \notin {"enter", "leave"}
  <2>1. c.name \in Routines \ NonBlocking
    BY <1>2, <1>3, <1>6
  <2> QED BY <1>1, <1>2, <1>4, <1>6, <2>1, DoesListed
<1> QED BY <1>5, <1>6

LEMMA MatchStep ==
    ASSUME Historic, TypeInv, MatchInv, NEW p \in Procs, Step(p)
    PROVE  MatchInv'
<1> SUFFICES ASSUME NEW h, h = Head(ops[p]), NEW c, c = index[p]
             PROVE  MatchInv'
  OBVIOUS
<1>1. ASSUME Ready(p), Begin(p, mpi_update_db(NextCall(p))), NextCall(p).name \notin {"enter", "leave"}
      PROVE  MatchInv'
  <2>1. Lists(update_info(p, mpi_update_db(NextCall(p))), Does(p, NextCall(p)))
    BY <1>1, NextIsBlocking
  <2>2. /\ program' = program /\ index' = [index EXCEPT ![p] = @ + 1] /\ UNCHANGED dbVars
        /\ ops'[p] = update_info(p, mpi_update_db(NextCall(p))) /\ \A q \in Procs : q # p => ops'[q] = ops[q]
    BY <1>1 DEF Begin, TypeInv
  <2> QED BY <1>1, <2>1, <2>2, VisitKeeps
<1>2. CASE visit_blocking(p)
  BY <1>1, <1>2 DEF visit_blocking
<1>3. CASE visit_init_finalize(p)
  BY <1>1, <1>3 DEF visit_init_finalize
<1>4. CASE visit_async(p) \/ visit_wait(p) \/ visit_test_true(p) \/ visit_test_false(p)
  <2>1. Ready(p) /\ NextCall(p).name \in NonBlocking
    BY <1>4 DEF visit_async, visit_wait, visit_test_true, visit_test_false, NonBlocking
  <2> QED BY <2>1, NextIsBlocking
<1>5. CASE visit_function(p)
  <2>1. /\ Ready(p) /\ NextCall(p).name \in {"enter", "leave"} /\ program' = program
        /\ index' = [index EXCEPT ![p] = @ + 1] /\ UNCHANGED dbVars /\ ops' = ops
    BY <1>5 DEF visit_function
  <2>2. Does(p, NextCall(p)) = {} /\ ops'[p] = <<>>
    BY <2>1, NextIsBlocking DEF Ready
  <2>3. Lists(ops'[p], Does(p, NextCall(p)))
    BY <2>2, ListsNone
  <2> QED BY <2>1, <2>3, VisitKeeps
<1>6. ASSUME ops[p] # <<>>, ops' = [ops EXCEPT ![p] = Tail(@)], UNCHANGED <<program, index>>
      PROVE  /\ Work(p, c, h) /\ ~Issued(p, c, h) /\ \A q \in Procs : OpsInv(q)'
             /\ h.do \in {"put", "get"} /\ h.db \in {"s", "r"} /\ This(p).ev = Ev(p, c)
             /\ \A q, k, o : Issued(q, k, o)' <=> Issued(q, k, o) \/ (q = p /\ k = c /\ o = h)
             /\ \A db \in {"s", "r"} : ListInv(db)
  <2>1. /\ Work(p, c, h) /\ ~Issued(p, c, h) /\ \A q \in Procs : OpsInv(q)'
        /\ \A q, k, o : Issued(q, k, o)' <=> Issued(q, k, o) \/ (q = p /\ k = c /\ o = h)
    BY <1>6, Doing DEF MatchInv
  <2>2. h.do \in {"put", "get"} /\ h.db \in {"s", "r"}
    BY <2>1, DoesFacts DEF Work
  <2> QED BY <2>1, <2>2 DEF This, Ev, MatchInv
<1>7. ASSUME NEW l, NEW db \in {"s", "r"}, SetList(db, l)
      PROVE  List(db)' = l /\ \A b \in {"s", "r"} : b # db => List(b)' = List(b)
  BY <1>7 DEF SetList, List
<1>8. ASSUME \A q \in Procs : OpsInv(q)', program' = program,
             \A q, k, o : Issued(q, k, o)' <=> Issued(q, k, o) \/ (q = p /\ k = c /\ o = h),
             ListInv(h.db)', \A b \in {"s", "r"} : b # h.db => List(b)' = List(b),
             \A f \in found' : f[1] = f[2]
      PROVE  MatchInv'
  <2>1. ASSUME NEW b \in {"s", "r"}
        PROVE  ListInv(b)'
    <3>1. CASE b = h.db
      BY <1>8, <3>1
    <3>2. CASE b # h.db
      <4>1. \A q, k, o : o.db = b => (Issued(q, k, o)' <=> Issued(q, k, o))
        BY <1>8, <3>2
      <4>2. ListInv(b) /\ List(b)' = List(b)
        BY <1>8, <3>2 DEF MatchInv
      <4> QED BY <1>8, <4>1, <4>2, Untouched
    <3> QED BY <3>1, <3>2
  <2> QED BY <1>8, <2>1 DEF MatchInv
<1>9. CASE send_msg_to_db(p)
  <2>1. /\ ops[p] # <<>> /\ h.do = "put" /\ ops' = [ops EXCEPT ![p] = Tail(@)]
        /\ SetList(h.db, Append(List(h.db), [e |-> h.e, ev |-> This(p).ev]))
        /\ UNCHANGED <<program, index, found>>
    BY <1>9 DEF send_msg_to_db
  <2>2. /\ Work(p, c, h) /\ ~Issued(p, c, h) /\ \A q \in Procs : OpsInv(q)'
        /\ h.db \in {"s", "r"} /\ This(p).ev = Ev(p, c)
        /\ \A q, k, o : Issued(q, k, o)' <=> Issued(q, k, o) \/ (q = p /\ k = c /\ o = h)
        /\ ListInv(h.db)
    BY <1>6, <2>1
  <2>3. List(h.db)' = Append(List(h.db), Item(p, c, h)) /\ \A b \in {"s", "r"} : b # h.db => List(b)' = List(b)
    BY <1>7, <2>1, <2>2 DEF Item
  <2>4. ListInv(h.db)'
    BY <2>1, <2>2, <2>3, PutKeeps
  <2>5. \A f \in found' : f[1] = f[2]
    BY <2>1 DEF MatchInv
  <2> QED BY <1>8, <2>1, <2>2, <2>3, <2>4, <2>5
<1>10. CASE send_query_and_update(p)
  <2> SUFFICES ASSUME NEW L, L = List(h.db), NEW k, k = first_match(h.db, h.e)
               PROVE  MatchInv'
    OBVIOUS
  <2>1. /\ ops[p] # <<>> /\ h.do = "get" /\ ops' = [ops EXCEPT ![p] = Tail(@)]
        /\ Matches(h.db, h.e) # {} /\ SetList(h.db, RemoveAt(L, k))
        /\ found' = found \cup {<<This(p).ev, L[k].ev>>}
        /\ UNCHANGED <<program, index>>
    BY <1>10 DEF send_query_and_update, Removed
  <2>2. /\ Work(p, c, h) /\ ~Issued(p, c, h) /\ \A q \in Procs : OpsInv(q)'
        /\ h.db \in {"s", "r"} /\ This(p).ev = Ev(p, c)
        /\ \A q, j, o : Issued(q, j, o)' <=> Issued(q, j, o) \/ (q = p /\ j = c /\ o = h)
        /\ ListInv(h.db)
    BY <1>6, <2>1
  <2>3. k \in 1..Len(L) /\ items_are_equal(L[k].e, h.e) /\ \A j \in 1..Len(L) : items_are_equal(L[j].e, h.e) => k <= j
    <3>1. Len(L) \in Nat
      BY <2>2 DEF ListInv
    <3>2. Matches(h.db, h.e) \subseteq Nat
      BY <3>1 DEF Matches
    <3>3. \E i \in Matches(h.db, h.e) : \A j \in Matches(h.db, h.e) : i <= j
      BY <2>1, <3>2, Least
    <3>4. k \in Matches(h.db, h.e) /\ \A j \in Matches(h.db, h.e) : k <= j
      BY <3>3 DEF first_match
    <3> QED BY <3>4 DEF Matches
  <2>4. List(h.db)' = RemoveAt(L, k) /\ \A b \in {"s", "r"} : b # h.db => List(b)' = List(b)
    BY <1>7, <2>1, <2>2
  <2>5. Same(L[k].e, h.e) /\ L[k].ev = Ev(p, c)
    BY <2>1, <2>2, <2>3, FirstIsOwn
  <2>6. ListInv(h.db)'
    <3> SUFFICES ASSUME NEW M, M = RemoveAt(L, k), NEW v, v = Ev(p, c), NEW d, d = h.db
                 PROVE  ListInv(d)'
      OBVIOUS
    <3>1. ListInv(d) /\ L = List(d) /\ List(d)' = M /\ program' = program /\ L[k].ev = v
      BY <2>1, <2>2, <2>4, <2>5
    <3>2. /\ Historic /\ ListInv(d) /\ c = index[p] /\ Work(p, c, h) /\ ~Issued(p, c, h)
          /\ h.do = "get" /\ h.db = d /\ program' = program
          /\ \A q, j, o : Issued(q, j, o)' <=> Issued(q, j, o) \/ (q = p /\ j = c /\ o = h)
          /\ L = List(d) /\ k \in 1..Len(L) /\ v = Ev(p, c) /\ Same(L[k].e, h.e) /\ L[k].ev = v
          /\ M = RemoveAt(L, k) /\ List(d)' = M
      BY <2>1, <2>2, <2>3, <2>5, <3>1
    <3> QED BY ONLY <3>2, GetKeeps
  <2>7. \A f \in found' : f[1] = f[2]
    BY <2>1, <2>2, <2>5 DEF MatchInv
  <2> QED BY <1>8, <2>1, <2>2, <2>4, <2>6, <2>7
<1>11. CASE test_removes(p)
  <2>1. ops[p] # <<>> /\ h.do = "take" /\ ops' = [ops EXCEPT ![p] = Tail(@)] /\ UNCHANGED <<program, index>>
    BY <1>11 DEF test_removes
  <2> QED BY <1>6, <2>1
<1> QED BY <1>2, <1>3, <1>4, <1>5, <1>9, <1>10, <1>11 DEF Step

MatchedKept == TypeInv /\ (Historic => MatchInv)

LEMMA MatchInit ==
    ASSUME Init
    PROVE  MatchedKept
<1>1. TypeInv
  BY BurstsInit DEF BurstsKept
<1>2. \A q, k, o : ~Issued(q, k, o)
  <2> SUFFICES ASSUME NEW q, NEW k, NEW o, Issued(q, k, o) PROVE FALSE
    OBVIOUS
  <2>1. q \in Procs /\ k \in 1..Len(program[q]) /\ (k < index[q] \/ k = index[q])
    BY DEF Issued, Work
  <2>2. Len(program[q]) \in Nat /\ index[q] = 0
    BY <2>1, ProgramsAssumption DEF Init
  <2> QED BY <2>1, <2>2
<1>3. ASSUME NEW q \in Procs
      PROVE  OpsInv(q)
  <2>1. ops[q] = <<>> /\ Range(ops[q]) = {} /\ index[q] = 0 /\ Len(program[q]) \in Nat
    BY ProgramsAssumption DEF Init, Range
  <2>2. Lists(ops[q], Range(ops[q])) /\ index[q] \in 0..Len(program[q])
    <3>1. \A u, X : u = <<>> /\ X = {} => Lists(u, X)
      BY ListsNone
    <3>2. Lists(ops[q], Range(ops[q]))
      BY ONLY <2>1, <3>1
    <3> QED BY ONLY <2>1, <3>2
  <2> QED BY <2>1, <2>2 DEF OpsInv
<1>4. ASSUME NEW db
      PROVE  ListInv(db)
  <2>1. List(db) = <<>>
    BY DEF List, Init
  <2>2. Len(List(db)) = 0 /\ List(db) \in Seq(Range(List(db)))
    BY <2>1
  <2> QED BY <1>2, <2>2 DEF ListInv
<1>5. found = {}
  BY DEF Init
<1> QED BY <1>1, <1>3, <1>4, <1>5 DEF MatchInv, MatchedKept

LEMMA MatchNext ==
    ASSUME MatchedKept, [Next]_vars
    PROVE  MatchedKept'
<1>1. CASE Next
  <2>1. PICK p \in Procs : Step(p)
    BY <1>1 DEF Next
  <2>2. TypeInv' /\ program' = program
    BY <2>1, StepKeeps DEF MatchedKept
  <2>3. Historic' => Historic
    BY <2>2 DEF Historic, Blocking, Names
  <2> QED BY <2>1, <2>2, <2>3, MatchStep DEF MatchedKept
<1>2. CASE UNCHANGED vars
  <2>1. UNCHANGED <<program, index, ops, s_call, r_call, found>> /\ TypeInv'
    BY <1>2 DEF vars, MatchedKept, TypeInv
  <2>2. Historic' => Historic
    BY <2>1 DEF Historic, Blocking, Names
  <2>3. ASSUME MatchInv
        PROVE  MatchInv'
    <3>1. \A q, k, o : Issued(q, k, o)' <=> Issued(q, k, o)
      BY <2>1 DEF Issued, Work
    <3>2. \A db : List(db)' = List(db)
      BY <2>1 DEF List
    <3>3. ListInv("s")' /\ ListInv("r")'
      BY <2>1, <2>3, <3>1, <3>2, Untouched DEF MatchInv
    <3>4. \A q \in Procs : OpsInv(q)'
      BY <2>1, <2>3 DEF OpsInv, This, MatchInv
    <3> QED BY <2>1, <2>3, <3>3, <3>4 DEF MatchInv
  <2> QED BY <2>1, <2>2, <2>3 DEF MatchedKept
<1> QED BY <1>1, <1>2

\* When everybody is through, nothing is left in the lists.
LEMMA NothingLeft ==
    ASSUME TypeInv, Historic, MatchInv, AllDone, NEW db \in {"s", "r"}
    PROVE  List(db) = <<>>
<1>1. ListInv(db)
  BY DEF MatchInv
<1> SUFFICES ASSUME Len(List(db)) # 0 PROVE FALSE
  <2>1. List(db) \in Seq(Range(List(db)))
    BY <1>1 DEF ListInv
  <2> QED BY <2>1
<1>2. 1 \in 1..Len(List(db))
  <2>1. Len(List(db)) \in Nat
    BY <1>1 DEF ListInv
  <2> QED BY <2>1
<1>3. DidPut(db, List(db)[1]) /\ ~DidGet(db, List(db)[1])
  BY <1>1, <1>2 DEF ListInv
<1>4. PICK p, k : Issued(p, k, Op("put", db, List(db)[1].e)) /\ Ev(p, k) = List(db)[1].ev
  BY <1>3 DEF DidPut
<1> DEFINE w == Op("put", db, List(db)[1].e)
<1>5. w.do = "put" /\ w.db = db /\ w.e = List(db)[1].e /\ Work(p, k, w)
  BY <1>4, OpFields, IssuedFacts
<1> HIDE DEF w
<1>6. PICK q, j, o : Work(q, j, o) /\ o.do = Partner(w.do) /\ o.db = w.db /\ Same(o.e, w.e) /\ Ev(q, j) = Ev(p, k)
  BY <1>5, Partners
<1>7. q \in Procs /\ j \in 1..Len(program[q])
  BY <1>6 DEF Work
<1>8. index[q] = Len(program[q]) /\ Range(ops[q]) = {} /\ Len(program[q]) \in Nat
  BY <1>7, CallFacts DEF AllDone, Done, Range
<1>9. Issued(q, j, o)
  BY <1>6, <1>7, <1>8 DEF Issued
<1>10. DidGet(db, List(db)[1])
  BY <1>4, <1>5, <1>6, <1>9 DEF DidGet, Partner
<1> QED BY <1>3, <1>10

\* In every history of blocking calls and collectives, a call is matched with
\* an entry of its own communication, and no entry is left at the end
\* (recv_msg_from_db, send_msg_to_db).
THEOREM Matching ==
    (\A s \in Programs :
        (\A p \in Procs : \A k \in DOMAIN s[p] : s[p][k].name \notin NonBlocking) => History(s))
    => (Spec => []Matched)
<1> SUFFICES ASSUME \A s \in Programs :
                       (\A p \in Procs : \A k \in DOMAIN s[p] : s[p][k].name \notin NonBlocking) => History(s)
             PROVE  Spec => []Matched
  OBVIOUS
<1>1. Init => MatchedKept
  BY MatchInit
<1>2. MatchedKept /\ [Next]_vars => MatchedKept'
  BY MatchNext
<1>3. MatchedKept => Matched
  <2> SUFFICES ASSUME MatchedKept, Blocking
               PROVE  (\A f \in found : f[1] = f[2]) /\ (AllDone => s_call = <<>> /\ r_call = <<>>)
    BY DEF Matched
  <2>1. program \in Programs
    BY DEF MatchedKept, TypeInv
  <2>2. \A p \in Procs : DOMAIN program[p] = 1..Len(program[p])
    BY <2>1, ProgramsAssumption
  <2>3. History(program)
    BY <2>1, <2>2 DEF Blocking, Names
  <2>4. Historic /\ MatchInv /\ TypeInv
    BY <2>1, <2>3 DEF Historic, MatchedKept
  <2>5. AllDone => List("s") = <<>> /\ List("r") = <<>>
    BY <2>4, NothingLeft
  <2> QED BY <2>4, <2>5 DEF MatchInv, List
<1> QED BY <1>1, <1>2, <1>3, PTL DEF Spec

================================================================================
