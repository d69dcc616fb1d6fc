------------------------ MODULE AnalysisServerProofs ------------------------
(***************************************************************************)
(* Theorems about AnalysisServer, for any number of ranks and any scripts. *)
(* Inv is inductive; the proof goes through its conjuncts one by one, each *)
(* carried over a step with the help of the ones before it.                *)
(***************************************************************************)
EXTENDS AnalysisServer, FiniteSetTheorems, TLAPS

USE NAssumption

\* Rank 0 exists, and the listening socket is not a rank.
LEMMA RankFacts == 0 \in Ranks /\ Listen \notin Ranks
BY DEF Ranks, Listen

\* There are N ranks, so a set of ranks that lacks one has fewer than N.
LEMMA FewerThanN ==
    ASSUME NEW S, S \subseteq Ranks, NEW r \in Ranks, r \notin S
    PROVE  /\ IsFiniteSet(S)
           /\ Cardinality(S) \in 0..(N - 1)
           /\ Cardinality(S \cup {r}) = Cardinality(S) + 1
<1>1. IsFiniteSet(Ranks) /\ Cardinality(Ranks) = N
  BY FS_Interval DEF Ranks
<1>2. IsFiniteSet(S)
  BY <1>1, FS_Subset
<1>3. Cardinality(S \cup {r}) = Cardinality(S) + 1
  BY <1>2, FS_AddElement
<1>4. S \cup {r} \subseteq Ranks
  OBVIOUS
<1>5. Cardinality(S \cup {r}) <= N
  BY <1>1, <1>4, FS_Subset
<1>6. Cardinality(S) \in Nat
  BY <1>2, FS_CardinalityType
<1> QED
  BY <1>2, <1>3, <1>5, <1>6

\* What Append and Tail leave of a sequence.
LEMMA AppendFacts ==
    ASSUME NEW S, NEW q \in Seq(S), NEW e \in S
    PROVE  /\ Len(q) \in Nat /\ Len(Append(q, e)) = Len(q) + 1
           /\ \A i \in 1..Len(q) : Append(q, e)[i] = q[i]
           /\ Append(q, e)[Len(q) + 1] = e
OBVIOUS

LEMMA TailFacts ==
    ASSUME NEW S, NEW q \in Seq(S), q # <<>>
    PROVE  /\ Len(q) \in Nat \ {0} /\ Len(Tail(q)) = Len(q) - 1
           /\ Head(q) = q[1]
           /\ \A i \in 1..Len(Tail(q)) : Tail(q)[i] = q[i + 1]
OBVIOUS

-----------------------------------------------------------------------------

LEMMA InitInv == Init => Inv
<1> SUFFICES ASSUME Init PROVE Inv
  OBVIOUS
<1>1. TypeOK
  BY RankFacts DEF Init, TypeOK, NoMsg, NoProfile, NoSlots, Messages, Ranks,
     ClientStates, Labels, Profiles, FileStates
<1>2. FreshInv
  BY FS_EmptySet DEF Init, FreshInv
<1>3. EventsInv /\ MapInv
  BY DEF Init, EventsInv, MapInv
<1>4. RoutedInOrder
  BY DEF Init, RoutedInOrder, InOrder
<1>5. OwnerInv /\ LogInv
  BY DEF Init, OwnerInv, LogInv, Owned, Logged, Unbroken, Handling, NoProfile
<1>6. PrintInv /\ StartInv
  BY DEF Init, PrintInv, StartInv, NoSlots
<1>7. CountInv
  <2>1. {r \in Ranks : Through(r)} = {}
    BY DEF Init, Through, Dumping
  <2>2. Turns = 0
    BY <2>1, FS_EmptySet DEF Turns
  <2> QED
    BY <2>2 DEF Init, CountInv
<1> QED
  BY <1>1, <1>2, <1>3, <1>4, <1>5, <1>6, <1>7 DEF Inv
-----------------------------------------------------------------------------
(* Type correctness.                                                       *)

LEMMA TypeClient ==
    ASSUME TypeOK, NEW r \in Ranks, Client(r)
    PROVE  TypeOK'
<1> USE DEF TypeOK
<1>1. CASE init_libanalysis(r)
  <2>1. client' \in [Ranks -> ClientStates]
    BY <1>1 DEF init_libanalysis, ClientStates
  <2>2. backlog' \in Seq(Ranks)
    BY <1>1 DEF init_libanalysis
  <2> QED
    BY <1>1, <2>1, <2>2 DEF init_libanalysis, mainVars, threadVars, profileVars, endVars
<1>2. CASE mpi_update_process_id(r)
  <2>1. client' \in [Ranks -> ClientStates]
    BY <1>2 DEF mpi_update_process_id, ClientStates
  <2>2. sent' \in [Ranks -> Nat]
    BY <1>2 DEF mpi_update_process_id
  <2> QED
    BY <1>2, <2>1, <2>2 DEF mpi_update_process_id, mainVars, threadVars, profileVars, endVars
<1>3. CASE send_msg(r)
  <2>1. after_send(Script[r][sent[r]]) \in ClientStates
    BY DEF after_send, ClientStates
  <2>2. client' \in [Ranks -> ClientStates]
    BY <1>3, <2>1 DEF send_msg
  <2>3. sent' \in [Ranks -> Nat]
    BY <1>3 DEF send_msg
  <2> QED
    BY <1>3, <2>2, <2>3 DEF send_msg, mainVars, threadVars, profileVars, endVars
<1>4. CASE send_fails(r)
  <2>1. client' \in [Ranks -> ClientStates]
    BY <1>4 DEF send_fails, ClientStates
  <2> QED
    BY <1>4, <2>1 DEF send_fails, mainVars, threadVars, profileVars, endVars
<1>5. CASE MPI_Finalize(r)
  <2>1. client' \in [Ranks -> ClientStates]
    BY <1>5 DEF MPI_Finalize, ClientStates
  <2> QED
    BY <1>5, <2>1 DEF MPI_Finalize, mainVars, threadVars, profileVars, endVars
<1> QED
  BY <1>1, <1>2, <1>3, <1>4, <1>5 DEF Client

\* The connection taken from the backlog is new, so its thread_id, the count
\* of the connections before it, is below N.
LEMMA AcceptFacts ==
    ASSUME TypeOK, FreshInv, EventsInv, NextEvent(Listen)
    PROVE  /\ Head(backlog) \in Ranks \ accepted
           /\ thread_counter \in Ranks
           /\ Cardinality(accepted \cup {Head(backlog)}) = thread_counter + 1
<1>1. backlog # <<>> /\ backlog \in Seq(Ranks)
  BY DEF NextEvent, EventsInv, TypeOK
<1>2. Head(backlog) \in Ranks /\ Head(backlog) = backlog[1] /\ 1 \in 1..Len(backlog)
  BY <1>1
<1>3. Head(backlog) \notin accepted
  BY <1>2 DEF FreshInv
<1> QED
  BY <1>2, <1>3, FewerThanN DEF FreshInv, TypeOK, Ranks

LEMMA TypeMain ==
    ASSUME TypeOK, FreshInv, EventsInv, Main
    PROVE  TypeOK'
<1>5. ASSUME NextEvent(Listen)
      PROVE  /\ Head(backlog) \in Ranks /\ thread_counter \in Ranks
             /\ thread_counter + 1 \in 0..N
  <2>1. Head(backlog) \in Ranks \ accepted /\ thread_counter \in Ranks
    BY <1>5, AcceptFacts
  <2> QED
    BY <2>1 DEF Ranks
<1> USE DEF TypeOK, clientVars, threadVars, profileVars, endVars
<1>1. CASE main_poll
  <2>1. Ready \subseteq Ranks \cup {Listen}
    BY DEF Ready
  <2> QED
    BY <1>1, <2>1 DEF main_poll
<1>2. CASE accept_new_connections
  <2>1. NextEvent(Listen)
    BY <1>2 DEF accept_new_connections
  <2>2. events' \subseteq Ranks \cup {Listen} /\ main' \in {"poll", "round", "spin"}
    BY <2>1 DEF NextEvent
  <2>3. CASE server = "up"
    <3>1. accepts(Head(backlog))
      BY <1>2, <2>3 DEF accept_new_connections
    <3>2. Head(backlog) \in Ranks /\ thread_counter \in Ranks /\ thread_counter + 1 \in 0..N
      BY <2>1, <1>5
    <3>3. backlog # <<>> /\ backlog' = Tail(backlog)
      BY <2>1, <3>1 DEF accepts, EventsInv, NextEvent
    <3>7. backlog' \in Seq(Ranks)
      BY <3>3
    <3>4. PICK f \in Ranks :
            /\ fdOf' = [fdOf EXCEPT ![Head(backlog)] = f]
            /\ threads_data' = IF Registered(f) THEN threads_data
                               ELSE [threads_data EXCEPT ![f] = Head(backlog)]
      BY <3>1 DEF accepts
    <3>5. fdOf' \in [Ranks -> Ranks] /\ threads_data' \in [Ranks -> Ranks]
      BY <3>2, <3>4
    <3>6. /\ accepted' \subseteq Ranks /\ open' \subseteq accepted'
          /\ thread_counter' \in 0..N
          /\ tid' \in [Ranks -> Ranks]
          /\ should_stop' \subseteq Ranks
          /\ pc' \in [Ranks -> Labels]
      BY <3>1, <3>2 DEF accepts, first_id, stop_pushed, Labels
    <3> QED
      BY <1>2, <2>2, <3>5, <3>6, <3>7 DEF accept_new_connections
  <2>4. CASE server # "up"
    BY <1>2, <2>2, <2>4 DEF accept_new_connections
  <2> QED
    BY <2>3, <2>4
<1>3. ASSUME NEW r \in Ranks, recv_msg(r)
      PROVE  TypeOK'
  <2>1. events' \subseteq Ranks \cup {Listen} /\ main' \in {"poll", "round", "spin"}
    BY <1>3 DEF recv_msg, NextEvent
  <2>2. <<r, rcvd[r]>> \in Messages
    BY DEF Messages
  <2>3. threads_data[fdOf[r]] \in Ranks
    OBVIOUS
  <2>4. queue' \in [Ranks -> Seq(Messages)]
    BY <1>3, <2>2, <2>3 DEF recv_msg
  <2>5. rcvd' \in [Ranks -> Nat]
    BY <1>3, SMTT(30) DEF recv_msg
  <2> QED
    BY <1>3, <2>1, <2>4, <2>5 DEF recv_msg
<1>4. ASSUME NEW r \in Ranks, recv_eof(r)
      PROVE  TypeOK'
  <2>1. events' \subseteq Ranks \cup {Listen} /\ main' \in {"poll", "round", "spin"}
    BY <1>4 DEF recv_eof, NextEvent
  <2> QED
    BY <1>4, <2>1 DEF recv_eof
<1> QED
  BY <1>1, <1>2, <1>3, <1>4 DEF Main

LEMMA TypeConsumer ==
    ASSUME TypeOK, NEW r \in Ranks, Consumer(r)
    PROVE  TypeOK'
<1> USE DEF TypeOK
<1>1. CASE consumer_test(r)
  <2>1. pc' \in [Ranks -> Labels]
    BY <1>1 DEF consumer_test, Goto, Labels
  <2> QED
    BY <1>1, <2>1 DEF consumer_test, clientVars, mainVars, profileVars, endVars
<1>2. CASE pop_front(r)
  <2>1. queue[r] \in Seq(Messages) /\ queue[r] # <<>>
    BY <1>2 DEF pop_front
  <2>2. Head(queue[r]) \in Messages /\ Tail(queue[r]) \in Seq(Messages)
    BY <2>1
  <2>3. id_after(r, Head(queue[r])) \in Ranks
    BY <2>2 DEF id_after, Messages
  <2>4. pc' \in [Ranks -> Labels]
    BY <1>2 DEF pop_front, Goto, Labels
  <2>5. msg' \in [Ranks -> Messages] /\ tid' \in [Ranks -> Ranks]
    BY <1>2, <2>2, <2>3 DEF pop_front, front
  <2>6. queue' \in [Ranks -> Seq(Messages)]
    BY <1>2, <2>2 DEF pop_front
  <2>7. taken' \in [Ranks -> Nat]
    BY <1>2 DEF pop_front
  <2>8. word' \in [Ranks -> SUBSET Ranks]
    BY <1>2 DEF pop_front
  <2> QED
    BY <1>2, <2>4, <2>5, <2>6, <2>7, <2>8 DEF pop_front, clientVars, mainVars, profileVars, endVars
<1>3. CASE init_WKLDchar(r)
  <2>1. msg[r][1] \in Ranks /\ 0 \in Ranks
    BY RankFacts DEF Messages
  <2>2. pc' \in [Ranks -> Labels]
    BY <1>3 DEF init_WKLDchar, Goto, Labels
  <2>3. [processor |-> IF TypeOf(msg[r]) = "PID" THEN msg[r][1] ELSE 0, log |-> <<>>] \in Profiles
    BY <2>1 DEF Profiles
  <2>4. WKLDcharForThreads' \in [Ranks -> Profiles]
    BY <1>3, <2>3 DEF init_WKLDchar
  <2>5. InitializedThreads' \subseteq Ranks /\ word' \in [Ranks -> SUBSET Ranks]
    BY <1>3 DEF init_WKLDchar
  <2> QED
    BY <1>3, <2>2, <2>4, <2>5 DEF init_WKLDchar, clientVars, mainVars, endVars
<1>4. CASE handle_pid(r)
  <2>1. pc' \in [Ranks -> Labels]
    BY <1>4 DEF handle_pid, Goto, Labels
  <2>2. [processor |-> msg[r][1], log |-> WKLDcharForThreads[tid[r]].log] \in Profiles
    BY DEF Messages, Profiles
  <2>3. WKLDcharForThreads' \in [Ranks -> Profiles]
    BY <1>4, <2>2 DEF handle_pid
  <2> QED
    BY <1>4, <2>1, <2>3 DEF handle_pid, clientVars, mainVars, endVars
<1>5. CASE handle_work(r)
  <2>1. pc' \in [Ranks -> Labels]
    BY <1>5 DEF handle_work, Goto, Labels
  <2>2. WKLDcharForThreads[tid[r]] \in Profiles /\ msg[r] \in Messages
    OBVIOUS
  <2>3. [processor |-> WKLDcharForThreads[tid[r]].processor,
         log |-> Append(WKLDcharForThreads[tid[r]].log, msg[r])] \in Profiles
    BY <2>2 DEF Profiles
  <2>4. WKLDcharForThreads' \in [Ranks -> Profiles]
    BY <1>5, <2>3 DEF handle_work
  <2> QED
    BY <1>5, <2>1, <2>4 DEF handle_work, clientVars, mainVars, endVars
<1>6. CASE handle_func(r)
  <2>1. pc' \in [Ranks -> Labels]
    BY <1>6 DEF handle_func, Goto, Labels
  <2> QED
    BY <1>6, <2>1 DEF handle_func, clientVars, mainVars, profileVars, endVars
<1>7. CASE handle_end(r)
  <2>1. pc' \in [Ranks -> Labels]
    BY <1>7 DEF handle_end, Goto, Labels
  <2> QED
    BY <1>7, <2>1 DEF handle_end, clientVars, mainVars, profileVars, endVars, stop_set
<1>8. CASE wait_turn(r)
  <2>1. pc' \in [Ranks -> Labels]
    BY <1>8 DEF wait_turn, Goto, Labels
  <2> QED
    BY <1>8, <2>1 DEF wait_turn, clientVars, mainVars, profileVars, endVars
<1>9. CASE take_turn(r)
  <2>1. pc' \in [Ranks -> Labels]
    BY <1>9 DEF take_turn, Goto, Labels
  <2>2. toDump \in Nat /\ tid[r] \in Nat
    BY DEF Ranks
  <2>3. toDump' \in Nat /\ counted' \in [Ranks -> Nat]
    BY <1>9, <2>2 DEF take_turn
  <2> QED
    BY <1>9, <2>1, <2>3 DEF take_turn, clientVars, mainVars, profileVars, endVars
<1>10. CASE compare_turns(r)
  <2>1. pc' \in [Ranks -> Labels]
    BY <1>10 DEF compare_turns, Goto, Labels
  <2> QED
    BY <1>10, <2>1 DEF compare_turns, clientVars, mainVars, profileVars, endVars
<1>11. CASE openMaster(r) \/ dump(r) \/ close(r)
  <2>1. pc' \in [Ranks -> Labels]
    BY <1>11 DEF openMaster, dump, close, Goto, Labels
  <2>2. DOMAIN buffer' = Ranks /\ file' \in FileStates
    BY <1>11 DEF openMaster, dump, close, FileStates
  <2> QED
    BY <1>11, <2>1, <2>2 DEF openMaster, dump, close, clientVars, mainVars, profileVars, endVars
<1>12. CASE consumer_exit(r)
  <2>1. pc' \in [Ranks -> Labels]
    BY <1>12 DEF consumer_exit, Goto, Labels
  <2> QED
    BY <1>12, <2>1 DEF consumer_exit, clientVars, mainVars, profileVars, endVars
<1> QED
  BY <1>1, <1>2, <1>3, <1>4, <1>5, <1>6, <1>7, <1>8, <1>9, <1>10, <1>11, <1>12 DEF Consumer

LEMMA TypeStep ==
    ASSUME TypeOK, FreshInv, EventsInv, [Next]_vars
    PROVE  TypeOK'
<1>1. CASE process_gone
  BY <1>1 DEF process_gone, TypeOK, clientVars, mainVars, threadVars, profileVars
<1>2. CASE UNCHANGED vars
  BY <1>2 DEF vars, TypeOK, clientVars, mainVars, threadVars, profileVars, endVars
<1> QED
  BY <1>1, <1>2, TypeClient, TypeMain, TypeConsumer DEF Next
-----------------------------------------------------------------------------
(* What the steps leave alone.                                             *)

LEMMA ConsumerFrame ==
    ASSUME NEW r \in Ranks, Consumer(r)
    PROVE  UNCHANGED <<client, sent, rcvd, backlog, main, events, accepted, open,
                       fdOf, threads_data, thread_counter>>
BY DEF Consumer, consumer_test, pop_front, init_WKLDchar, handle_pid, handle_work,
       handle_func, handle_end, wait_turn, take_turn, compare_turns, openMaster, dump, close,
       consumer_exit, clientVars, mainVars

LEMMA ClientFrame ==
    ASSUME NEW r \in Ranks, Client(r)
    PROVE  UNCHANGED <<rcvd, events, accepted, open, fdOf, threads_data,
                       thread_counter, pc, tid, msg, queue, taken,
                       WKLDcharForThreads>>
BY DEF Client, init_libanalysis, mpi_update_process_id, send_msg, send_fails,
       MPI_Finalize, mainVars, threadVars, profileVars

LEMMA ClosingFrame ==
    ASSUME process_gone \/ UNCHANGED vars
    PROVE  UNCHANGED <<client, sent, rcvd, backlog, main, events, accepted, open,
                       fdOf, threads_data, thread_counter, pc, tid, msg, queue,
                       taken, WKLDcharForThreads>>
BY DEF process_gone, vars, clientVars, mainVars, threadVars, profileVars

LEMMA MainFrame ==
    ASSUME Main
    PROVE  UNCHANGED <<client, sent, msg, taken, WKLDcharForThreads>>
BY DEF Main, main_poll, accept_new_connections, recv_msg, recv_eof, clientVars,
       threadVars, profileVars

-----------------------------------------------------------------------------
(* Connections are accepted once each.                                     *)

\* A step of a client connects it or moves on a process that is connected.
LEMMA ClientProgress ==
    ASSUME TypeOK, NEW r \in Ranks, Client(r)
    PROVE  /\ \A q \in Ranks : client[q] # "init" => client'[q] # "init"
           /\ \/ UNCHANGED backlog
              \/ /\ client[r] = "init" /\ client'[r] # "init"
                 /\ backlog' = Append(backlog, r)
<1> USE DEF TypeOK
<1>1. CASE init_libanalysis(r)
  BY <1>1 DEF init_libanalysis
<1>2. CASE mpi_update_process_id(r)
  BY <1>2 DEF mpi_update_process_id
<1>3. CASE send_msg(r)
  BY <1>3 DEF send_msg, after_send
<1>4. CASE send_fails(r)
  BY <1>4 DEF send_fails
<1>5. CASE MPI_Finalize(r)
  BY <1>5 DEF MPI_Finalize
<1> QED
  BY <1>1, <1>2, <1>3, <1>4, <1>5 DEF Client

LEMMA FreshStep ==
    ASSUME TypeOK, FreshInv, EventsInv, [Next]_vars
    PROVE  FreshInv'
<1>1. ASSUME NEW r \in Ranks, Client(r)
      PROVE  FreshInv'
  <2>1. UNCHANGED <<rcvd, accepted, thread_counter>>
    BY <1>1, ClientFrame
  <2>2. \A q \in Ranks : client[q] # "init" => client'[q] # "init"
    BY <1>1, ClientProgress
  <2>3. accepted \subseteq Ranks /\ backlog \in Seq(Ranks)
    BY DEF TypeOK
  <2>4. CASE UNCHANGED backlog
    BY <2>1, <2>2, <2>3, <2>4 DEF FreshInv
  <2>5. CASE /\ client[r] = "init" /\ client'[r] # "init"
             /\ backlog' = Append(backlog, r)
    <3>1. r \notin accepted /\ \A i \in 1..Len(backlog) : backlog[i] # r
      BY <2>5 DEF FreshInv
    <3>2. /\ Len(backlog') = Len(backlog) + 1
          /\ \A i \in 1..Len(backlog) : backlog'[i] = backlog[i]
          /\ backlog'[Len(backlog) + 1] = r
          /\ Len(backlog) \in Nat
      BY <2>3, <2>5
    <3>3. \A i \in 1..Len(backlog') :
             backlog'[i] \notin accepted' /\ client'[backlog'[i]] # "init"
      BY <2>1, <2>2, <2>3, <2>5, <3>1, <3>2 DEF FreshInv
    <3>4. \A i, j \in 1..Len(backlog') : backlog'[i] = backlog'[j] => i = j
      BY <3>1, <3>2 DEF FreshInv
    <3> QED
      BY <2>1, <2>2, <2>3, <3>3, <3>4 DEF FreshInv
  <2> QED
    BY <1>1, <2>4, <2>5, ClientProgress
<1>2. CASE accept_new_connections /\ server = "up"
  <2> DEFINE h == Head(backlog)
  <2>1. NextEvent(Listen) /\ accepts(h) /\ UNCHANGED <<client, rcvd>>
    BY <1>2 DEF accept_new_connections
  <2>2. /\ h \in Ranks \ accepted
        /\ Cardinality(accepted \cup {h}) = thread_counter + 1
    BY <2>1, AcceptFacts
  <2>3. backlog # <<>> /\ backlog \in Seq(Ranks) /\ backlog' = Tail(backlog)
    BY <2>1 DEF NextEvent, EventsInv, TypeOK, accepts
  <2>4. accepted' = accepted \cup {h} /\ thread_counter' = thread_counter + 1
    BY <2>1 DEF accepts
  <2>5. /\ Len(backlog') = Len(backlog) - 1 /\ Len(backlog) \in Nat \ {0}
        /\ \A i \in 1..Len(backlog') : backlog'[i] = backlog[i + 1]
        /\ h = backlog[1]
    BY <2>3
  <2>6. \A i \in 1..Len(backlog') :
           backlog'[i] \notin accepted' /\ client'[backlog'[i]] # "init"
    BY <2>1, <2>4, <2>5 DEF FreshInv
  <2>7. \A i, j \in 1..Len(backlog') : backlog'[i] = backlog'[j] => i = j
    BY <2>5 DEF FreshInv
  <2>8. client[h] # "init"
    BY <2>5 DEF FreshInv
  <2> QED
    BY <2>1, <2>2, <2>4, <2>6, <2>7, <2>8 DEF FreshInv
<1>3. ASSUME NEW r \in Ranks, recv_msg(r)
      PROVE  FreshInv'
  <2>1. r \in accepted
    BY <1>3, RankFacts DEF recv_msg, NextEvent, EventsInv, TypeOK
  <2>2. /\ UNCHANGED <<client, backlog, accepted, thread_counter>>
        /\ rcvd' = [rcvd EXCEPT ![r] = @ + 1]
    BY <1>3 DEF recv_msg, clientVars
  <2> QED
    BY <2>1, <2>2 DEF FreshInv, TypeOK
<1>4. CASE UNCHANGED <<client, backlog, accepted, thread_counter, rcvd>>
  BY <1>4 DEF FreshInv
<1>5. CASE Main
  <2>1. CASE accept_new_connections /\ server # "up"
    BY <1>4, <2>1 DEF accept_new_connections
  <2>2. CASE main_poll
    BY <1>4, <2>2 DEF main_poll, clientVars
  <2>3. CASE \E r \in Ranks : recv_eof(r)
    BY <1>4, <2>3 DEF recv_eof, clientVars
  <2> QED
    BY <1>2, <1>3, <1>5, <2>1, <2>2, <2>3 DEF Main
<1> QED
  BY <1>1, <1>4, <1>5, ConsumerFrame, ClosingFrame DEF Next

LEMMA EventsStep ==
    ASSUME TypeOK, FreshInv, EventsInv, [Next]_vars
    PROVE  EventsInv'
<1>1. ASSUME NEW r \in Ranks, Client(r)
      PROVE  EventsInv'
  <2>1. UNCHANGED <<events, open>> /\ backlog \in Seq(Ranks)
    BY <1>1, ClientFrame DEF TypeOK
  <2>2. backlog' = backlog \/ backlog' = Append(backlog, r)
    BY <1>1, ClientProgress
  <2>3. Append(backlog, r) # <<>>
    <3>1. Len(Append(backlog, r)) = Len(backlog) + 1 /\ Len(backlog) \in Nat
      BY <2>1
    <3> QED
      BY <3>1
  <2> QED
    BY <2>1, <2>2, <2>3 DEF EventsInv
<1>2. CASE UNCHANGED <<events, open, backlog>>
  BY <1>2 DEF EventsInv
<1>3. CASE main_poll
  <2>1. UNCHANGED <<open, backlog>> /\ (events' = events \/ events' = Ready)
    BY <1>3 DEF main_poll, clientVars
  <2>2. Listen \in Ready => backlog # <<>>
    BY RankFacts DEF Ready, TypeOK
  <2>3. Ready \ {Listen} \subseteq open
    BY DEF Ready
  <2> QED
    BY <2>1, <2>2, <2>3 DEF EventsInv
<1>4. CASE accept_new_connections
  <2>1. events' = events \ {Listen}
    BY <1>4 DEF accept_new_connections, NextEvent
  <2>2. open \subseteq open'
    BY <1>4 DEF accept_new_connections, accepts
  <2> QED
    BY <2>1, <2>2 DEF EventsInv
<1>5. ASSUME NEW r \in Ranks, recv_msg(r) \/ recv_eof(r)
      PROVE  EventsInv'
  <2>1. events' = events \ {r}
    BY <1>5 DEF recv_msg, recv_eof, NextEvent
  <2>2. (open' = open \/ open' = open \ {r}) /\ UNCHANGED backlog
    BY <1>5 DEF recv_msg, recv_eof, clientVars
  <2> QED
    BY <2>1, <2>2 DEF EventsInv
<1> QED
  BY <1>1, <1>2, <1>3, <1>4, <1>5, ConsumerFrame, ClosingFrame DEF Next, Main
-----------------------------------------------------------------------------
(* Messages reach the queue of their own connection, in order.             *)

\* The connection that accept() returns is new and gets a descriptor of its
\* own whenever all descriptors are distinct afterwards.
LEMMA AcceptEffect ==
    ASSUME TypeOK, FreshInv, EventsInv, accept_new_connections, server = "up",
           FdsDistinct'
    PROVE  \E h \in Ranks \ accepted, f \in Ranks :
              /\ accepted' = accepted \cup {h}
              /\ fdOf' = [fdOf EXCEPT ![h] = f]
              /\ \A r \in accepted : fdOf[r] # f
              /\ threads_data' = [threads_data EXCEPT ![f] = h]
              /\ tid' = [tid EXCEPT ![h] = thread_counter]
              /\ pc' = [pc EXCEPT ![h] = "test"]
<1> DEFINE h == Head(backlog)
<1>1. NextEvent(Listen) /\ accepts(h)
  BY DEF accept_new_connections
<1>2. h \in Ranks \ accepted
  BY <1>1, AcceptFacts
<1>3. accepted' = accepted \cup {h}
  BY <1>1 DEF accepts
<1>4. PICK f \in Ranks :
        /\ fdOf' = [fdOf EXCEPT ![h] = f]
        /\ threads_data' = IF Registered(f) THEN threads_data
                           ELSE [threads_data EXCEPT ![f] = h]
  BY <1>1 DEF accepts
<1>5. fdOf'[h] = f /\ \A r \in accepted : fdOf'[r] = fdOf[r]
  BY <1>2, <1>4 DEF TypeOK
<1>6. \A r \in accepted : fdOf[r] # f
  BY <1>2, <1>3, <1>5 DEF FdsDistinct
<1>7. threads_data' = [threads_data EXCEPT ![f] = h]
  BY <1>4, <1>6 DEF Registered
<1>8. tid' = [tid EXCEPT ![h] = thread_counter] /\ pc' = [pc EXCEPT ![h] = "test"]
  BY <1>1 DEF accepts, first_id
<1> HIDE DEF h
<1> QED
  BY <1>2, <1>3, <1>4, <1>6, <1>7, <1>8

\* Once two connections have shared a descriptor, they always have.
LEMMA FdsStep ==
    ASSUME TypeOK, FreshInv, EventsInv, [Next]_vars, FdsDistinct'
    PROVE  FdsDistinct
<1>1. CASE UNCHANGED <<accepted, fdOf>>
  BY <1>1 DEF FdsDistinct
<1>2. CASE accept_new_connections /\ server = "up"
  <2>1. PICK h \in Ranks \ accepted, f \in Ranks :
          accepted' = accepted \cup {h} /\ fdOf' = [fdOf EXCEPT ![h] = f]
    BY <1>2, AcceptEffect
  <2>2. \A r \in accepted : r \in accepted' /\ fdOf'[r] = fdOf[r]
    BY <2>1 DEF TypeOK
  <2> QED
    BY <2>2 DEF FdsDistinct
<1>3. CASE Main
  <2>1. CASE accept_new_connections /\ server # "up"
    BY <1>1, <2>1 DEF accept_new_connections
  <2>2. CASE main_poll
    BY <1>1, <2>2 DEF main_poll
  <2>3. CASE \E r \in Ranks : recv_msg(r) \/ recv_eof(r)
    BY <1>1, <2>3 DEF recv_msg, recv_eof
  <2> QED
    BY <1>2, <1>3, <2>1, <2>2, <2>3 DEF Main
<1> QED
  BY <1>1, <1>3, ClientFrame, ConsumerFrame, ClosingFrame DEF Next

LEMMA MapStep ==
    ASSUME TypeOK, FreshInv, EventsInv, MapInv, [Next]_vars
    PROVE  MapInv'
<1> SUFFICES ASSUME FdsDistinct'
             PROVE  \A r \in accepted' : threads_data'[fdOf'[r]] = r
  BY DEF MapInv
<1>0. \A r \in accepted : threads_data[fdOf[r]] = r
  BY FdsStep DEF MapInv
<1>1. CASE UNCHANGED <<accepted, fdOf, threads_data>>
  BY <1>0, <1>1
<1>2. CASE accept_new_connections /\ server = "up"
  <2>1. PICK h \in Ranks \ accepted, f \in Ranks :
          /\ accepted' = accepted \cup {h}
          /\ fdOf' = [fdOf EXCEPT ![h] = f]
          /\ \A r \in accepted : fdOf[r] # f
          /\ threads_data' = [threads_data EXCEPT ![f] = h]
    BY <1>2, AcceptEffect
  <2>2. threads_data'[fdOf'[h]] = h
    BY <2>1 DEF TypeOK
  <2>3. \A r \in accepted : threads_data'[fdOf'[r]] = r
    BY <1>0, <2>1 DEF TypeOK
  <2> QED
    BY <2>1, <2>2, <2>3
<1>3. CASE Main
  <2>1. CASE accept_new_connections /\ server # "up"
    BY <1>1, <2>1 DEF accept_new_connections
  <2>2. CASE main_poll
    BY <1>1, <2>2 DEF main_poll
  <2>3. CASE \E r \in Ranks : recv_msg(r) \/ recv_eof(r)
    BY <1>1, <2>3 DEF recv_msg, recv_eof
  <2> QED
    BY <1>2, <1>3, <2>1, <2>2, <2>3 DEF Main
<1> QED
  BY <1>1, <1>3, ClientFrame, ConsumerFrame, ClosingFrame DEF Next

LEMMA RouteStep ==
    ASSUME TypeOK, FreshInv, EventsInv, MapInv, RoutedInOrder, [Next]_vars
    PROVE  RoutedInOrder'
<1> SUFFICES ASSUME FdsDistinct', NEW s \in Ranks
             PROVE  InOrder(s)'
  BY DEF RoutedInOrder
<1>0. InOrder(s) /\ FdsDistinct
  BY FdsStep DEF RoutedInOrder
<1>1. CASE UNCHANGED <<sent, rcvd, taken, queue>>
  BY <1>0, <1>1 DEF InOrder
<1>2. ASSUME NEW r \in Ranks, Client(r)
      PROVE  InOrder(s)'
  <2>1. UNCHANGED <<rcvd, taken, queue>>
    BY <1>2, ClientFrame
  <2>2. sent' = sent \/ sent' = [sent EXCEPT ![r] = @ + 1]
    BY <1>2 DEF Client, init_libanalysis, mpi_update_process_id, send_msg,
                send_fails, MPI_Finalize
  <2>3. sent[s] \in Nat /\ rcvd[s] \in Nat /\ sent'[s] \in {sent[s], sent[s] + 1}
    BY <2>2 DEF TypeOK
  <2> QED
    BY <1>0, <2>1, <2>3 DEF InOrder
<1>3. ASSUME NEW r \in Ranks, recv_msg(r)
      PROVE  InOrder(s)'
  <2>1. r \in accepted
    BY <1>3, RankFacts DEF recv_msg, NextEvent, EventsInv, TypeOK
  <2>2. threads_data[fdOf[r]] = r
    BY <1>0, <2>1 DEF MapInv
  <2>3. /\ queue' = [queue EXCEPT ![r] = Append(@, <<r, rcvd[r]>>)]
        /\ rcvd' = [rcvd EXCEPT ![r] = @ + 1]
        /\ rcvd[r] < sent[r]
        /\ UNCHANGED <<sent, taken>>
    BY <1>3, <2>2 DEF recv_msg, clientVars, threadVars
  <2>4. CASE s # r
    <3>1. queue'[s] = queue[s] /\ rcvd'[s] = rcvd[s]
      BY <2>3, <2>4 DEF TypeOK
    <3> QED
      BY <1>0, <2>3, <3>1 DEF InOrder
  <2>5. CASE s = r
    <3> DEFINE q == queue[r]
    <3>1. q \in Seq(Messages) /\ taken[r] \in Nat /\ rcvd[r] \in Nat /\ sent[r] \in Nat
      BY DEF TypeOK
    <3>2. queue'[r] = Append(q, <<r, rcvd[r]>>) /\ rcvd'[r] = rcvd[r] + 1
      BY <2>3 DEF TypeOK
    <3>3. <<r, rcvd[r]>> \in Messages
      BY <3>1 DEF Messages
    <3>4. /\ Len(q) \in Nat /\ Len(queue'[r]) = Len(q) + 1
          /\ \A i \in 1..Len(q) : queue'[r][i] = q[i]
          /\ queue'[r][Len(q) + 1] = <<r, rcvd[r]>>
      BY <3>1, <3>2, <3>3
    <3>5. /\ taken[r] <= rcvd[r] /\ Len(q) = rcvd[r] - taken[r]
          /\ \A i \in 1..Len(q) : q[i] = <<r, taken[r] + i - 1>>
      BY <1>0, <2>5 DEF InOrder
    <3>6. rcvd[r] = taken[r] + (Len(q) + 1) - 1
      BY <3>1, <3>4, <3>5
    <3>7. \A i \in 1..Len(queue'[r]) : queue'[r][i] = <<r, taken[r] + i - 1>>
      <4> SUFFICES ASSUME NEW i \in 1..Len(queue'[r])
                   PROVE  queue'[r][i] = <<r, taken[r] + i - 1>>
        OBVIOUS
      <4>1. CASE i \in 1..Len(q)
        BY <3>4, <3>5, <4>1
      <4>2. CASE i = Len(q) + 1
        BY <3>4, <3>6, <4>2
      <4> QED
        BY <3>4, <4>1, <4>2
    <3>8. /\ taken'[r] = taken[r] /\ sent'[r] = sent[r]
          /\ taken'[r] <= rcvd'[r] /\ rcvd'[r] <= sent'[r]
          /\ Len(queue'[r]) = rcvd'[r] - taken'[r]
      BY <2>3, <3>1, <3>2, <3>4, <3>5
    <3> QED
      BY <2>5, <3>7, <3>8 DEF InOrder
  <2> QED
    BY <2>4, <2>5
<1>4. ASSUME NEW r \in Ranks, pop_front(r)
      PROVE  InOrder(s)'
  <2>1. /\ queue' = [queue EXCEPT ![r] = Tail(@)] /\ queue[r] # <<>>
        /\ taken' = [taken EXCEPT ![r] = @ + 1]
        /\ UNCHANGED <<sent, rcvd>>
    BY <1>4 DEF pop_front, clientVars, mainVars
  <2>2. CASE s # r
    <3>1. queue'[s] = queue[s] /\ taken'[s] = taken[s]
      BY <2>1, <2>2 DEF TypeOK
    <3> QED
      BY <1>0, <2>1, <3>1 DEF InOrder
  <2>3. CASE s = r
    <3> DEFINE q == queue[r]
    <3>1. q \in Seq(Messages) /\ taken[r] \in Nat /\ rcvd[r] \in Nat /\ sent[r] \in Nat
      BY DEF TypeOK
    <3>2. queue'[r] = Tail(q) /\ taken'[r] = taken[r] + 1
      BY <2>1 DEF TypeOK
    <3>3. /\ Len(q) \in Nat \ {0} /\ Len(queue'[r]) = Len(q) - 1
          /\ \A i \in 1..Len(queue'[r]) : queue'[r][i] = q[i + 1]
      BY <2>1, <3>1, <3>2, TailFacts, ZenonT(60)
    <3>4. /\ taken[r] <= rcvd[r] /\ rcvd[r] <= sent[r]
          /\ Len(q) = rcvd[r] - taken[r]
          /\ \A i \in 1..Len(q) : q[i] = <<r, taken[r] + i - 1>>
      BY <1>0, <2>3 DEF InOrder
    <3>5. \A i \in 1..Len(queue'[r]) : queue'[r][i] = <<r, taken'[r] + i - 1>>
      <4> SUFFICES ASSUME NEW i \in 1..Len(queue'[r])
                   PROVE  queue'[r][i] = <<r, taken'[r] + i - 1>>
        OBVIOUS
      <4>1. i + 1 \in 1..Len(q)
        BY <3>3
      <4>2. taken'[r] + i - 1 = taken[r] + (i + 1) - 1
        BY <3>1, <3>2
      <4> QED
        BY <3>3, <3>4, <4>1, <4>2
    <3>6. /\ rcvd'[r] = rcvd[r] /\ sent'[r] = sent[r]
          /\ taken'[r] <= rcvd'[r] /\ rcvd'[r] <= sent'[r]
          /\ Len(queue'[r]) = rcvd'[r] - taken'[r]
      BY <2>1, <3>1, <3>2, <3>3, <3>4
    <3> QED
      BY <2>3, <3>5, <3>6 DEF InOrder
  <2> QED
    BY <2>2, <2>3
<1>5. CASE Main
  <2>1. CASE accept_new_connections
    BY <1>1, <2>1 DEF accept_new_connections
  <2>2. CASE main_poll
    BY <1>1, <2>2 DEF main_poll, clientVars, threadVars
  <2>3. CASE \E r \in Ranks : recv_eof(r)
    BY <1>1, <2>3 DEF recv_eof, clientVars, threadVars
  <2> QED
    BY <1>3, <1>5, <2>1, <2>2, <2>3 DEF Main
<1>6. ASSUME NEW r \in Ranks, Consumer(r)
      PROVE  InOrder(s)'
  <2>1. UNCHANGED <<sent, rcvd>>
    BY <1>6, ConsumerFrame
  <2>2. pop_front(r) \/ UNCHANGED <<taken, queue>>
    BY <1>6 DEF Consumer, consumer_test, init_WKLDchar, handle_pid, handle_work,
                handle_func, handle_end, wait_turn, take_turn, compare_turns, openMaster, dump, close,
                consumer_exit
  <2> QED
    BY <1>1, <1>4, <2>1, <2>2
<1> QED
  BY <1>1, <1>2, <1>5, <1>6, ClosingFrame DEF Next
-----------------------------------------------------------------------------
(* A consumer knows whose messages it handles.                             *)

LEMMA OwnerStep ==
    ASSUME TypeOK, FreshInv, EventsInv, RoutedInOrder, OwnerInv, [Next]_vars
    PROVE  OwnerInv'
<1> SUFFICES ASSUME FdsDistinct', NEW s \in Ranks
             PROVE  Owned(s)'
  BY DEF OwnerInv
<1>0. Owned(s) /\ InOrder(s) /\ FdsDistinct
  BY FdsStep DEF OwnerInv, RoutedInOrder
<1>1. CASE /\ UNCHANGED <<taken, tid, msg>>
           /\ pc'[s] \in {"init", "handle"} => pc[s] \in {"init", "handle"}
  BY <1>0, <1>1 DEF Owned, Handling
<1>2. CASE accept_new_connections /\ server = "up"
  <2>1. PICK h \in Ranks \ accepted :
          /\ tid' = [tid EXCEPT ![h] = thread_counter]
          /\ pc' = [pc EXCEPT ![h] = "test"]
    BY <1>2, AcceptEffect
  <2>2. UNCHANGED <<taken, msg>>
    BY <1>2 DEF accept_new_connections
  <2>3. CASE s # h
    BY <1>0, <2>1, <2>2, <2>3 DEF Owned, Handling, TypeOK
  <2>4. CASE s = h
    <3>1. rcvd[s] = 0 /\ taken[s] \in Nat /\ taken[s] <= rcvd[s]
      BY <1>0, <2>4 DEF FreshInv, InOrder, TypeOK
    <3>2. pc'[s] = "test" /\ taken'[s] = 0
      BY <2>1, <2>2, <2>4, <3>1 DEF TypeOK
    <3> QED
      BY <3>2 DEF Owned, Handling
  <2> QED
    BY <2>3, <2>4
<1>3. ASSUME NEW r \in Ranks, pop_front(r)
      PROVE  Owned(s)'
  <2> DEFINE m == Head(queue[r])
  <2>1. /\ queue[r] # <<>>
        /\ taken' = [taken EXCEPT ![r] = @ + 1]
        /\ msg' = [msg EXCEPT ![r] = m]
        /\ tid' = [tid EXCEPT ![r] = id_after(r, m)]
        /\ \A q \in Ranks \ {r} : pc'[q] = pc[q]
    BY <1>3 DEF pop_front, front, Goto, TypeOK
  <2>2. CASE s # r
    BY <1>0, <2>1, <2>2 DEF Owned, Handling, TypeOK
  <2>3. CASE s = r
    <3>1. queue[r] \in Seq(Messages) /\ taken[r] \in Nat
      BY DEF TypeOK
    <3>2. Len(queue[r]) \in Nat \ {0} /\ m = queue[r][1]
      BY <2>1, <3>1, TailFacts
    <3>3. queue[r][1] = <<r, taken[r] + 1 - 1>>
      BY <1>0, <2>3, <3>2 DEF InOrder
    <3>4. m = <<r, taken[r]>>
      BY <3>1, <3>2, <3>3
    <3>5. id_after(r, m) = r
      <4>1. CASE taken[r] = 0
        BY <3>4, <4>1 DEF id_after, TypeOf
      <4>2. CASE taken[r] > 0
        BY <1>0, <2>3, <3>4, <4>2 DEF id_after, Owned
      <4> QED
        BY <3>1, <4>1, <4>2
    <3>6. /\ taken'[r] = taken[r] + 1 /\ msg'[r] = <<r, taken[r]>>
          /\ tid'[r] = r
      BY <2>1, <3>4, <3>5 DEF TypeOK
    <3>7. taken'[r] > 0 /\ taken[r] = taken'[r] - 1
      BY <3>1, <3>6
    <3> QED
      BY <2>3, <3>6, <3>7 DEF Owned
  <2> QED
    BY <2>2, <2>3
<1>4. ASSUME NEW r \in Ranks, Consumer(r)
      PROVE  Owned(s)'
  <2>1. CASE pop_front(r)
    BY <1>3, <2>1
  <2>2. CASE init_WKLDchar(r)
    BY <1>1, <2>2 DEF init_WKLDchar, At, Goto, TypeOK
  <2>3. CASE ~pop_front(r) /\ ~init_WKLDchar(r)
    <3>1. /\ UNCHANGED <<taken, tid, msg>>
          /\ \E l \in Labels \ {"init", "handle"} : pc' = [pc EXCEPT ![r] = l]
      BY <1>4, <2>3 DEF Consumer, consumer_test, handle_pid, handle_work,
            handle_func, handle_end, wait_turn, take_turn, compare_turns, openMaster, dump, close,
            consumer_exit, Goto, Labels
    <3> QED
      BY <1>1, <3>1 DEF TypeOK
  <2> QED
    BY <2>1, <2>2, <2>3
<1>5. CASE Main
  <2>1. CASE accept_new_connections /\ server # "up"
    BY <1>1, <2>1 DEF accept_new_connections
  <2>2. CASE main_poll
    BY <1>1, <2>2 DEF main_poll, threadVars
  <2>3. CASE \E r \in Ranks : recv_msg(r) \/ recv_eof(r)
    BY <1>1, <2>3 DEF recv_msg, recv_eof, threadVars
  <2> QED
    BY <1>2, <1>5, <2>1, <2>2, <2>3 DEF Main
<1> QED
  BY <1>1, <1>4, <1>5, ClientFrame, ClosingFrame DEF Next
-----------------------------------------------------------------------------
(* A slot holds its own rank's messages, in order.                         *)

LEMMA AnalysableType ==
    ASSUME TypeOK, OwnerInv, FdsDistinct, NEW s \in Ranks
    PROVE  Analysable(s) \in Nat
BY DEF Analysable, OwnerInv, Owned, TypeOK

LEMMA LogStep ==
    ASSUME TypeOK, TypeOK', FreshInv, EventsInv, OwnerInv, OwnerInv', LogInv,
           StartInv, [Next]_vars
    PROVE  LogInv'
<1> DEFINE log(t) == WKLDcharForThreads[t].log
<1> SUFFICES ASSUME FdsDistinct', NEW s \in Ranks
             PROVE  Logged(s)'
  BY DEF LogInv
<1>0. Logged(s) /\ FdsDistinct /\ \A r \in Ranks : Owned(r)
  BY FdsStep DEF LogInv, OwnerInv
<1>1. /\ log(s) \in Seq(Messages)
      /\ \A i \in 1..Len(log(s)) : log(s)[i][2] \in Nat
  <2>1. log(s) \in Seq(Messages)
    BY DEF TypeOK, Profiles
  <2> QED
    BY <2>1 DEF Messages
<1>2. Analysable(s) \in Nat /\ Analysable(s)' \in Nat
  <2>1. Analysable(s) \in Nat
    BY <1>0, AnalysableType
  <2>2. Owned(s)'
    BY DEF OwnerInv
  <2>3. Analysable(s)' \in Nat
    BY <2>2 DEF Analysable, Owned, TypeOK
  <2> QED
    BY <2>1, <2>3
<1>3. ASSUME log(s)' = log(s), Analysable(s)' = Analysable(s)
      PROVE  Logged(s)'
  BY <1>0, <1>3 DEF Logged, Unbroken
<1>4. ASSUME UNCHANGED <<taken, WKLDcharForThreads>>,
             pc'[s] \in {"init", "handle"} <=> pc[s] \in {"init", "handle"}
      PROVE  Logged(s)'
  <2>1. log(s)' = log(s) /\ Analysable(s)' = Analysable(s)
    BY <1>4 DEF Analysable, Handling
  <2> QED
    BY <1>3, <2>1
<1>5. ASSUME NEW r \in Ranks, pop_front(r)
      PROVE  Logged(s)'
  <2>1. /\ UNCHANGED WKLDcharForThreads
        /\ taken' = [taken EXCEPT ![r] = @ + 1]
        /\ pc[r] = "pop"
        /\ pc'[r] \in {"init", "handle"}
        /\ \A q \in Ranks \ {r} : pc'[q] = pc[q]
    BY <1>5 DEF pop_front, profileVars, At, Goto, TypeOK
  <2>2. Analysable(s)' = Analysable(s)
    <3>1. CASE s # r
      BY <2>1, <3>1 DEF Analysable, Handling, TypeOK
    <3>2. CASE s = r
      BY <2>1, <3>2 DEF Analysable, Handling, TypeOK
    <3> QED
      BY <3>1, <3>2
  <2> QED
    BY <1>3, <2>1, <2>2
<1>6. ASSUME NEW r \in Ranks, init_WKLDchar(r)
      PROVE  Logged(s)'
  <2>1. tid[r] = r
    BY <1>0, <1>6 DEF init_WKLDchar, At, Owned, Handling
  <2>2. /\ UNCHANGED taken
        /\ pc[r] = "init" /\ pc' = [pc EXCEPT ![r] = "handle"]
        /\ log(r)' = <<>>
        /\ \A q \in Ranks \ {r} : log(q)' = log(q)
    BY <1>6, <2>1 DEF init_WKLDchar, At, Goto, TypeOK
  <2>3. CASE s = r
    BY <2>2, <2>3 DEF Logged, Unbroken
  <2>4. CASE s # r
    <3>1. Analysable(s)' = Analysable(s)
      BY <2>2, <2>4 DEF Analysable, Handling, TypeOK
    <3> QED
      BY <1>3, <2>2, <2>4, <3>1
  <2> QED
    BY <2>3, <2>4
<1>7. ASSUME NEW r \in Ranks, handle_pid(r) \/ handle_func(r) \/ handle_end(r)
      PROVE  Logged(s)'
  <2>1. tid[r] = r /\ taken[r] > 0 /\ msg[r] = <<r, taken[r] - 1>> /\ pc[r] = "handle"
    BY <1>0, <1>7 DEF handle_pid, handle_func, handle_end, At, Owned, Handling
  <2>2. log(s)' = log(s)
    <3>1. CASE handle_pid(r)
      <4>1. WKLDcharForThreads' = [WKLDcharForThreads EXCEPT ![r] =
                                      [processor |-> msg[r][1], log |-> @.log]]
        BY <2>1, <3>1 DEF handle_pid
      <4> QED
        BY <4>1 DEF TypeOK
    <3>2. CASE handle_func(r) \/ handle_end(r)
      BY <3>2 DEF handle_func, handle_end, profileVars
    <3> QED
      BY <1>7, <3>1, <3>2
  <2>3. UNCHANGED taken /\ pc' = [pc EXCEPT ![r] = "test"]
    BY <1>7 DEF handle_pid, handle_func, handle_end, Goto
  <2>4. CASE s # r
    <3>1. Analysable(s)' = Analysable(s)
      BY <2>3, <2>4 DEF Analysable, Handling, TypeOK
    <3> QED
      BY <1>3, <2>2, <3>1
  <2>5. CASE s = r
    <3>1. Analysable(s) = taken[s] - 1 /\ Analysable(s)' = taken[s] /\ taken[s] \in Nat
      BY <2>1, <2>3, <2>5 DEF Analysable, Handling, TypeOK
    <3>2. ~Analysed(<<s, taken[s] - 1>>)
      BY <1>7, <2>1, <2>5 DEF handle_pid, handle_func, handle_end, Analysed
    <3>3. ASSUME log(s) # <<>>,
                 NEW k \in (log(s)[Len(log(s))][2] + 1)..(taken[s] - 1)
          PROVE  ~Analysed(<<s, k>>)
      <4>1. CASE k = taken[s] - 1
        BY <3>2, <4>1
      <4>2. CASE k # taken[s] - 1
        <5>1. Len(log(s)) \in 1..Len(log(s))
          BY <1>1, <3>3
        <5>2. log(s)[Len(log(s))][2] \in Nat
          BY <1>1, <5>1
        <5>3. k \in (log(s)[Len(log(s))][2] + 1)..(Analysable(s) - 1)
          BY <3>1, <4>2, <5>2
        <5> QED
          BY <1>0, <3>3, <5>3 DEF Logged
      <4> QED
        BY <4>1, <4>2
    <3>4. \A i \in 1..Len(log(s)) : log(s)[i][2] < taken[s]
      BY <1>0, <1>1, <3>1 DEF Logged
    <3> QED
      BY <1>0, <2>2, <3>1, <3>3, <3>4 DEF Logged, Unbroken
  <2> QED
    BY <2>4, <2>5
<1>8. ASSUME NEW r \in Ranks, handle_work(r)
      PROVE  Logged(s)'
  <2>1. tid[r] = r /\ taken[r] > 0 /\ msg[r] = <<r, taken[r] - 1>> /\ pc[r] = "handle"
    BY <1>0, <1>8 DEF handle_work, At, Owned, Handling
  <2>2. /\ UNCHANGED taken
        /\ pc'[r] \notin {"init", "handle"}
        /\ \A q \in Ranks \ {r} : pc'[q] = pc[q]
    BY <1>8 DEF handle_work, Goto, TypeOK
  <2>3. /\ log(r)' = Append(log(r), <<r, taken[r] - 1>>)
        /\ \A q \in Ranks \ {r} : log(q)' = log(q)
    BY <1>8, <2>1 DEF handle_work, TypeOK
  <2>4. CASE s # r
    <3>1. Analysable(s)' = Analysable(s)
      BY <2>2, <2>4 DEF Analysable, Handling
    <3> QED
      BY <1>3, <2>3, <2>4, <3>1
  <2>5. CASE s = r
    <3> DEFINE old == log(s)
               new == log(s)'
               k == taken[s] - 1
    <3>1. Analysable(s) = k /\ Analysable(s)' = k + 1 /\ k \in Nat
      BY <2>1, <2>2, <2>5 DEF Analysable, Handling, TypeOK
    <3>2. <<s, k>> \in Messages
      BY <3>1 DEF Messages
    <3>3. /\ Len(old) \in Nat /\ Len(new) = Len(old) + 1
          /\ \A i \in 1..Len(old) : new[i] = old[i]
          /\ new[Len(old) + 1] = <<s, k>>
      BY <1>1, <2>3, <2>5, <3>2, AppendFacts, SMTT(30)
    <3>4. /\ \A i \in 1..Len(old) : old[i][1] = s /\ Analysed(old[i]) /\ old[i][2] < k
          /\ \A i, j \in 1..Len(old) : i < j => old[i][2] < old[j][2]
          /\ \A i \in 1..(Len(old) - 1) :
                \A l \in (old[i][2] + 1)..(old[i + 1][2] - 1) : ~Analysed(<<s, l>>)
          /\ old # <<>> => \A l \in (old[Len(old)][2] + 1)..(k - 1) : ~Analysed(<<s, l>>)
      BY <1>0, <3>1 DEF Logged, Unbroken
    <3>A. Analysed(<<s, k>>)
      BY <1>8, <2>1, <2>5 DEF handle_work
    <3>5. \A i \in 1..Len(new) : new[i][1] = s /\ Analysed(new[i]) /\ new[i][2] < k + 1
      <4> SUFFICES ASSUME NEW i \in 1..Len(new)
                   PROVE  new[i][1] = s /\ Analysed(new[i]) /\ new[i][2] < k + 1
        OBVIOUS
      <4>1. CASE i \in 1..Len(old)
        <5>1. /\ new[i] = old[i] /\ old[i][1] = s /\ Analysed(old[i])
              /\ old[i][2] < k /\ old[i][2] \in Nat
          BY <1>1, <3>3, <3>4, <4>1
        <5> HIDE DEF old, new, k
        <5> QED
          BY <3>1, <5>1
      <4>2. CASE i = Len(old) + 1
        <5>1. new[i] = <<s, k>>
          BY <3>3, <4>2
        <5> HIDE DEF old, new, k
        <5> QED
          BY <3>1, <3>A, <5>1
      <4> QED
        BY <3>3, <4>1, <4>2, SMTT(30)
    <3>6. \A i, j \in 1..Len(new) : i < j => new[i][2] < new[j][2]
      <4> SUFFICES ASSUME NEW i \in 1..Len(new), NEW j \in 1..Len(new), i < j
                   PROVE  new[i][2] < new[j][2]
        OBVIOUS
      <4>1. i \in 1..Len(old)
        BY <3>3
      <4>2. CASE j \in 1..Len(old)
        BY <3>3, <3>4, <4>1, <4>2
      <4>3. CASE j = Len(old) + 1
        <5>1. new[i] = old[i] /\ old[i][2] < k
          BY <3>3, <3>4, <4>1
        <5>2. new[j] = <<s, k>>
          BY <3>3, <4>3
        <5> HIDE DEF old, new, k
        <5> QED
          BY <5>1, <5>2
      <4> QED
        BY <3>3, <4>2, <4>3
    <3>7. ASSUME NEW i \in 1..(Len(new) - 1), NEW l \in (new[i][2] + 1)..(new[i + 1][2] - 1)
          PROVE  ~Analysed(<<s, l>>)
      <4>1. i \in 1..Len(old) /\ new[i] = old[i]
        BY <3>3
      <4>2. CASE i = Len(old)
        <5>1. new[i + 1][2] = k /\ old # <<>>
          BY <3>3, <4>1, <4>2
        <5>2. l \in (old[Len(old)][2] + 1)..(k - 1)
          BY <4>1, <4>2, <5>1
        <5> QED
          BY <3>4, <5>1, <5>2
      <4>3. CASE i # Len(old)
        <5>1. i \in 1..(Len(old) - 1) /\ i + 1 \in 1..Len(old)
          BY <3>3, <4>1, <4>3
        <5>2. new[i + 1] = old[i + 1]
          BY <3>3, <5>1
        <5> QED
          BY <3>4, <4>1, <5>1, <5>2
      <4> QED
        BY <4>2, <4>3
    <3>8. ASSUME NEW l \in (new[Len(new)][2] + 1)..k
          PROVE  FALSE
      <4>1. new[Len(new)][2] = k
        BY <3>3
      <4> QED
        BY <3>1, <4>1
    <3> HIDE DEF old, new, k
    <3>9. Unbroken(s, new)
      BY <3>5, <3>6, <3>7 DEF Unbroken
    <3> QED
      BY <3>1, <3>5, <3>8, <3>9 DEF Logged, new, k
  <2> QED
    BY <2>4, <2>5
<1>9. ASSUME NEW r \in Ranks, Consumer(r)
      PROVE  Logged(s)'
  <2>1. CASE \/ pop_front(r) \/ init_WKLDchar(r) \/ handle_work(r)
             \/ handle_pid(r) \/ handle_func(r) \/ handle_end(r)
    BY <1>5, <1>6, <1>7, <1>8, <2>1
  <2>2. CASE \/ consumer_test(r) \/ wait_turn(r) \/ take_turn(r) \/ compare_turns(r)
             \/ openMaster(r) \/ dump(r) \/ close(r) \/ consumer_exit(r)
    <3>1. /\ UNCHANGED <<taken, WKLDcharForThreads>>
          /\ pc[r] \notin {"init", "handle"}
          /\ \E l \in Labels \ {"init", "handle"} : pc' = [pc EXCEPT ![r] = l]
      BY <2>2 DEF consumer_test, wait_turn, take_turn, compare_turns, openMaster, dump,
            close, consumer_exit, profileVars, At, Goto, Labels
    <3> QED
      BY <1>4, <3>1 DEF TypeOK
  <2> QED
    BY <1>9, <2>1, <2>2 DEF Consumer
<1>10. CASE Main
  <2>1. UNCHANGED <<taken, WKLDcharForThreads>>
    BY <1>10, MainFrame
  <2>2. CASE accept_new_connections /\ server = "up"
    <3>1. PICK h \in Ranks \ accepted : pc' = [pc EXCEPT ![h] = "test"]
      BY <2>2, AcceptEffect
    <3>2. pc[h] = "none"
      BY <3>1 DEF StartInv
    <3> QED
      BY <1>4, <2>1, <3>1, <3>2 DEF TypeOK
  <2>3. CASE ~(accept_new_connections /\ server = "up")
    <3>1. pc' = pc
      BY <1>10, <2>3 DEF Main, main_poll, accept_new_connections, recv_msg,
                         recv_eof, threadVars
    <3> QED
      BY <1>4, <2>1, <3>1
  <2> QED
    BY <2>2, <2>3
<1> QED
  BY <1>4, <1>9, <1>10, ClientFrame, ClosingFrame DEF Next

-----------------------------------------------------------------------------
(* Stop bits are set by their own rank's END_APP.                          *)

LEMMA StopStep ==
    ASSUME TypeOK, FreshInv, EventsInv, OwnerInv, StopJustified, [Next]_vars
    PROVE  StopJustified'
<1> SUFFICES ASSUME FdsDistinct',
                    NEW t \in 0..(thread_counter' - 1) \cap should_stop'
             PROVE  \E k \in 1..(taken'[t] - 1) : Script[t][k] = "END"
  BY DEF StopJustified
<1>0. FdsDistinct /\ \A r \in Ranks : Owned(r)
  BY FdsStep DEF OwnerInv
<1>1. CASE UNCHANGED <<thread_counter, taken, should_stop>>
  BY <1>0, <1>1 DEF StopJustified
<1>2. CASE accept_new_connections /\ server = "up"
  <2>1. /\ UNCHANGED taken
        /\ thread_counter' = thread_counter + 1
        /\ should_stop' = should_stop \ {thread_counter}
    BY <1>2 DEF accept_new_connections, accepts, stop_pushed
  <2>2. t \in 0..(thread_counter - 1) \cap should_stop
    BY <2>1 DEF TypeOK
  <2> QED
    BY <1>0, <2>1, <2>2 DEF StopJustified
<1>3. ASSUME NEW r \in Ranks, handle_end(r)
      PROVE  \E k \in 1..(taken'[t] - 1) : Script[t][k] = "END"
  <2>1. /\ UNCHANGED <<taken, thread_counter>>
        /\ should_stop' = should_stop \cup {tid[r]}
        /\ TypeOf(msg[r]) = "END"
    BY <1>3 DEF handle_end, stop_set, mainVars
  <2>2. tid[r] = r /\ taken[r] > 0 /\ msg[r] = <<r, taken[r] - 1>>
    BY <1>0, <1>3 DEF handle_end, At, Owned, Handling
  <2>3. CASE t = r
    <3>1. taken[r] \in Nat /\ taken[r] - 1 # 0 /\ Script[r][taken[r] - 1] = "END"
      BY <2>1, <2>2 DEF TypeOf, TypeOK
    <3>2. taken[r] - 1 \in 1..(taken'[t] - 1)
      BY <2>1, <2>2, <2>3, <3>1
    <3> QED
      BY <2>3, <3>1, <3>2
  <2>4. CASE t # r
    BY <1>0, <2>1, <2>2, <2>4 DEF StopJustified
  <2> QED
    BY <2>3, <2>4
<1>4. ASSUME NEW r \in Ranks, pop_front(r)
      PROVE  \E k \in 1..(taken'[t] - 1) : Script[t][k] = "END"
  <2>1. /\ UNCHANGED <<thread_counter, should_stop>>
        /\ taken' = [taken EXCEPT ![r] = @ + 1]
    BY <1>4 DEF pop_front, mainVars
  <2>2. PICK k \in 1..(taken[t] - 1) : Script[t][k] = "END"
    BY <1>0, <2>1 DEF StopJustified
  <2>3. t \in Ranks
    BY <2>1 DEF TypeOK
  <2>4. taken[t] \in Nat /\ taken'[t] \in {taken[t], taken[t] + 1}
    BY <2>1, <2>3 DEF TypeOK
  <2>5. k \in 1..(taken'[t] - 1)
    BY <2>4
  <2> QED
    BY <2>2, <2>5
<1>5. ASSUME NEW r \in Ranks, Consumer(r)
      PROVE  \E k \in 1..(taken'[t] - 1) : Script[t][k] = "END"
  <2>1. UNCHANGED thread_counter
    BY <1>5, ConsumerFrame
  <2>2. pop_front(r) \/ handle_end(r) \/ UNCHANGED <<taken, should_stop>>
    BY <1>5 DEF Consumer, consumer_test, init_WKLDchar, handle_pid, handle_work,
                handle_func, wait_turn, take_turn, compare_turns, openMaster, dump, close, consumer_exit
  <2> QED
    BY <1>1, <1>3, <1>4, <2>1, <2>2
<1>6. CASE Main
  <2>1. CASE accept_new_connections /\ server # "up"
    BY <1>1, <2>1 DEF accept_new_connections
  <2>2. CASE main_poll
    BY <1>1, <2>2 DEF main_poll, threadVars
  <2>3. CASE \E r \in Ranks : recv_msg(r) \/ recv_eof(r)
    BY <1>1, <2>3 DEF recv_msg, recv_eof, threadVars
  <2> QED
    BY <1>2, <1>6, <2>1, <2>2, <2>3 DEF Main
<1>7. ASSUME NEW r \in Ranks, Client(r)
      PROVE  UNCHANGED <<thread_counter, taken, should_stop>>
  BY <1>7 DEF Client, init_libanalysis, mpi_update_process_id, send_msg,
              send_fails, MPI_Finalize, mainVars, threadVars
<1>8. ASSUME process_gone \/ UNCHANGED vars
      PROVE  UNCHANGED <<thread_counter, taken, should_stop>>
  BY <1>8 DEF process_gone, vars, mainVars, threadVars
<1> QED
  BY <1>1, <1>5, <1>6, <1>7, <1>8 DEF Next
-----------------------------------------------------------------------------
(* What is printed and written.                                            *)

LEMMA PrintStep ==
    ASSUME TypeOK, FreshInv, EventsInv, LogInv, PrintInv, [Next]_vars
    PROVE  PrintInv'
<1> SUFFICES ASSUME FdsDistinct'
             PROVE  /\ \A c \in Ranks : \A r \in DOMAIN buffer'[c] : Unbroken(r, buffer'[c][r].log)
                    /\ \A r \in DOMAIN written' : Unbroken(r, written'[r].log)
  BY DEF PrintInv, Unbroken
<1>0. /\ \A r \in Ranks : Unbroken(r, WKLDcharForThreads[r].log)
      /\ \A c \in Ranks : \A r \in DOMAIN buffer[c] : Unbroken(r, buffer[c][r].log)
      /\ \A r \in DOMAIN written : Unbroken(r, written[r].log)
  BY FdsStep DEF LogInv, Logged, PrintInv
<1>1. CASE UNCHANGED <<buffer, written>>
  BY <1>0, <1>1
<1>2. ASSUME NEW c \in Ranks, openMaster(c)
      PROVE  UNCHANGED buffer /\ written' = NoSlots
  BY <1>2 DEF openMaster
<1>3. ASSUME NEW c \in Ranks, dump(c)
      PROVE  /\ UNCHANGED written
             /\ \A d \in Ranks : \A r \in DOMAIN buffer'[d] : Unbroken(r, buffer'[d][r].log)
  <2> DEFINE slots == [t \in InitializedThreads |-> WKLDcharForThreads[t]]
  <2>1. UNCHANGED written /\ buffer' = [buffer EXCEPT ![c] = slots] /\ DOMAIN buffer = Ranks
    BY <1>3 DEF dump, TypeOK
  <2>2. \A r \in DOMAIN slots : Unbroken(r, slots[r].log)
    BY <1>0 DEF TypeOK
  <2> HIDE DEF slots
  <2> QED
    BY <1>0, <2>1, <2>2
<1>4. ASSUME NEW c \in Ranks, close(c)
      PROVE  UNCHANGED buffer /\ written' = buffer[c]
  BY <1>4 DEF close
<1>5. ASSUME NEW c \in Ranks, Consumer(c), ~openMaster(c), ~dump(c), ~close(c)
      PROVE  UNCHANGED <<buffer, written>>
  BY <1>5 DEF Consumer, consumer_test, pop_front, init_WKLDchar, handle_pid, handle_work,
     handle_func, handle_end, wait_turn, take_turn, compare_turns, consumer_exit, endVars
<1>6. ASSUME (\E r \in Ranks : Client(r)) \/ Main \/ process_gone \/ UNCHANGED vars
      PROVE  UNCHANGED <<buffer, written>>
  BY <1>6 DEF Client, init_libanalysis, mpi_update_process_id, send_msg, send_fails, MPI_Finalize,
     Main, main_poll, accept_new_connections, recv_msg, recv_eof, process_gone, vars, endVars
<1>7. \A r \in DOMAIN NoSlots : Unbroken(r, NoSlots[r].log)
  BY DEF NoSlots
<1> QED
  BY <1>0, <1>1, <1>2, <1>3, <1>4, <1>5, <1>6, <1>7 DEF Next
-----------------------------------------------------------------------------
(* Turns.                                                                  *)

LEMMA StartStep ==
    ASSUME TypeOK, FreshInv, EventsInv, StartInv, [Next]_vars
    PROVE  StartInv'
<1>1. CASE accept_new_connections /\ server = "up"
  <2>1. PICK h \in Ranks : accepted' = accepted \cup {h} /\ pc' = [pc EXCEPT ![h] = "test"]
    BY <1>1, AcceptFacts DEF accept_new_connections, accepts
  <2> QED
    BY <2>1 DEF StartInv, TypeOK
<1>2. CASE Main /\ ~(accept_new_connections /\ server = "up")
  <2>1. UNCHANGED <<accepted, pc>>
    BY <1>2 DEF Main, main_poll, accept_new_connections, recv_msg, recv_eof, threadVars
  <2> QED
    BY <2>1 DEF StartInv
<1>3. ASSUME NEW r \in Ranks, Consumer(r)
      PROVE  StartInv'
  <2>1. UNCHANGED accepted
    BY <1>3, ConsumerFrame
  <2>2. pc[r] # "none" /\ \A q \in Ranks \ {r} : pc'[q] = pc[q]
    BY <1>3 DEF Consumer, consumer_test, pop_front, init_WKLDchar, handle_pid, handle_work, handle_func,
     handle_end, wait_turn, take_turn, compare_turns, openMaster, dump, close, consumer_exit, At, Goto, TypeOK
  <2> QED
    BY <2>1, <2>2 DEF StartInv
<1> QED
  BY <1>1, <1>2, <1>3, ClientFrame, ClosingFrame DEF Next, StartInv

\* The set of consumers that are through only grows.
LEMMA MoreTurns ==
    ASSUME \A r \in Ranks : Through(r) => Through(r)'
    PROVE  /\ Turns \in Nat /\ Turns' \in Nat /\ Turns <= Turns'
           /\ \A q \in Ranks : ~Through(q) /\ Through(q)' => Turns + 1 <= Turns'
<1> DEFINE T == {r \in Ranks : Through(r)}
           U == {r \in Ranks : Through(r)'}
<1>1. IsFiniteSet(Ranks)
  BY FS_Interval DEF Ranks
<1>2. IsFiniteSet(T) /\ IsFiniteSet(U)
  BY <1>1, FS_Subset
<1>3. Cardinality(T) \in Nat /\ Cardinality(U) \in Nat
  BY <1>2, FS_CardinalityType
<1>4. T \subseteq U
  OBVIOUS
<1>5. Cardinality(T) <= Cardinality(U)
  BY <1>2, <1>4, FS_Subset
<1>6. ASSUME NEW q \in Ranks, ~Through(q), Through(q)'
      PROVE  Cardinality(T) + 1 <= Cardinality(U)
  <2>1. T # U
    BY <1>6
  <2>2. Cardinality(T) # Cardinality(U)
    BY <1>2, <1>4, <2>1, FS_Subset
  <2> QED
    BY <1>3, <1>5, <2>2
<1>7. Turns = Cardinality(T) /\ Turns' = Cardinality(U)
  BY DEF Turns
<1> QED
  BY <1>3, <1>5, <1>6, <1>7

LEMMA CountStep ==
    ASSUME TypeOK, TypeOK', FreshInv, EventsInv, StartInv, CountInv, [Next]_vars
    PROVE  CountInv'
<1> USE DEF Through, Dumping
<1>0. /\ pc \in [Ranks -> Labels] /\ toDump \in Nat /\ toDump' \in Nat
      /\ counted \in [Ranks -> Nat] /\ \A q \in Ranks : tid[q] \in Nat /\ tid'[q] \in Nat
  <2>1. Ranks \subseteq Nat
    BY DEF Ranks
  <2>2. /\ pc \in [Ranks -> Labels] /\ toDump \in Nat /\ toDump' \in Nat
        /\ counted \in [Ranks -> Nat] /\ tid \in [Ranks -> Ranks] /\ tid' \in [Ranks -> Ranks]
    BY DEF TypeOK
  <2> QED
    BY <2>1, <2>2
<1>1. ASSUME UNCHANGED <<toDump, counted>>,
             \A q \in Ranks :
                /\ Through(q) => Through(q)'
                /\ pc'[q] = "turn" => pc[q] = "turn" /\ tid'[q] = tid[q]
                /\ pc'[q] = "compare" => pc[q] = "compare"
      PROVE  CountInv'
  <2>1. Turns \in Nat /\ Turns' \in Nat /\ Turns <= Turns'
    BY <1>1, MoreTurns
  <2> QED
    BY <1>0, <1>1, <2>1 DEF CountInv
<1>2. CASE UNCHANGED <<toDump, counted, pc, tid>>
  BY <1>1, <1>2
<1>3. ASSUME NEW r \in Ranks, wait_turn(r)
      PROVE  CountInv'
  <2>1. /\ pc[r] = "wait" /\ pc' = [pc EXCEPT ![r] = "turn"] /\ toDump = tid[r]
        /\ UNCHANGED <<tid, toDump, counted>>
    BY <1>3 DEF wait_turn, At, Goto, endVars
  <2>2. Turns \in Nat /\ Turns' \in Nat /\ Turns <= Turns'
    BY <1>0, <2>1, MoreTurns
  <2> QED
    BY <1>0, <2>1, <2>2 DEF CountInv
<1>4. ASSUME NEW r \in Ranks, take_turn(r)
      PROVE  CountInv'
  <2>1. /\ pc[r] = "turn" /\ pc' = [pc EXCEPT ![r] = "compare"] /\ tid' = tid
        /\ \E v \in {toDump, tid[r]} : toDump' = v + 1 /\ counted' = [counted EXCEPT ![r] = v + 1]
    BY <1>4 DEF take_turn, At, Goto
  <2>2. ~Through(r) /\ Through(r)' /\ \A q \in Ranks : Through(q) => Through(q)'
    BY <1>0, <2>1
  <2>3. Turns \in Nat /\ Turns' \in Nat /\ Turns + 1 <= Turns'
    BY <2>2, MoreTurns
  <2>4. toDump <= Turns /\ tid[r] <= Turns
    BY <2>1 DEF CountInv
  <2>5. toDump' <= Turns' /\ counted'[r] <= Turns'
    BY <1>0, <2>1, <2>3, <2>4
  <2>6. \A q \in Ranks \ {r} : pc'[q] = pc[q] /\ counted'[q] = counted[q]
    BY <1>0, <2>1
  <2>7. pc'[r] = "compare"
    BY <1>0, <2>1
  <2> QED
    BY <1>0, <2>1, <2>3, <2>5, <2>6, <2>7 DEF CountInv
<1>5. ASSUME NEW r \in Ranks, Consumer(r), ~wait_turn(r), ~take_turn(r)
      PROVE  CountInv'
  <2>1. UNCHANGED <<toDump, counted>>
    BY <1>5 DEF Consumer, consumer_test, pop_front, init_WKLDchar, handle_pid, handle_work, handle_func,
       handle_end, compare_turns, openMaster, dump, close, consumer_exit, endVars
  <2>2. \A q \in Ranks \ {r} : pc'[q] = pc[q] /\ tid'[q] = tid[q]
    <3>1. \E l : pc' = [pc EXCEPT ![r] = l]
      BY <1>5, Zenon DEF Consumer, consumer_test, pop_front, init_WKLDchar, handle_pid, handle_work,
         handle_func, handle_end, compare_turns, openMaster, dump, close, consumer_exit, Goto
    <3>2. tid' = tid \/ \E t : tid' = [tid EXCEPT ![r] = t]
      BY <1>5, Zenon DEF Consumer, consumer_test, pop_front, init_WKLDchar, handle_pid, handle_work,
         handle_func, handle_end, compare_turns, openMaster, dump, close, consumer_exit
    <3>3. pc \in [Ranks -> Labels] /\ tid \in [Ranks -> Ranks]
      BY DEF TypeOK
    <3> QED
      BY <3>1, <3>2, <3>3
  <2>3. pc'[r] \notin {"turn", "compare"} /\ (Through(r) => Through(r)')
    <3>1. CASE consumer_test(r) \/ pop_front(r)
      <4>1. pc[r] \in {"test", "pop"}
        BY <3>1 DEF consumer_test, pop_front, At
      <4>2. \E l \in {"wait", "pop", "init", "handle"} : pc' = [pc EXCEPT ![r] = l]
        BY <3>1, Zenon DEF consumer_test, pop_front, Goto
      <4> QED
        BY <1>0, <4>1, <4>2
    <3>2. CASE init_WKLDchar(r) \/ handle_pid(r) \/ handle_work(r) \/ handle_func(r) \/ handle_end(r)
      BY <1>0, <3>2 DEF init_WKLDchar, handle_pid, handle_work, handle_func, handle_end, At, Goto
    <3>3. CASE compare_turns(r)
      <4>1. PICK n \in {toDump, counted[r]} :
               pc' = [pc EXCEPT ![r] = IF all_turns_taken(n) THEN "open" ELSE "exit"]
        BY <3>3 DEF compare_turns, Goto
      <4>2. pc'[r] \in {"open", "exit"}
        BY <1>0, <4>1
      <4> QED
        BY <4>2
    <3>4. CASE openMaster(r) \/ dump(r) \/ close(r) \/ consumer_exit(r)
      BY <1>0, <3>4 DEF openMaster, dump, close, consumer_exit, At, Goto
    <3> QED
      BY <1>5, <3>1, <3>2, <3>3, <3>4 DEF Consumer
  <2> QED
    BY <1>1, <2>1, <2>2, <2>3
<1>6. CASE accept_new_connections /\ server = "up"
  <2>1. PICK h \in Ranks \ accepted : /\ pc' = [pc EXCEPT ![h] = "test"]
                                      /\ tid' = [tid EXCEPT ![h] = first_id]
    BY <1>6, AcceptFacts DEF accept_new_connections, accepts
  <2>2. pc[h] = "none" /\ UNCHANGED <<toDump, counted>>
    BY <1>6, <2>1 DEF StartInv, accept_new_connections, endVars
  <2> QED
    BY <1>0, <1>1, <2>1, <2>2 DEF TypeOK
<1>7. CASE Main /\ ~(accept_new_connections /\ server = "up")
  BY <1>2, <1>7 DEF Main, main_poll, accept_new_connections, recv_msg, recv_eof, threadVars, endVars
<1>8. ASSUME (\E r \in Ranks : Client(r)) \/ process_gone \/ UNCHANGED vars
      PROVE  UNCHANGED <<toDump, counted, pc, tid>>
  BY <1>8 DEF Client, init_libanalysis, mpi_update_process_id, send_msg, send_fails, MPI_Finalize,
     process_gone, vars, threadVars, endVars
<1> QED
  BY <1>2, <1>3, <1>4, <1>5, <1>6, <1>7, <1>8 DEF Next
-----------------------------------------------------------------------------
(* The theorems.                                                           *)

LEMMA InvStep == Inv /\ [Next]_vars => Inv'
<1> SUFFICES ASSUME Inv, [Next]_vars PROVE Inv'
  OBVIOUS
<1>1. /\ TypeOK /\ FreshInv /\ EventsInv /\ MapInv /\ RoutedInOrder
      /\ OwnerInv /\ LogInv /\ PrintInv /\ StartInv /\ CountInv
  BY DEF Inv
<1>2. TypeOK' /\ FreshInv' /\ EventsInv' /\ MapInv'
  BY <1>1, TypeStep, FreshStep, EventsStep, MapStep
<1>3. RoutedInOrder' /\ OwnerInv'
  BY <1>1, RouteStep, OwnerStep
<1>4. LogInv'
  BY <1>1, <1>2, <1>3, LogStep
<1>5. PrintInv' /\ StartInv' /\ CountInv'
  BY <1>1, <1>2, PrintStep, StartStep, CountStep
<1> QED
  BY <1>2, <1>3, <1>4, <1>5 DEF Inv

\* Inv, the inductive invariant, holds in every state of the server and its
\* clients, whatever the number of processes and what they send.
THEOREM Invariance == Spec => []Inv
BY InitInv, InvStep, PTL DEF Spec

\* Every variable keeps its type: no index a consumer or the main thread uses
\* for WKLDcharForThreads, threads_data or a queue is out of its range.
THEOREM TypeCorrect == Spec => []TypeOK
<1>1. Inv => TypeOK
  BY DEF Inv
<1> QED
  BY <1>1, Invariance, PTL

\* recv_msg and pop_front deliver each connection's messages to its own
\* consumer, all of them and in order, while no descriptor is reused.
THEOREM Routed == Spec => []RoutedInOrder
<1>1. Inv => RoutedInOrder
  BY DEF Inv
<1> QED
  BY <1>1, Invariance, PTL

\* The consumers, which share WKLDcharForThreads without a lock, never mix
\* two ranks' notifications in a slot and never reorder them.
THEOREM Isolated == Spec => []Isolation
<1>1. Inv => Isolation
  BY DEF Inv, LogInv, Logged, Unbroken, Isolation
<1> QED
  BY <1>1, Invariance, PTL

\* A connection's stop bit is set only by the END_APP of the rank it stands
\* for: push_back clears the garbage behind the vector's end before the bit
\* counts, and thread_id is the rank by the time END_APP is handled.
THEOREM StopsJustified == Spec => []StopJustified
<1>1. Init => StopJustified
  BY DEF Init, StopJustified
<1>2. Inv /\ StopJustified /\ [Next]_vars => StopJustified'
  BY StopStep DEF Inv
<1> QED
  BY <1>1, <1>2, Invariance, PTL DEF Spec

\* A re-initialised slot and a file written while others work lack the
\* beginning or the end of what a rank sent, never a part in between.
THEOREM Gapless == Spec => []NoGaps
<1>1. Inv => NoGaps
  BY DEF Inv, LogInv, Logged, PrintInv, NoGaps
<1> QED
  BY <1>1, Invariance, PTL

\* The consumers' turns, counted without a lock and under ids that may be
\* another rank's, are never counted ahead: who finds that all turns are taken
\* dumps when no consumer of an accepted connection is at work.
THEOREM DumpsAfterWork == Spec => DumpAfterWork
<1>1. ASSUME Inv, NEW r \in Ranks, compare_turns(r), pc'[r] = "open"
      PROVE  \A q \in accepted : Through(q)
  <2> DEFINE T == {q \in Ranks : Through(q)}
  <2>1. pc \in [Ranks -> Labels] /\ pc[r] = "compare" /\ accepted \subseteq Ranks
        /\ thread_counter \in Nat
    BY <1>1 DEF Inv, TypeOK, compare_turns, At
  <2>2. toDump = thread_counter \/ counted[r] = thread_counter
    BY <1>1, <2>1 DEF compare_turns, Goto, all_turns_taken
  <2>3. thread_counter <= Turns /\ thread_counter = Cardinality(accepted)
    BY <1>1, <2>1, <2>2 DEF Inv, CountInv, FreshInv
  <2>4. T \subseteq accepted
    BY <1>1 DEF Inv, StartInv, Through, Dumping
  <2>5. IsFiniteSet(accepted)
    <3>1. IsFiniteSet(Ranks)
      BY FS_Interval DEF Ranks
    <3> QED
      BY <2>1, <3>1, FS_Subset
  <2>6. Cardinality(T) <= Cardinality(accepted) /\ Cardinality(T) \in Nat
    BY <2>4, <2>5, FS_Subset, FS_CardinalityType
  <2>7. Cardinality(T) = Cardinality(accepted)
    BY <2>1, <2>3, <2>6 DEF Turns
  <2>8. T = accepted
    BY <2>4, <2>5, <2>7, FS_Subset
  <2> QED
    BY <2>8
<1>2. ASSUME Inv, [Next]_vars, NEW r \in Ranks, pc[r] = "compare", pc'[r] = "open"
      PROVE  compare_turns(r)
  <2>1. pc \in [Ranks -> Labels]
    BY <1>2 DEF Inv, TypeOK
  <2>2. CASE \E q \in Ranks : Consumer(q)
    <3>1. PICK q \in Ranks : Consumer(q)
      BY <2>2
    <3>2. q = r
      BY <1>2, <2>1, <3>1 DEF Consumer, consumer_test, pop_front, init_WKLDchar, handle_pid, handle_work, handle_func,
     handle_end, wait_turn, take_turn, compare_turns, openMaster, dump, close, consumer_exit, Goto
    <3> QED
      BY <1>2, <2>1, <3>1, <3>2 DEF Consumer, consumer_test, pop_front, init_WKLDchar, handle_pid, handle_work, handle_func,
     handle_end, wait_turn, take_turn, compare_turns, openMaster, dump, close, consumer_exit, At, Goto
  <2>3. CASE accept_new_connections /\ server = "up"
    BY <1>2, <2>1, <2>3 DEF accept_new_connections, accepts
  <2>4. CASE Main /\ ~(accept_new_connections /\ server = "up")
    BY <1>2, <2>4 DEF Main, main_poll, accept_new_connections, recv_msg, recv_eof, threadVars
  <2> QED
    BY <1>2, <2>2, <2>3, <2>4, ClientFrame, ClosingFrame DEF Next
<1>3. Inv /\ [Next]_vars =>
         [\A r \in Ranks : pc[r] = "compare" /\ pc'[r] = "open" =>
             \A q \in accepted : Through(q)]_vars
  BY <1>1, <1>2
<1> QED
  BY <1>3, Invariance, PTL DEF Spec, DumpAfterWork
-----------------------------------------------------------------------------
(* A server for one process dumps all that the process sent before it ends,   *)
(* whatever the process sends.                                                *)

\* Needed above only.
HIDE NAssumption

\* One process: one rank, whose id is right from the start.
LEMMA Alone ==
    ASSUME N = 1, TypeOK
    PROVE  /\ Ranks = {0} /\ FdsDistinct /\ tid[0] = 0
           /\ accepted = {} \/ accepted = {0}
<1>1. Ranks = {0}
  BY DEF Ranks
<1> QED
  BY <1>1 DEF TypeOK, FdsDistinct

\* What the invariant gives once no descriptor was reused.
LEMMA Known ==
    ASSUME Inv, FdsDistinct, NEW r \in Ranks
    PROVE  /\ TypeOK /\ FreshInv /\ EventsInv /\ StartInv
           /\ InOrder(r) /\ Owned(r) /\ Logged(r)
           /\ r \notin accepted => taken[r] = 0
<1>1. TypeOK /\ FreshInv /\ EventsInv /\ StartInv /\ InOrder(r) /\ Owned(r) /\ Logged(r)
  BY DEF Inv, RoutedInOrder, OwnerInv, LogInv
<1>2. r \notin accepted => taken[r] = 0
  BY <1>1 DEF FreshInv, InOrder, TypeOK
<1> QED BY <1>1, <1>2

\* The one connection is accepted once.
LEMMA SingleAccept ==
    ASSUME N = 1, Inv, accept_new_connections, server = "up"
    PROVE  /\ accepted = {} /\ accepted' = {0} /\ pc[0] = "none"
           /\ pc' = [pc EXCEPT ![0] = "test"]
           /\ UNCHANGED <<taken, word, profileVars, endVars>>
<1>1. TypeOK /\ FreshInv /\ EventsInv /\ StartInv /\ NextEvent(Listen)
  BY DEF Inv, accept_new_connections
<1>2. Head(backlog) \in Ranks \ accepted /\ accepts(Head(backlog))
  BY <1>1, AcceptFacts DEF accept_new_connections
<1>3. Head(backlog) = 0 /\ accepted = {}
  BY <1>1, <1>2, Alone
<1> QED
  BY <1>1, <1>2, <1>3, Alone DEF accepts, accept_new_connections, StartInv

LEMMA SentStep ==
    ASSUME TypeOK, SentInv, [Next]_vars
    PROVE  SentInv'
<1> DEFINE Good(r) == /\ client[r] \in {"init", "connected"} => sent[r] = 0
                      /\ client[r] \in {"running", "ended", "closed"} => sent[r] > 0
                      /\ sent[r] <= Len(Script[r]) + 1
<1>0. \A r \in Ranks : Good(r) /\ sent[r] \in Nat /\ Len(Script[r]) \in Nat
  BY ScriptAssumption DEF SentInv, TypeOK
<1>1. ASSUME UNCHANGED <<client, sent>>
      PROVE  SentInv'
  BY <1>1 DEF SentInv
<1>2. ASSUME NEW r \in Ranks, Client(r), NEW q \in Ranks
      PROVE  Good(q)'
  <2>1. client \in [Ranks -> ClientStates] /\ sent \in [Ranks -> Nat]
    BY DEF TypeOK
  <2>2. CASE init_libanalysis(r) \/ send_fails(r) \/ MPI_Finalize(r)
    BY <1>0, <2>1, <2>2 DEF init_libanalysis, send_fails, MPI_Finalize
  <2>3. CASE mpi_update_process_id(r)
    BY <1>0, <2>1, <2>3 DEF mpi_update_process_id
  <2>4. CASE send_msg(r)
    <3>1. after_send(Script[r][sent[r]]) \in {"running", "ended", "closed"}
      BY DEF after_send
    <3> QED
      BY <1>0, <2>1, <2>4, <3>1 DEF send_msg
  <2> QED
    BY <1>2, <2>2, <2>3, <2>4 DEF Client
<1>3. ASSUME NEW r \in Ranks, Client(r)
      PROVE  SentInv'
  BY <1>2, <1>3 DEF SentInv
<1> QED
  BY <1>1, <1>3, MainFrame, ConsumerFrame, ClosingFrame DEF Next

\* The message a consumer pops, and the id it handles it with.
LEMMA Popped ==
    ASSUME N = 1, Inv, NEW r \in Ranks, pop_front(r)
    PROVE  /\ front(queue[r]) = <<r, taken[r]>> /\ id_after(r, front(queue[r])) = r
           /\ taken' = [taken EXCEPT ![r] = @ + 1]
           /\ UNCHANGED <<should_stop, profileVars, endVars>>
           /\ LET init == needs_init(<<r, taken[r]>>, r)
              IN  /\ word' = [word EXCEPT ![r] = IF init THEN InitializedThreads ELSE @]
                  /\ pc' = [pc EXCEPT ![r] = IF init THEN "init" ELSE "handle"]
<1>0. TypeOK
  BY DEF Inv
<1>1. TypeOK /\ InOrder(r) /\ tid[r] = r
  BY <1>0, Alone, Known
<1>2. queue[r] \in Seq(Messages) /\ queue[r] # <<>>
  BY <1>1 DEF pop_front, TypeOK
<1>3. queue[r][1] = <<r, taken[r] + 1 - 1>> /\ taken[r] \in Nat
  BY <1>1, <1>2, TailFacts DEF InOrder, TypeOK
<1>4. front(queue[r]) = <<r, taken[r]>>
  BY <1>2, <1>3, TailFacts DEF front
<1>5. id_after(r, front(queue[r])) = r
  BY <1>1, <1>4 DEF id_after
<1> QED
  BY <1>4, <1>5 DEF pop_front, Goto

LEMMA MarkStep ==
    ASSUME N = 1, Inv, MarkInv, [Next]_vars
    PROVE  MarkInv'
<1>0. TypeOK /\ Ranks = {0} /\ FdsDistinct
  BY Alone DEF Inv
<1>1. CASE accept_new_connections /\ server = "up"
  <2>1. /\ 0 \notin accepted /\ pc' = [pc EXCEPT ![0] = "test"]
        /\ UNCHANGED <<taken, word, InitializedThreads>>
    BY <1>1, SingleAccept DEF profileVars
  <2>2. taken[0] = 0
    BY <1>0, <2>1, Known
  <2> QED
    BY <1>0, <2>1, <2>2 DEF MarkInv, TypeOK
<1>2. CASE UNCHANGED <<pc, taken, word, InitializedThreads>>
  BY <1>2 DEF MarkInv
<1>3. CASE Main
  <2>1. CASE ~(accept_new_connections /\ server = "up")
    BY <1>2, <1>3, <2>1 DEF Main, main_poll, accept_new_connections, recv_msg, recv_eof, threadVars, profileVars
  <2> QED BY <1>1, <2>1
<1>4. ASSUME NEW r \in Ranks, pop_front(r)
      PROVE  MarkInv'
  <2> DEFINE init == needs_init(<<r, taken[r]>>, r)
  <2>1. /\ taken' = [taken EXCEPT ![r] = @ + 1] /\ UNCHANGED InitializedThreads
        /\ word' = [word EXCEPT ![r] = IF init THEN InitializedThreads ELSE @]
        /\ pc' = [pc EXCEPT ![r] = IF init THEN "init" ELSE "handle"]
        /\ pc[r] = "pop"
    BY <1>4, Popped DEF profileVars, pop_front, At
  <2>2. taken[r] \in Nat /\ (taken[r] > 0 => r \in InitializedThreads)
    BY <1>0, <2>1 DEF MarkInv, TypeOK
  <2>3. init => taken[r] = 0
    BY <2>2 DEF needs_init
  <2>4. ~init => r \in InitializedThreads
    BY <2>2 DEF needs_init, TypeOf
  <2> HIDE DEF init
  <2> QED
    BY <1>0, <2>1, <2>2, <2>3, <2>4 DEF MarkInv, TypeOK
<1>5. ASSUME NEW r \in Ranks, init_WKLDchar(r)
      PROVE  MarkInv'
  <2>1. /\ pc[r] = "init" /\ pc' = [pc EXCEPT ![r] = "handle"] /\ UNCHANGED taken
        /\ word' = [word EXCEPT ![r] = {}] /\ InitializedThreads' = InitializedThreads \cup {tid[r]}
    BY <1>5 DEF init_WKLDchar, At, Goto, MarkInv
  <2>2. tid[r] = r
    BY <1>0, Alone
  <2>3. \A q \in Ranks : q = r
    BY <1>0
  <2> QED
    BY <1>0, <2>1, <2>2, <2>3 DEF MarkInv, TypeOK
<1>6. ASSUME NEW r \in Ranks, Consumer(r), ~pop_front(r), ~init_WKLDchar(r)
      PROVE  MarkInv'
  <2>1. /\ UNCHANGED <<taken, word, InitializedThreads>> /\ pc[r] # "init" /\ pc'[r] # "init"
        /\ \A q \in Ranks \ {r} : pc'[q] = pc[q]
    BY <1>0, <1>6, SMTT(30) DEF Consumer, At, Goto, consumer_test, handle_pid, handle_work, handle_func,
       handle_end, wait_turn, take_turn, compare_turns, openMaster, dump, close, consumer_exit, profileVars, TypeOK
  <2> QED
    BY <2>1 DEF MarkInv
<1>7. ASSUME (\E r \in Ranks : Client(r)) \/ process_gone \/ UNCHANGED vars
      PROVE  UNCHANGED <<pc, taken, word, InitializedThreads>>
  BY <1>7 DEF Client, init_libanalysis, mpi_update_process_id, send_msg, send_fails, MPI_Finalize,
     process_gone, vars, threadVars, profileVars
<1> QED
  BY <1>2, <1>3, <1>4, <1>5, <1>6, <1>7 DEF Next

Recorded(r) ==
    /\ Analysable(r) > 0 => WKLDcharForThreads[r].processor = r
    /\ \A k \in 1..Analysable(r) - 1 : Analysed(<<r, k>>) =>
          \E i \in 1..Len(WKLDcharForThreads[r].log) : WKLDcharForThreads[r].log[i] = <<r, k>>

LEMMA RecordParts == RecordInv <=> \A r \in Ranks : Recorded(r)
BY DEF RecordInv, Recorded

\* A message in a handler is of its rank, and the number 0 is the process id.
LEMMA InHand ==
    ASSUME N = 1, Inv, SentInv, NEW r \in Ranks, Handling(r)
    PROVE  /\ tid[r] = r /\ taken[r] \in Nat \ {0} /\ msg[r] = <<r, taken[r] - 1>>
           /\ Analysable(r) = taken[r] - 1
           /\ TypeOf(msg[r]) = "PID" <=> taken[r] = 1
           /\ WKLDcharForThreads[r].log \in Seq(Messages) /\ WKLDcharForThreads[r] \in Profiles
<1>0. TypeOK
  BY DEF Inv
<1>1. TypeOK /\ Owned(r) /\ InOrder(r)
  BY <1>0, Alone, Known
<1>2. tid[r] = r /\ taken[r] \in Nat \ {0} /\ msg[r] = <<r, taken[r] - 1>> /\ Analysable(r) = taken[r] - 1
  BY <1>1 DEF Owned, TypeOK, Analysable
<1>3. WKLDcharForThreads[r] \in Profiles /\ WKLDcharForThreads[r].log \in Seq(Messages)
  BY <1>1 DEF TypeOK, Profiles
<1>4. ASSUME taken[r] # 1 PROVE TypeOf(msg[r]) # "PID"
  <2>1. taken[r] <= rcvd[r] /\ rcvd[r] <= sent[r] /\ rcvd[r] \in Nat /\ sent[r] \in Nat
    BY <1>1 DEF InOrder, TypeOK
  <2>2. sent[r] <= Len(Script[r]) + 1 /\ Len(Script[r]) \in Nat /\ Script[r] \in Seq(ScriptTypes)
    BY ScriptAssumption DEF SentInv
  <2>3. taken[r] - 1 \in 1..Len(Script[r])
    BY <1>2, <1>4, <2>1, <2>2
  <2>4. Script[r][taken[r] - 1] \in ScriptTypes
    BY <2>2, <2>3
  <2> QED
    BY <1>2, <1>4, <2>4 DEF TypeOf, ScriptTypes
<1> QED
  BY <1>2, <1>3, <1>4 DEF TypeOf

\* A handler that is through with its message.
LEMMA RecordHandled ==
    ASSUME N = 1, Inv, Inv', SentInv, NEW r \in Ranks, Recorded(r),
           handle_pid(r) \/ handle_work(r) \/ handle_func(r) \/ handle_end(r)
    PROVE  Recorded(r)'
<1> DEFINE p == WKLDcharForThreads[r]
           n == taken[r]
<1>1. pc[r] = "handle" /\ taken' = taken /\ pc'[r] \in {"test", "dead"} /\ pc \in [Ranks -> Labels]
  BY DEF handle_pid, handle_work, handle_func, handle_end, At, Goto, Inv, TypeOK
<1>2. Handling(r)
  BY <1>1 DEF Handling
<1>3. /\ tid[r] = r /\ n \in Nat \ {0} /\ msg[r] = <<r, n - 1>> /\ Analysable(r) = n - 1
      /\ TypeOf(msg[r]) = "PID" <=> n = 1
      /\ p.log \in Seq(Messages) /\ p \in Profiles
  BY <1>2, InHand
<1>4. Analysable(r)' = n
  BY <1>1 DEF Analysable, Handling
<1>5. WKLDcharForThreads \in [Ranks -> Profiles]
  BY DEF Inv, TypeOK
<1>6. CASE handle_pid(r)
  <2>1. n = 1 /\ WKLDcharForThreads'[r] = [processor |-> r, log |-> p.log]
    BY <1>3, <1>5, <1>6 DEF handle_pid
  <2>2. p'.processor = r /\ p'.log = p.log
    BY <2>1
  <2> QED
    BY <1>4, <2>1, <2>2 DEF Recorded
<1>7. CASE handle_work(r)
  <2>1. WKLDcharForThreads'[r] = [processor |-> p.processor, log |-> Append(p.log, <<r, n - 1>>)]
    BY <1>3, <1>5, <1>7 DEF handle_work
  <2>2. Analysed(<<r, n - 1>>) /\ TypeOf(msg[r]) # "PID"
    BY <1>3, <1>7 DEF handle_work, Analysed
  <2>3. n > 1 /\ p.processor = r
    BY <1>3, <2>2 DEF Recorded
  <2> DEFINE e == <<r, n - 1>>
  <2>4. e \in Messages
    BY <1>3, <2>3 DEF Messages
  <2> HIDE DEF e
  <2>5. p'.processor = r /\ p'.log = Append(p.log, e)
    BY <2>1, <2>3 DEF e
  <2>6. /\ Len(p'.log) = Len(p.log) + 1 /\ Len(p.log) \in Nat
        /\ p'.log[Len(p.log) + 1] = e
        /\ \A i \in 1..Len(p.log) : p'.log[i] = p.log[i]
    BY <1>3, <2>4, <2>5, AppendFacts
  <2> HIDE DEF p
  <2>8. ASSUME NEW k \in 1..n - 1, Analysed(<<r, k>>)
        PROVE  \E i \in 1..Len(p'.log) : p'.log[i] = <<r, k>>
    <3>1. CASE k = n - 1
      BY <2>6, <3>1, SMTT(30) DEF e
    <3>2. CASE k # n - 1
      <4>1. k \in 1..Analysable(r) - 1
        BY <1>3, <3>2
      <4>2. PICK i \in 1..Len(p.log) : p.log[i] = <<r, k>>
        BY <2>8, <4>1 DEF Recorded, p
      <4> QED BY <2>6, <4>2, SMTT(30)
    <3> QED BY <3>1, <3>2
  <2> QED
    BY <1>4, <2>5, <2>8 DEF Recorded, p
<1>8. CASE handle_func(r) \/ handle_end(r)
  <2>1. WKLDcharForThreads' = WKLDcharForThreads /\ TypeOf(msg[r]) \in {"FUNC", "END"}
    BY <1>8 DEF handle_func, handle_end, profileVars
  <2>2. ~Analysed(<<r, n - 1>>) /\ n > 1
    BY <1>3, <2>1 DEF Analysed
  <2>3. \A k \in 1..n - 1 : k \in 1..Analysable(r) - 1 \/ k = n - 1
    BY <1>3
  <2>4. p.processor = r
    BY <1>3, <2>2 DEF Recorded
  <2>5. \A k \in 1..n - 1 : Analysed(<<r, k>>) => \E i \in 1..Len(p.log) : p.log[i] = <<r, k>>
    BY <2>2, <2>3 DEF Recorded
  <2> QED
    BY <1>4, <2>1, <2>4, <2>5 DEF Recorded
<1> QED
  BY <1>6, <1>7, <1>8

LEMMA RecordStep ==
    ASSUME N = 1, Inv, Inv', SentInv, MarkInv, RecordInv, [Next]_vars
    PROVE  RecordInv'
<1>0. TypeOK /\ Ranks = {0} /\ \A r \in Ranks : Recorded(r)
  BY RecordParts, Alone DEF Inv
<1>P. (\A r \in Ranks : Recorded(r)') => RecordInv'
  BY DEF RecordInv, Recorded
<1>1. ASSUME NEW q \in Ranks, Analysable(q)' = Analysable(q), WKLDcharForThreads'[q] = WKLDcharForThreads[q]
      PROVE  Recorded(q)'
  BY <1>0, <1>1 DEF Recorded
<1>2. CASE UNCHANGED <<pc, taken, WKLDcharForThreads>>
  BY <1>P, <1>1, <1>2 DEF Analysable, Handling
<1>3. CASE Main
  <2>1. CASE accept_new_connections /\ server = "up"
    <3>1. /\ pc' = [pc EXCEPT ![0] = "test"] /\ pc[0] = "none"
          /\ UNCHANGED <<taken, WKLDcharForThreads>>
      BY <2>1, SingleAccept DEF profileVars
    <3>3. \A q \in Ranks : Analysable(q)' = Analysable(q)
      BY <1>0, <3>1 DEF Analysable, Handling, TypeOK
    <3> QED
      BY <1>P, <1>1, <3>1, <3>3
  <2>2. CASE ~(accept_new_connections /\ server = "up")
    BY <1>2, <1>3, <2>2 DEF Main, main_poll, accept_new_connections, recv_msg, recv_eof, threadVars, profileVars
  <2> QED BY <2>1, <2>2
<1>4. ASSUME NEW r \in Ranks, Consumer(r)
      PROVE  RecordInv'
  <2>0. tid[r] = r
    BY <1>0, Alone
  <2>3. SUFFICES Recorded(r)'
    BY <1>P, <1>0
  <2>4. CASE pop_front(r)
    <3>1. pc[r] = "pop" /\ pc'[r] \in {"init", "handle"} /\ taken'[r] = taken[r] + 1 /\ taken[r] \in Nat
          /\ WKLDcharForThreads' = WKLDcharForThreads
      BY <1>0, <2>4 DEF pop_front, At, Goto, TypeOK, profileVars
    <3>2. Analysable(r)' = Analysable(r)
      BY <3>1 DEF Analysable, Handling
    <3> QED BY <1>1, <3>1, <3>2
  <2>5. CASE init_WKLDchar(r)
    <3>1. pc[r] = "init" /\ pc'[r] = "handle" /\ taken' = taken
          /\ WKLDcharForThreads'[r].log = <<>>
      BY <1>0, <2>0, <2>5 DEF init_WKLDchar, At, Goto, TypeOK
    <3>2. taken[r] = 1
      BY <3>1 DEF MarkInv
    <3>3. Analysable(r)' = 0
      BY <3>1, <3>2 DEF Analysable, Handling
    <3> QED BY <3>1, <3>3 DEF Recorded
  <2>6. CASE handle_pid(r) \/ handle_work(r) \/ handle_func(r) \/ handle_end(r)
    BY <1>0, <2>6, RecordHandled
  <2>7. CASE \/ consumer_test(r) \/ wait_turn(r) \/ take_turn(r) \/ compare_turns(r)
             \/ openMaster(r) \/ dump(r) \/ close(r) \/ consumer_exit(r)
    <3>1. pc[r] \notin {"init", "handle"} /\ pc'[r] \notin {"init", "handle"}
          /\ UNCHANGED <<taken, WKLDcharForThreads>>
      BY <1>0, <2>7 DEF consumer_test, wait_turn, take_turn, compare_turns, openMaster, dump, close, consumer_exit, At, Goto,
         TypeOK, profileVars
    <3>2. Analysable(r)' = Analysable(r)
      BY <3>1 DEF Analysable, Handling
    <3> QED BY <1>1, <3>1, <3>2
  <2> QED
    BY <1>4, <2>4, <2>5, <2>6, <2>7 DEF Consumer
<1>5. ASSUME (\E r \in Ranks : Client(r)) \/ process_gone \/ UNCHANGED vars
      PROVE  UNCHANGED <<pc, taken, WKLDcharForThreads>>
  BY <1>5, ClientFrame, ClosingFrame
<1> QED
  BY <1>2, <1>3, <1>4, <1>5 DEF Next

LEMMA TurnStep ==
    ASSUME N = 1, Inv, TurnInv, [Next]_vars
    PROVE  TurnInv'
<1>0. TypeOK /\ Ranks = {0} /\ tid[0] = 0
  BY Alone DEF Inv
<1>T. pc \in [Ranks -> Labels] /\ counted \in [Ranks -> Nat] /\ 0 \in Ranks
  BY <1>0 DEF TypeOK
<1>1. CASE UNCHANGED <<pc, toDump, counted, should_stop>>
  BY <1>1 DEF TurnInv
<1>2. CASE accept_new_connections /\ server = "up"
  <2>1. pc'[0] = "test"
    BY <1>2, <1>T, SingleAccept
  <2> QED
    BY <2>1 DEF TurnInv, Dumping
<1>3. CASE Main /\ ~(accept_new_connections /\ server = "up")
  BY <1>1, <1>3 DEF Main, main_poll, accept_new_connections, recv_msg, recv_eof, threadVars, endVars
<1>4. CASE consumer_test(0)
  <2>1. pc'[0] = (IF 0 \in should_stop THEN "wait" ELSE "pop") /\ UNCHANGED should_stop
    BY <1>0, <1>T, <1>4 DEF consumer_test, Goto
  <2> QED
    BY <2>1 DEF TurnInv, Dumping
<1>5. CASE wait_turn(0)
  <2>1. pc[0] = "wait" /\ pc'[0] = "turn" /\ toDump = 0 /\ UNCHANGED <<toDump, should_stop>>
    BY <1>0, <1>T, <1>5 DEF wait_turn, At, Goto, endVars
  <2> QED
    BY <2>1 DEF TurnInv, Dumping
<1>6. CASE take_turn(0)
  <2>1. pc[0] = "turn" /\ pc'[0] = "compare" /\ UNCHANGED should_stop
    BY <1>0, <1>T, <1>6 DEF take_turn, At, Goto
  <2>2. toDump = 0 /\ 0 \in should_stop
    BY <2>1 DEF TurnInv
  <2>3. toDump' = 1 /\ counted'[0] = 1
    BY <1>0, <1>T, <1>6, <2>2 DEF take_turn
  <2> QED
    BY <2>1, <2>2, <2>3 DEF TurnInv, Dumping
<1>7. CASE compare_turns(0) \/ openMaster(0) \/ dump(0) \/ close(0)
  <2>1. pc[0] \in Dumping /\ pc'[0] # "turn" /\ UNCHANGED <<toDump, counted, should_stop>>
    BY <1>T, <1>7 DEF compare_turns, openMaster, dump, close, At, Goto, Dumping, endVars
  <2> QED
    BY <2>1 DEF TurnInv, Dumping
<1>8. CASE pop_front(0) \/ init_WKLDchar(0) \/ handle_pid(0) \/ handle_work(0) \/ handle_func(0)
           \/ handle_end(0) \/ consumer_exit(0)
  <2>1. pc'[0] \notin {"wait", "turn"} \cup Dumping
    BY <1>T, <1>8 DEF pop_front, init_WKLDchar, handle_pid, handle_work, handle_func, handle_end,
       consumer_exit, Goto, Dumping
  <2> QED
    BY <2>1 DEF TurnInv, Dumping
<1>9. ASSUME NEW r \in Ranks, Consumer(r)
      PROVE  TurnInv'
  BY <1>0, <1>4, <1>5, <1>6, <1>7, <1>8, <1>9 DEF Consumer
<1>10. ASSUME (\E r \in Ranks : Client(r)) \/ process_gone \/ UNCHANGED vars
       PROVE  UNCHANGED <<pc, toDump, counted, should_stop>>
  BY <1>10 DEF Client, init_libanalysis, mpi_update_process_id, send_msg, send_fails, MPI_Finalize,
     process_gone, vars, threadVars, endVars
<1> QED
  BY <1>1, <1>2, <1>3, <1>9, <1>10 DEF Next

\* The slot of a rank that has stopped is marked and complete.
LEMMA StoppedComplete ==
    ASSUME N = 1, Inv, StopJustified, SentInv, MarkInv, RecordInv,
           NEW q \in accepted \cap should_stop
    PROVE  q \in InitializedThreads /\ Complete(q, WKLDcharForThreads[q])
<1> DEFINE log == WKLDcharForThreads[q].log
           L == Len(Script[q])
<1>0. TypeOK /\ FdsDistinct /\ q \in Ranks /\ q = 0 /\ accepted = {0}
  BY Alone DEF Inv, TypeOK
<1>1. Recorded(q) /\ InOrder(q) /\ Owned(q) /\ Logged(q)
  BY <1>0, Known, RecordParts
<1>2. PICK k \in 1..(taken[q] - 1) : Script[q][k] = "END"
  <2>1. thread_counter = 1
    BY <1>0, FS_Singleton DEF Inv, FreshInv
  <2> QED
    BY <1>0, <2>1 DEF StopJustified
<1>3. /\ taken[q] \in Nat /\ taken[q] <= sent[q] /\ sent[q] \in Nat /\ sent[q] <= L + 1
      /\ L \in Nat /\ Script[q] \in Seq(ScriptTypes)
  BY <1>0, <1>1, ScriptAssumption DEF InOrder, TypeOK, SentInv
<1>4. k = L /\ taken[q] = L + 1 /\ L > 0
  BY <1>0, <1>2, <1>3, EndAssumption
<1>5. Analysable(q) \in {L, L + 1}
  BY <1>4 DEF Analysable
<1>6. q \in InitializedThreads
  BY <1>0, <1>2, <1>3, <1>4 DEF MarkInv
<1>7. WKLDcharForThreads[q].processor = q
  BY <1>1, <1>3, <1>4, <1>5 DEF Recorded
<1>8. log \in Seq(Messages) /\ Len(log) \in Nat
  BY <1>0 DEF TypeOK, Profiles
<1>9. ASSUME NEW i \in 1..Len(log)
      PROVE  log[i] \in Expected(q)
  <2>1. log[i] \in Ranks \X Nat /\ log[i][1] = q /\ log[i][2] < Analysable(q) /\ Analysed(log[i])
    BY <1>1, <1>8 DEF Logged, Unbroken, Messages
  <2>2. log[i] = <<q, log[i][2]>> /\ log[i][2] \in Nat
    BY <2>1
  <2>3. log[i][2] # 0
    BY <2>1 DEF Analysed, TypeOf
  <2>4. log[i][2] \in 1..L
    BY <1>3, <1>5, <2>1, <2>2, <2>3, SMTT(30)
  <2>5. Analysed(<<q, log[i][2]>>)
    BY <2>1, <2>2
  <2> QED
    BY <2>2, <2>4, <2>5 DEF Expected
<1>10. ASSUME NEW e \in Expected(q)
       PROVE  \E i \in 1..Len(log) : log[i] = e
  <2>1. PICK j \in 1..L : e = <<q, j>> /\ Analysed(<<q, j>>)
    BY DEF Expected
  <2>2. j # L
    BY <1>2, <1>4, <2>1 DEF Analysed, TypeOf
  <2>3. j \in 1..Analysable(q) - 1
    BY <1>3, <1>5, <2>2
  <2> QED
    BY <1>1, <2>1, <2>3 DEF Recorded
<1>11. {log[i] : i \in 1..Len(log)} = Expected(q)
  BY <1>9, <1>10
<1> QED
  BY <1>1, <1>6, <1>7, <1>11 DEF Complete, Logged, Unbroken

LEMMA FileStep ==
    ASSUME N = 1, Inv, StopJustified, SentInv, MarkInv, RecordInv, TurnInv, FileInv, [Next]_vars
    PROVE  FileInv'
<1>0. TypeOK /\ Ranks = {0}
  BY Alone DEF Inv
<1>T. pc \in [Ranks -> Labels] /\ 0 \in Ranks /\ DOMAIN buffer = Ranks
  BY <1>0 DEF TypeOK
<1>1. CASE /\ UNCHANGED <<file, written, buffer, server>>
           /\ server = "up" \/ UNCHANGED pc
           /\ pc'[0] \in {pc[0], "none", "test", "pop", "init", "handle", "wait", "turn", "compare",
                          "open", "dead"}
  BY <1>1 DEF FileInv, DumpsComplete, Complete
<1>2. CASE openMaster(0)
  <2>1. pc[0] = "open" /\ file' = "empty" /\ pc'[0] = "print" /\ UNCHANGED server
    BY <1>T, <1>2 DEF openMaster, At, Goto
  <2>2. server = "up"
    BY <2>1 DEF FileInv
  <2> QED
    BY <2>1, <2>2 DEF FileInv, DumpsComplete
<1>3. CASE dump(0)
  <2>1. pc[0] = "print" /\ pc'[0] = "close" /\ UNCHANGED <<file, written, server>>
        /\ buffer'[0] = [t \in InitializedThreads |-> WKLDcharForThreads[t]]
    <3> DEFINE slots == [t \in InitializedThreads |-> WKLDcharForThreads[t]]
    <3>1. buffer' = [buffer EXCEPT ![0] = slots]
      BY <1>3 DEF dump
    <3> HIDE DEF slots
    <3>2. buffer'[0] = slots
      BY <1>T, <3>1
    <3>3. pc[0] = "print" /\ pc'[0] = "close" /\ UNCHANGED <<file, written, server>>
      BY <1>T, <1>3 DEF dump, At, Goto
    <3> QED
      BY <3>2, <3>3 DEF slots
  <2>2. 0 \in should_stop /\ 0 \in accepted
    <3>1. 0 \in should_stop
      BY <2>1 DEF TurnInv, Dumping
    <3> QED
      BY <1>T, <2>1, <3>1 DEF Inv, StartInv
  <2>3. 0 \in InitializedThreads /\ Complete(0, WKLDcharForThreads[0])
    BY <2>2, StoppedComplete
  <2>4. InitializedThreads = Ranks
    BY <1>0, <2>3 DEF TypeOK
  <2>5. DOMAIN buffer'[0] = Ranks /\ Complete(0, buffer'[0][0])
    BY <1>T, <2>1, <2>3, <2>4
  <2>6. server = "up" /\ file = "empty"
    BY <2>1 DEF FileInv
  <2> QED
    BY <2>1, <2>5, <2>6 DEF FileInv, DumpsComplete, Complete
<1>4. CASE close(0)
  <2>1. pc[0] = "close" /\ pc'[0] = "exit" /\ UNCHANGED <<buffer, server>> /\ written' = buffer[0]
    BY <1>T, <1>4 DEF close, At, Goto
  <2>2. server = "up" /\ file = "empty" /\ DOMAIN buffer[0] = Ranks /\ Complete(0, buffer[0][0])
    BY <2>1 DEF FileInv
  <2>3. file' = "written"
    BY <1>4, <2>2 DEF close
  <2> QED
    BY <1>0, <2>1, <2>2, <2>3 DEF FileInv, DumpsComplete, Complete
<1>5. CASE compare_turns(0)
  <2>1. pc[0] = "compare" /\ UNCHANGED endVars
    BY <1>5 DEF compare_turns, At
  <2>2. toDump = 1 /\ counted[0] = 1 /\ 0 \in accepted
    BY <1>T, <2>1 DEF TurnInv, Dumping, Inv, StartInv
  <2>3. accepted = {0}
    BY <1>0, <2>2 DEF TypeOK
  <2>4. thread_counter = 1
    BY <2>3, FS_Singleton DEF Inv, FreshInv
  <2>5. pc'[0] = "open"
    BY <1>T, <1>5, <2>2, <2>4 DEF compare_turns, Goto, all_turns_taken
  <2>6. server = "up"
    BY <2>1 DEF FileInv
  <2> QED
    BY <1>1, <2>1, <2>5, <2>6 DEF endVars
<1>6. CASE consumer_exit(0)
  <2>1. pc[0] = "exit" /\ pc'[0] = "dead" /\ UNCHANGED <<buffer, file, written>>
    BY <1>T, <1>6 DEF consumer_exit, At, Goto
  <2>2. file = "written" /\ DumpsComplete
    BY <2>1 DEF FileInv
  <2> QED
    BY <2>1, <2>2 DEF FileInv, DumpsComplete, Complete
<1>7. CASE \/ consumer_test(0) \/ pop_front(0) \/ init_WKLDchar(0) \/ handle_pid(0) \/ handle_work(0)
           \/ handle_func(0) \/ handle_end(0) \/ wait_turn(0) \/ take_turn(0)
  <2>1. UNCHANGED <<file, written, buffer, server>>
    BY <1>7 DEF consumer_test, pop_front, init_WKLDchar, handle_pid, handle_work, handle_func,
       handle_end, wait_turn, take_turn, endVars
  <2>2. pc'[0] \in {"test", "pop", "init", "handle", "wait", "turn", "compare", "dead"}
    BY <1>T, <1>7 DEF consumer_test, pop_front, init_WKLDchar, handle_pid, handle_work, handle_func,
       handle_end, wait_turn, take_turn, Goto
  <2>3. server = "up"
    <3>1. pc[0] # "dead"
      BY <1>7 DEF consumer_test, pop_front, init_WKLDchar, handle_pid, handle_work, handle_func,
         handle_end, wait_turn, take_turn, At
    <3> QED
      BY <3>1 DEF FileInv
  <2> QED
    BY <1>1, <2>1, <2>2, <2>3
<1>8. ASSUME NEW r \in Ranks, Consumer(r)
      PROVE  FileInv'
  BY <1>0, <1>2, <1>3, <1>4, <1>5, <1>6, <1>7, <1>8 DEF Consumer
<1>9. CASE Main
  <2>1. UNCHANGED <<file, written, buffer, server>>
    BY <1>9 DEF Main, main_poll, accept_new_connections, recv_msg, recv_eof, endVars
  <2>2. (server = "up" /\ pc'[0] = "test") \/ UNCHANGED pc
    <3>1. CASE accept_new_connections /\ server = "up"
      BY <1>T, <3>1, SingleAccept
    <3>2. CASE ~(accept_new_connections /\ server = "up")
      BY <1>9, <3>2 DEF Main, main_poll, accept_new_connections, recv_msg, recv_eof, threadVars
    <3> QED BY <3>1, <3>2
  <2> QED
    BY <1>1, <2>1, <2>2
<1>10. CASE process_gone
  BY <1>10 DEF process_gone, threadVars, FileInv, DumpsComplete, Complete
<1>11. ASSUME (\E r \in Ranks : Client(r)) \/ UNCHANGED vars
       PROVE  UNCHANGED <<file, written, buffer, server, pc>>
  BY <1>11 DEF Client, init_libanalysis, mpi_update_process_id, send_msg, send_fails, MPI_Finalize,
     vars, threadVars, endVars
<1> QED
  BY <1>1, <1>8, <1>9, <1>10, <1>11 DEF Next

LEMMA SingleInitial == N = 1 /\ Init => SingleInv /\ StopJustified
<1> SUFFICES ASSUME N = 1, Init PROVE SingleInv /\ StopJustified
  OBVIOUS
<1>1. Ranks = {0} /\ \A r \in Ranks : Len(Script[r]) \in Nat
  BY ScriptAssumption DEF Ranks
<1>2. SentInv /\ MarkInv
  BY <1>1 DEF Init, SentInv, MarkInv
<1>3. RecordInv
  BY DEF Init, RecordInv, Analysable, Handling, NoProfile
<1>4. TurnInv /\ FileInv
  BY <1>1 DEF Init, TurnInv, FileInv, Dumping, DumpsComplete
<1> QED
  BY <1>2, <1>3, <1>4 DEF SingleInv, Init, StopJustified

LEMMA SingleStep ==
    ASSUME N = 1, Inv, Inv', StopJustified, SingleInv, [Next]_vars
    PROVE  SingleInv' /\ StopJustified'
<1>1. /\ TypeOK /\ FreshInv /\ EventsInv /\ OwnerInv
      /\ SentInv /\ MarkInv /\ RecordInv /\ TurnInv /\ FileInv
  BY DEF Inv, SingleInv
<1>2. SentInv' /\ MarkInv' /\ RecordInv'
  BY <1>1, SentStep, MarkStep, RecordStep
<1>3. TurnInv' /\ FileInv'
  BY <1>1, TurnStep, FileStep
<1>4. StopJustified'
  BY <1>1, StopStep
<1> QED
  BY <1>2, <1>3, <1>4 DEF SingleInv

\* A server that was started for one process does not end before it has dumped
\* (queue_consumer, dump_analysis): its only consumer is the last to take a
\* turn, and nobody ends the process while it writes.
THEOREM SingleDumps == N = 1 => (Spec => []DumpBeforeExit)
<1> SUFFICES ASSUME N = 1 PROVE Spec => []DumpBeforeExit
  OBVIOUS
<1>1. Init => SingleInv /\ StopJustified
  BY SingleInitial
<1>2. Inv /\ Inv' /\ SingleInv /\ StopJustified /\ [Next]_vars => SingleInv' /\ StopJustified'
  BY SingleStep
<1>3. SingleInv => DumpBeforeExit
  BY DEF SingleInv, FileInv, DumpBeforeExit
<1> QED
  BY <1>1, <1>2, <1>3, Invariance, PTL DEF Spec

\* What a server for one process writes is complete: each notification that is
\* analysed, once, in the order sent, under the process's own rank.
THEOREM SingleComplete == N = 1 => (Spec => []DumpsComplete)
<1> SUFFICES ASSUME N = 1 PROVE Spec => []DumpsComplete
  OBVIOUS
<1>1. Init => SingleInv /\ StopJustified
  BY SingleInitial
<1>2. Inv /\ Inv' /\ SingleInv /\ StopJustified /\ [Next]_vars => SingleInv' /\ StopJustified'
  BY SingleStep
<1>3. SingleInv => DumpsComplete
  BY DEF SingleInv, FileInv
<1> QED
  BY <1>1, <1>2, <1>3, Invariance, PTL DEF Spec

=============================================================================
