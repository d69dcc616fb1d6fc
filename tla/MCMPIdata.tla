------------------------------- MODULE MCMPIdata -------------------------------
(* Programs of three processes for MPIdata; request variables are numbers and *)
(* are used again after their request completed.                              *)
EXTENDS MPIdata

S(r, b) == [Call("Send") EXCEPT !.other = r, !.bytes = b]
R(s, b) == [Call("Recv") EXCEPT !.other = s, !.bytes = b]
IS(r, b, q) == [Call("Isend") EXCEPT !.other = r, !.bytes = b, !.req = q]
IR(s, b, q) == [Call("Irecv") EXCEPT !.other = s, !.bytes = b, !.req = q]
W(q) == [Call("Wait") EXCEPT !.req = q]
Poll(q) == [Call("Test") EXCEPT !.req = q, !.done = TRUE]
Try(q) == [Call("Test") EXCEPT !.req = q]
Peek(q) == [Call("Test") EXCEPT !.req = q, !.done = TRUE, !.status = FALSE]
WA(qs) == [Call("Waitall") EXCEPT !.reqs = qs]
PollAll(qs) == [Call("Testall") EXCEPT !.reqs = qs, !.done = TRUE]
Coll(name, root, b, q) ==
    [Call(name) EXCEPT !.root = root, !.bytes = b, !.recvbytes = b, !.req = q, !.comm_size = N]

Of(a, b, c) == [p \in Procs |-> CASE p = 0 -> a [] p = 1 -> b [] p = 2 -> c]
Everyone(s) == [p \in Procs |-> s]
Then(f, g) == [p \in Procs |-> f[p] \o g[p]]

\* receives from anybody, one of them tried before all are awaited
FanIn == Of(<<IR(ANY_SOURCE, 4, 1), IR(ANY_SOURCE, 4, 2), Try(1), WA(<<1, 2>>)>>, <<S(0, 4)>>, <<IS(0, 4, 1), W(1)>>)
\* one sender, receives of different sizes completed in the other order
Reversed == Of(<<IS(1, 4, 1), IS(1, 8, 2), PollAll(<<1, 2>>)>>, <<IR(0, 4, 1), IR(0, 8, 2), W(2), Poll(1)>>, <<>>)
\* the same request variable for a send and then for a receive
Reuse == Of(<<IS(1, 4, 1), W(1), IR(1, 8, 1), W(1)>>, <<R(0, 4), IS(0, 8, 1), Poll(1)>>, <<>>)
\* a receive and a non-blocking collective awaited together
Mixed == Of(<<IR(2, 8, 1), Coll("Ibcast", 1, 4, 2), WA(<<1, 2>>)>>,
            <<Coll("Ibcast", 1, 4, 1), Poll(1), W(1)>>, <<S(0, 8), Coll("Ibcast", 1, 4, 3), W(3)>>)
\* receives that ask for more than is sent
Roomy == Of(<<IR(1, 8, 1), R(2, 16), W(1)>>, <<S(0, 4)>>, <<S(0, 4)>>)
\* receives whose source nobody is told, a test without status of a request that is done
Untold == Of(<<IR(ANY_SOURCE, 4, 1), Peek(1), Peek(1), R(ANY_SOURCE, 8)>>, <<S(0, 4)>>, <<S(0, 8)>>)
\* assertions of the hook: a test of a request that may be done already, a wait
\* and a test of several requests without status
Twice == Of(<<IR(1, 4, 1), Try(1), Poll(1), R(1, 4)>>,
            <<S(0, 4), IS(0, 4, 1), [W(1) EXCEPT !.status = FALSE]>>,
            <<IS(0, 4, 1), [PollAll(<<1>>) EXCEPT !.status = FALSE]>>)
Blocking == {"Bcast", "Gather", "Reduce", "Alltoall", "Alltoallv", "Allgather", "Allreduce"}
Collectives(q) == {Everyone(<<Coll(name, 1, 4, 0)>>) : name \in Blocking}
                    \cup {Everyone(<<Coll(name, 0, 8, q), W(q)>>) : name \in NonBlocking}

MCPrograms ==
    {FanIn, Reversed, Reuse, Mixed, Roomy, Untold, Twice, Then(FanIn, Reuse), Then(Reversed, FanIn), Then(Reuse, Mixed)}
      \cup {Then(c, d) : c \in Collectives(1), d \in {FanIn, Reuse}}

VectorPrograms == {Untold}

\* The theorems suppose this of the programs.
ASSUME ProgramsConform ==
    \A s \in Programs : Joint(s) /\ \A p \in Procs : Lawful(s[p]) /\ Addressed(s[p])
================================================================================
