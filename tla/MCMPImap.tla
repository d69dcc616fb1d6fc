------------------------------ MODULE MCMPImap ------------------------------
(* Small MPI programs for MPImap: a program is a history of communications, *)
(* projected to the calls of each process, so that MPI itself completes it. *)
EXTENDS MPImap

With(c, e) == c @@ [ev |-> e]
Mark(name) == With(Call(name), 0)

\* calls of communication e: a function from processes to sequences of calls
Between(s, r, e, cs, cr) ==
    [p \in Procs |-> CASE p = s -> [k \in DOMAIN cs |-> With(cs[k], e)]
                       [] p = r -> [k \in DOMAIN cr |-> With(cr[k], e)]
                       [] OTHER -> <<>>]
All(e, c) == [p \in Procs |-> IF p < c.comm_size THEN <<With(c, e)>> ELSE <<>>]

Snd(r, t) == [Call("Send") EXCEPT !.other = r, !.tag = t]
Rcv(s, t) == [Call("Recv") EXCEPT !.other = s, !.tag = t]
Isnd(r, t) == [Call("Isend") EXCEPT !.other = r, !.tag = t, !.req = 1]
Ircv(s, t) == [Call("Irecv") EXCEPT !.other = s, !.tag = t, !.req = 1]
Wait(s) == [Call("Wait") EXCEPT !.req = 1, !.source = s]
Test(s, done) == [Call("Test") EXCEPT !.req = 1, !.source = s, !.done = done]
Exchange(q, t) == [Call("Sendrecv") EXCEPT !.other = q, !.tag = t, !.other2 = q, !.tag2 = t]
Rooted(name, root, n) == [Call(name) EXCEPT !.root = root, !.comm_size = n]

\* Each operator makes communication e.
Blocks(e) ==
    {Between(s, 1 - s, e, <<Snd(1 - s, t)>>, <<Rcv(s, t)>>) : s \in 0..1, t \in 0..1}
      \cup {Between(2, 0, e, <<Snd(0, 0)>>, <<Rcv(2, 0)>>),
            Between(0, 1, e, <<Exchange(1, 0)>>, <<Exchange(0, 0)>>),
            Between(1, 2, e, <<Snd(2, 0)>>, <<Rcv(1, ANY_TAG)>>)}
Collectives(e) ==
    {All(e, Rooted(n, 0, 3)) : n \in {"Bcast", "Reduce"}}
      \cup {All(e, Rooted("Scatter", 1, 3)), All(e, Rooted("Gatherv", 1, 3)),
            All(e, Rooted("Gather", 0, 2)), All(e, Rooted("Allgather", 0, 2)),
            All(e, Rooted("Allreduce", 0, 3))}
NonBlocks(e) ==
    {Between(0, 1, e, <<Isnd(1, 0), w>>, <<Rcv(0, 0)>>) :
            w \in {Wait(0), Test(0, TRUE)}}
      \cup {Between(0, 1, e, <<Isnd(1, 0), Test(0, FALSE), Wait(0)>>, r) :
            r \in {<<Ircv(0, 0), Wait(0)>>, <<Ircv(0, 0), Test(0, FALSE), Test(0, TRUE)>>,
                   <<Ircv(ANY_SOURCE, 0), Test(0, FALSE), Test(0, FALSE), Test(0, TRUE)>>}}

Joined(h) == [p \in Procs |-> FlattenSeq([k \in 1..Len(h) |-> h[k][p]])]
Enclosed(h) ==
    LET j == Joined(h)
    IN  [p \in Procs |-> IF p = 2 THEN j[p] ELSE <<Mark("enter")>> \o j[p] \o <<Mark("leave")>>]
\* The functions are left and entered again, with communication b outside.
Outside(a, b, c) ==
    [p \in Procs |-> <<Mark("enter")>> \o a[p] \o <<Mark("leave")>> \o b[p]
                       \o <<Mark("enter")>> \o c[p] \o <<Mark("leave")>>]

\* Blocking point-to-point calls that share ranks and tags with a collective.
Zero(e) == {Between(0, 1, e, <<Snd(1, 0)>>, <<Rcv(0, 0)>>),
            Between(1, 0, e, <<Snd(0, 0)>>, <<Rcv(1, 0)>>)}
ThreeRanks ==
    {Joined(<<a, b>>) : a \in Blocks(1), b \in Blocks(2)}
      \cup {Joined(<<a, b, c>>) : a \in Zero(1), b \in Blocks(2), c \in Zero(3)}
      \cup {Joined(<<a, b>>) : a \in Zero(1), b \in Collectives(2)}
      \cup {Joined(<<a, b>>) : a \in Collectives(1), b \in Zero(2)}
      \cup {Joined(<<All(1, Rooted(a, 0, 2)), All(2, Rooted(b, 0, 2))>>) :
                a, b \in {"Bcast", "Scatter", "Reduce", "Alltoall"}}
      \cup {Enclosed(<<a, b>>) : a \in NonBlocks(1), b \in NonBlocks(2) \cup Blocks(2)}
      \cup {Outside(a, b, c) : a \in NonBlocks(1), b \in Zero(2), c \in NonBlocks(3)}
      \cup {[p \in Procs |-> <<Mark("enter"), Mark("Init"), Mark("Finalize"), Mark("leave")>>]}

\* The theorems about the bursts and about the matching suppose this.
ASSUME ThreeRanksFramed ==
    \A s \in Programs \cap ThreeRanks, p \in Procs :
        (\A k \in DOMAIN s[p] : s[p][k].name \in PointToPoint) => Framed(s[p])
ASSUME ThreeRanksHistories ==
    \A s \in Programs \cap ThreeRanks :
        (\A p \in Procs : \A k \in DOMAIN s[p] : s[p][k].name \notin NonBlocking) => History(s)

\* MPI_Send received by MPI_Irecv and MPI_Wait.
SendIrecv == {Joined(<<Between(0, 1, 1, <<Snd(1, 0)>>, <<Ircv(0, 0), Wait(0)>>)>>)}
\* A receive from anybody, then one from rank 2.
Wildcard == {Joined(<<Between(1, 0, 1, <<Snd(0, 0)>>, <<Rcv(ANY_SOURCE, 0)>>),
                      Between(2, 0, 2, <<Snd(0, 0)>>, <<Rcv(2, 0)>>)>>)}
\* A failed test outside the functions, a request started inside them.
HeldOutside == {LET b == Between(0, 1, 1, <<Isnd(1, 0), Test(0, FALSE), Wait(0)>>, <<Rcv(0, 0)>>)
                    c == Between(0, 1, 2, <<Isnd(1, 0), Test(0, TRUE)>>, <<Rcv(0, 0)>>)
                IN  [p \in Procs |-> b[p] \o <<Mark("enter")>> \o c[p] \o <<Mark("leave")>>]}
\* MPI_Finalize behind the functions.
FinalizeOutside == {[p \in Procs |-> <<Mark("enter"), Mark("leave"), Mark("Finalize")>>]}
=============================================================================
