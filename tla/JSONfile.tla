------------------------------ MODULE JSONfile ------------------------------
(***************************************************************************)
(* What the users of the output file rely on: the entries of all processes *)
(* are written in order of process, thread and position, each exactly once *)
(* and unmixed, and the file is closed when it is complete.                *)
(***************************************************************************)
EXTENDS Naturals, Sequences, FiniteSets

CONSTANT Universe    \* <<process, thread, position>> of the possible entries

VARIABLES
    entries,         \* the entries that this run has to write
    file, closed

vars == <<entries, file, closed>>

Before(x, y) == \/ x[1] < y[1]
                \/ x[1] = y[1] /\ x[2] < y[2]
                \/ x[1] = y[1] /\ x[2] = y[2] /\ x[3] < y[3]

Written == {file[i] : i \in 1..Len(file)}

Init == entries \subseteq Universe /\ file = <<>> /\ closed = FALSE

Write(e) ==
    /\ ~closed
    /\ e \in entries \ Written
    /\ \A x \in entries : Before(x, e) => x \in Written
    /\ file' = Append(file, e)
    /\ UNCHANGED <<entries, closed>>

Close ==
    /\ ~closed
    /\ entries \subseteq Written
    /\ closed' = TRUE
    /\ UNCHANGED <<entries, file>>

Next == (\E e \in Universe : Write(e)) \/ Close

Spec == Init /\ [][Next]_vars
=============================================================================
