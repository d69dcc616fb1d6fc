------------------------- MODULE MCAnalysisServer -------------------------
(* Small instances of AnalysisServer: what each rank sends.                *)
EXTENDS AnalysisServer

Shortest == [r \in Ranks |-> <<"END">>]
OneBlock == [r \in Ranks |-> <<"BB", "END">>]
TwoBlocks == [r \in Ranks |-> <<"BB", "BB", "END">>]
Mixed == [r \in Ranks |-> <<"FUNC", "BB", "WORK", "BB", "WORK", "END">>]
Exits == [r \in Ranks |-> <<"FUNC", "BB", "WORK", "EXIT">>]
-----------------------------------------------------------------------------
(* A schedule that the programs allow.                                     *)

ClientStep == \E r \in Ranks : Client(r)

\* Bursts: every client is finished before the server's first step, so all
\* that was sent waits in the kernel's buffers, and the main thread runs
\* before the consumers are scheduled for the first time.
Finished == \A r \in Ranks : client[r] = "closed"
LateConsumersSpec == Init /\ [][ClientStep \/ (Main /\ Finished)]_vars
=============================================================================
