----------------------------- MODULE MCJSONdump -----------------------------
(* Small dumps for JSONdump: every kind of entry.                          *)
EXTENDS JSONdump

Sample == << <<"START_OBJECT", "STRING", "ULL", "END_OBJECT">>,
             <<"START_ARRAY", "DOUBLE", "END_ARRAY">>, <<>> >>
SampleDump == [p \in Procs |-> [t \in Threads |-> Sample[1 + ((p + t) % 3)]]]
=============================================================================
