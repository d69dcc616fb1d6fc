-------------------------- MODULE MCReuseDistance --------------------------
(* Instructions and threads for ReuseDistance.                             *)
EXTENDS ReuseDistance

I(i, a, n) == [inst |-> i, addr |-> a, bytes |-> n]
\* A load that walks over three lines, a store, and an addition.
Walk == {I(4, 0, 1), I(4, 1, 1), I(4, 2, 2), I(5, 5, 1), I(6, 0, 0), I(8, 6, 2)}
Prefixes == {{0}, {0, 1}, {0, 1, 2}}
Bound(n) == IF n = 1 THEN 7 ELSE 4
=============================================================================
