------------------------- MODULE MCStoreMaintenance -------------------------
(* Two binaries, the newer with another format of the graph.                 *)
EXTENDS StoreMaintenance, TLC

CONSTANTS p1, p2

OneProcess   == {p1}
TwoProcesses == {p1, p2}
Symmetric    == Permutations(TwoProcesses)
MCExpected   == [b \in 1..2 |-> [s \in Store |-> IF s = "graph" THEN b ELSE 1]]
=============================================================================
