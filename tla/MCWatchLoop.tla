---------------------------- MODULE MCWatchLoop ----------------------------
(* Small instances of WatchLoop. *)
EXTENDS WatchLoop, TLC

CONSTANTS a, b, c1, c2

OneFile  == {a}
TwoFiles == {a, b}

Symmetric == Permutations({a, b}) \cup Permutations({c1, c2})
=============================================================================
