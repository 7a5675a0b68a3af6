---------------------------- MODULE MCWatchLease ----------------------------
(***************************************************************************)
(* Services and commands as model values, and as many inodes as processes: *)
(* the one that creates a file has none open.                              *)
(***************************************************************************)
EXTENDS WatchLease, TLC

CONSTANTS s1, s2, c1, i1, i2, i3

TwoServices == {s1, s2}
OneCommand  == {c1}
ThreeInodes == {i1, i2, i3}
InodeSymmetry == Permutations(ThreeInodes)
=============================================================================
