--------------------------- MODULE ReentrantLock ---------------------------
(***************************************************************************)
(* What the writer lock of a repository promises to its callers, without a *)
(* word of files: at most one thread of the machine holds it, that thread  *)
(* may take it again, every guard it took has to be dropped before another *)
(* thread gets in, and the death of the holder's process frees it.         *)
(* WriterLock implements this module.                                      *)
(***************************************************************************)
EXTENDS Naturals

CONSTANTS Thread,    \* threads of all the processes that use one .synrepo/
          MaxDepth,  \* how often a holder re-enters (bound for checking)
          NoOne      \* nobody holds the lock

VARIABLES holder,    \* the thread the lock belongs to, or NoOne
          depth      \* guards that thread still has to drop

Init == holder = NoOne /\ depth = 0

Acquire(t) == holder = NoOne /\ holder' = t /\ depth' = 1

Reenter(t) == holder = t /\ depth < MaxDepth /\ depth' = depth + 1 /\ UNCHANGED holder

Drop(t) ==
  /\ holder = t
  /\ depth' = depth - 1
  /\ holder' = IF depth = 1 THEN NoOne ELSE t

Die(t) == holder = t /\ holder' = NoOne /\ depth' = 0

Next == \E t \in Thread : Acquire(t) \/ Reenter(t) \/ Drop(t) \/ Die(t)

Spec == Init /\ [][Next]_<<holder, depth>>
=============================================================================
