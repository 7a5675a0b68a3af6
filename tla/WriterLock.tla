----------------------------- MODULE WriterLock -----------------------------
(***************************************************************************)
(* The cross-process writer lock of .synrepo/ (src/pipeline/writer): a     *)
(* kernel flock on a sentinel file that is never unlinked, an ownership    *)
(* record beside it that other processes read, and the table of one        *)
(* process that lets the holding thread re-enter.                          *)
(*                                                                         *)
(* A thread's `pc` names the next step of the call it is in.  A step is    *)
(* one system call or one critical section of the LOCK_DEPTHS mutex, so    *)
(* that the steps of several threads and processes interleave as they do   *)
(* in the program, and a process may die between any two of them.          *)
(***************************************************************************)
EXTENDS Naturals, FiniteSets

CONSTANTS
  Process,    \* process ids
  Thread,     \* threads of all the processes
  ProcessOf,  \* [Thread -> Process]
  Stamp,      \* values of WriterOwnership.acquired_at
  Retries,    \* failed attempts that are retried (20 in the code)
  MaxDepth,   \* nested guards of one thread (bound for checking)
  NoOne,      \* no thread, no record, no table entry
  Torn        \* a record file that is truncated and not written yet

ASSUME ProcessOfAssumption == ProcessOf \in [Thread -> Process]
ASSUME RetriesAssumption   == Retries \in Nat
ASSUME MaxDepthAssumption  == MaxDepth \in Nat \ {0}
ASSUME NoOneAssumption     ==
  /\ NoOne \notin Thread
  /\ NoOne \notin [pid : Process, at : Stamp]
  /\ Torn \notin {NoOne} \cup [pid : Process, at : Stamp]
  /\ NoOne \notin [owner : Thread, depth : Nat \ {0},
                   ownership : [pid : Process, at : Stamp]]

VARIABLES
  flock,   \* the thread whose open file holds the flock on writer.lock.flock
  meta,    \* content of writer.lock: NoOne (no file), Torn, or an ownership
  entry,   \* LOCK_DEPTHS of each process: NoOne or [owner, depth, ownership]
  pc,      \* next step of each thread
  tries,   \* failed lock attempts of the acquire under way
  own,     \* the ownership a thread's guards carry (NoOne when it has none)
  guards,  \* live WriterLock values of each thread
  live,    \* processes that have not died
  left     \* history: writer.lock is what somebody failed to remove

vars == <<flock, meta, entry, pc, tries, own, guards, live, left>>

Ownership == [pid : Process, at : Stamp]

Steps == {"idle", "try", "report", "truncate", "write", "insert",
          "cleanup", "release", "reap", "remove", "probe", "probing", "dead"}

TypeOK ==
  /\ flock \in Thread \cup {NoOne}
  /\ meta \in Ownership \cup {NoOne, Torn}
  /\ entry \in [Process -> [owner : Thread, depth : Nat \ {0},
                            ownership : Ownership] \cup {NoOne}]
  /\ pc \in [Thread -> Steps]
  /\ tries \in [Thread -> 0 .. Retries]
  /\ own \in [Thread -> Ownership \cup {NoOne}]
  /\ guards \in [Thread -> Nat]
  /\ live \subseteq Process
  /\ left \in BOOLEAN

Init ==
  /\ flock = NoOne
  /\ meta = NoOne
  /\ entry = [p \in Process |-> NoOne]
  /\ pc = [t \in Thread |-> "idle"]
  /\ tries = [t \in Thread |-> 0]
  /\ own = [t \in Thread |-> NoOne]
  /\ guards = [t \in Thread |-> 0]
  /\ live = Process
  /\ left = FALSE

-----------------------------------------------------------------------------
Table(t) == entry[ProcessOf[t]]

Goto(t, from, to) == pc[t] = from /\ pc' = [pc EXCEPT ![t] = to]

(* Mutant: the owner of the entry is not looked at. *)
Reenter_AnyThread(t) ==
  /\ pc[t] = "idle"
  /\ Table(t) # NoOne
  /\ Table(t).depth < MaxDepth
  /\ entry' = [entry EXCEPT ![ProcessOf[t]].depth = @ + 1]
  /\ guards' = [guards EXCEPT ![t] = @ + 1]
  /\ UNCHANGED <<flock, meta, pc, tries, own, live, left>>

(* try_reenter: the holding thread gets another guard, no file is touched. *)
Reenter(t) ==
  /\ pc[t] = "idle"
  /\ Table(t) # NoOne
  /\ Table(t).owner = t
  /\ Table(t).depth < MaxDepth
  /\ entry' = [entry EXCEPT ![ProcessOf[t]].depth = @ + 1]
  /\ guards' = [guards EXCEPT ![t] = @ + 1]
  /\ UNCHANGED <<flock, meta, pc, tries, own, live, left>>

(* No entry in the table: go for the kernel lock.  (An entry of another    *)
(* thread is Err(WrongThread), which changes nothing.)                     *)
StartAcquire(t) ==
  /\ Table(t) = NoOne
  /\ Goto(t, "idle", "try")
  /\ tries' = [tries EXCEPT ![t] = 0]
  /\ UNCHANGED <<flock, meta, entry, own, guards, live, left>>

(* Mutant: the kernel's answer is not looked at. *)
TryLock_Ignored(t) ==
  /\ Goto(t, "try", "truncate")
  /\ flock' = t
  /\ UNCHANGED <<meta, entry, tries, own, guards, live, left>>

(* open_and_try_lock: LOCK_EX | LOCK_NB on the sentinel. *)
TryLock(t) ==
  /\ flock = NoOne
  /\ Goto(t, "try", "truncate")
  /\ flock' = t
  /\ UNCHANGED <<meta, entry, tries, own, guards, live, left>>

(* Mutant: the attempts are not bounded. *)
TryLockBusy_Forever(t) ==
  /\ pc[t] = "try"
  /\ flock # NoOne
  /\ tries' = [tries EXCEPT ![t] = IF @ < Retries THEN @ + 1 ELSE 0]
  /\ UNCHANGED <<flock, meta, pc, entry, own, guards, live, left>>

TryLockBusy(t) ==
  /\ pc[t] = "try"
  /\ flock # NoOne
  /\ IF tries[t] < Retries
       THEN tries' = [tries EXCEPT ![t] = @ + 1] /\ UNCHANGED pc
       ELSE pc' = [pc EXCEPT ![t] = "report"] /\ UNCHANGED tries
  /\ UNCHANGED <<flock, meta, entry, own, guards, live, left>>

(* read_ownership_with_retry: the last read decides between HeldByOther,   *)
(* WrongThread and Malformed; every one of them is an error without effect.*)
ReportHolder(t) ==
  /\ Goto(t, "report", "idle")
  /\ UNCHANGED <<flock, meta, entry, tries, own, guards, live, left>>

(* acquired_at is the wall clock in nanoseconds: no record that is still   *)
(* on disk or in a guard carries the same one.                             *)
Fresh(o) == o # meta /\ \A u \in Thread : own[u] # o

(* Mutant: a record that is there is not overwritten. *)
Truncate_KeepsOld(t) ==
  /\ Goto(t, "truncate", "write")
  /\ \E at \in Stamp :
       LET o == [pid |-> ProcessOf[t], at |-> at]
       IN  Fresh(o) /\ own' = [own EXCEPT ![t] = o]
  /\ meta' = IF meta = NoOne THEN Torn ELSE meta
  /\ left' = FALSE
  /\ UNCHANGED <<flock, entry, tries, guards, live>>

(* fs::write of the record, in its two system calls.  The second one goes  *)
(* to the file that was opened: when it has been unlinked meanwhile the    *)
(* path stays empty.                                                       *)
Truncate(t) ==
  /\ Goto(t, "truncate", "write")
  /\ \E at \in Stamp :
       LET o == [pid |-> ProcessOf[t], at |-> at]
       IN  Fresh(o) /\ own' = [own EXCEPT ![t] = o]
  /\ meta' = Torn
  /\ left' = FALSE
  /\ UNCHANGED <<flock, entry, tries, guards, live>>

WriteRecord(t) ==
  /\ Goto(t, "write", "insert")
  /\ meta' = IF meta = Torn THEN own[t] ELSE meta
  /\ UNCHANGED <<flock, entry, tries, own, guards, live, left>>

(* Mutant: what was written is not removed. *)
WriteFails_NoCleanup(t) ==
  /\ pc[t] \in {"truncate", "write"}
  /\ pc' = [pc EXCEPT ![t] = "release"]
  /\ own' = [own EXCEPT ![t] = NoOne]
  /\ UNCHANGED <<flock, meta, entry, tries, guards, live, left>>

(* The open or the write fails: the partial file is removed, and returning *)
(* the error closes the sentinel.                                          *)
WriteFails(t) ==
  /\ pc[t] \in {"truncate", "write"}
  /\ pc' = [pc EXCEPT ![t] = "cleanup"]
  /\ own' = [own EXCEPT ![t] = NoOne]
  /\ UNCHANGED <<flock, meta, entry, tries, guards, live, left>>

CleanupPartial(t) ==
  /\ Goto(t, "cleanup", "release")
  /\ \/ meta' = NoOne /\ left' = FALSE
     \/ left' = TRUE /\ UNCHANGED meta
  /\ UNCHANGED <<flock, entry, tries, own, guards, live>>

CloseSentinel(t) ==
  /\ Goto(t, "release", "idle")
  /\ flock' = NoOne
  /\ UNCHANGED <<meta, entry, tries, own, guards, live, left>>

(* insert_initial_lock: refuses (and closes the sentinel) when the table   *)
(* already has an entry.                                                   *)
Insert(t) ==
  /\ Goto(t, "insert", "idle")
  /\ IF Table(t) = NoOne
       THEN /\ entry' = [entry EXCEPT ![ProcessOf[t]] =
                           [owner |-> t, depth |-> 1, ownership |-> own[t]]]
            /\ guards' = [guards EXCEPT ![t] = @ + 1]
            /\ UNCHANGED <<flock, own>>
       ELSE /\ flock' = NoOne
            /\ own' = [own EXCEPT ![t] = NoOne]
            /\ UNCHANGED <<entry, guards>>
  /\ UNCHANGED <<meta, tries, live, left>>

-----------------------------------------------------------------------------
(* Mutants: the last guard is dropped like the others; the first drop      *)
(* releases everything.                                                    *)
DropInner_ToZero(t) ==
  /\ pc[t] = "idle"
  /\ guards[t] > 0
  /\ Table(t) # NoOne
  /\ entry' = [entry EXCEPT ![ProcessOf[t]].depth = @ - 1]
  /\ guards' = [guards EXCEPT ![t] = @ - 1]
  /\ UNCHANGED <<flock, meta, pc, tries, own, live, left>>

DropInner_Releases(t) ==
  /\ pc[t] = "idle"
  /\ guards[t] > 0
  /\ Table(t) # NoOne
  /\ Table(t).depth > 1
  /\ entry' = [entry EXCEPT ![ProcessOf[t]] = NoOne]
  /\ flock' = NoOne
  /\ guards' = [guards EXCEPT ![t] = @ - 1]
  /\ UNCHANGED <<meta, pc, tries, own, live, left>>

(* Drop of a guard that is not the last one: the depth goes down. *)
DropInner(t) ==
  /\ pc[t] = "idle"
  /\ guards[t] > 0
  /\ Table(t) # NoOne
  /\ Table(t).depth > 1
  /\ entry' = [entry EXCEPT ![ProcessOf[t]].depth = @ - 1]
  /\ guards' = [guards EXCEPT ![t] = @ - 1]
  /\ UNCHANGED <<flock, meta, pc, tries, own, live, left>>

(* Mutant: the sentinel is closed while the entry is still in the table. *)
DropOuter_KeepsEntry(t) ==
  /\ guards[t] > 0
  /\ Table(t) # NoOne
  /\ Table(t).depth = 1
  /\ Goto(t, "idle", "reap")
  /\ flock' = NoOne
  /\ guards' = [guards EXCEPT ![t] = @ - 1]
  /\ UNCHANGED <<meta, entry, tries, own, live, left>>

(* decrement_depth returns 0: removing the entry closes the sentinel, so   *)
(* the kernel lock is free before the record is looked at.                 *)
DropOuter(t) ==
  /\ guards[t] > 0
  /\ Table(t) # NoOne
  /\ Table(t).depth = 1
  /\ Goto(t, "idle", "reap")
  /\ entry' = [entry EXCEPT ![ProcessOf[t]] = NoOne]
  /\ flock' = NoOne
  /\ guards' = [guards EXCEPT ![t] = @ - 1]
  /\ UNCHANGED <<meta, tries, own, live, left>>

(* read_ownership, then remove_file if the record is the guard's own; a    *)
(* removal that fails is a warning.                                        *)
ReapRead(t) ==
  /\ pc[t] = "reap"
  /\ IF meta = own[t]
       THEN pc' = [pc EXCEPT ![t] = "remove"] /\ UNCHANGED own
       ELSE pc' = [pc EXCEPT ![t] = "idle"] /\ own' = [own EXCEPT ![t] = NoOne]
  /\ UNCHANGED <<flock, meta, entry, tries, guards, live, left>>

ReapRemove(t) ==
  /\ Goto(t, "remove", "idle")
  /\ \/ meta' = NoOne /\ left' = FALSE
     \/ left' = (left \/ meta = own[t]) /\ UNCHANGED meta
  /\ own' = [own EXCEPT ![t] = NoOne]
  /\ UNCHANGED <<flock, entry, tries, guards, live>>

-----------------------------------------------------------------------------
(* live_owner_pid: a record of another live process is confirmed by taking *)
(* the flock for a moment.                                                 *)
ProbeRead(t) ==
  /\ meta \in Ownership
  /\ meta.pid # ProcessOf[t]
  /\ meta.pid \in live
  /\ Goto(t, "idle", "probe")
  /\ UNCHANGED <<flock, meta, entry, tries, own, guards, live, left>>

ProbeLock(t) ==
  /\ Goto(t, "probe", IF flock = NoOne THEN "probing" ELSE "idle")
  /\ flock' = IF flock = NoOne THEN t ELSE flock
  /\ UNCHANGED <<meta, entry, tries, own, guards, live, left>>

ProbeUnlock(t) ==
  /\ Goto(t, "probing", "idle")
  /\ flock' = NoOne
  /\ UNCHANGED <<meta, entry, tries, own, guards, live, left>>

(* A process dies: the kernel closes its files, the record stays on disk. *)
Crash(p) ==
  LET Dead(t) == ProcessOf[t] = p
  IN  /\ p \in live
      /\ live' = live \ {p}
      /\ pc' = [t \in Thread |-> IF Dead(t) THEN "dead" ELSE pc[t]]
      /\ own' = [t \in Thread |-> IF Dead(t) THEN NoOne ELSE own[t]]
      /\ guards' = [t \in Thread |-> IF Dead(t) THEN 0 ELSE guards[t]]
      /\ entry' = [entry EXCEPT ![p] = NoOne]
      /\ flock' = IF flock # NoOne /\ Dead(flock) THEN NoOne ELSE flock
      /\ UNCHANGED <<meta, tries, left>>

(* The steps of a call that is under way; the kernel and the scheduler see *)
(* to it that they are taken.                                              *)
Continue(t) ==
  \/ TryLock(t) \/ TryLockBusy(t) \/ ReportHolder(t)
  \/ Truncate(t) \/ WriteRecord(t) \/ Insert(t)
  \/ CleanupPartial(t) \/ CloseSentinel(t)
  \/ ReapRead(t) \/ ReapRemove(t)
  \/ ProbeLock(t) \/ ProbeUnlock(t)

Next ==
  \/ \E t \in Thread : \/ StartAcquire(t) \/ Reenter(t)
                       \/ DropInner(t) \/ DropOuter(t)
                       \/ ProbeRead(t) \/ WriteFails(t)
                       \/ Continue(t)
  \/ \E p \in Process : Crash(p)

Spec == Init /\ [][Next]_vars

FairSpec == Spec /\ \A t \in Thread : WF_vars(Continue(t))

-----------------------------------------------------------------------------
(* Properties *)

(* Only one thread of the machine has live guards: the promise every store *)
(* write of synrepo is built on, through retries, re-entry and crashes.    *)
MutualExclusion == \A t, u \in Thread : guards[t] > 0 /\ guards[u] > 0 => t = u

(* The table's depth is the number of guards still to be dropped, and the  *)
(* kernel lock is held exactly that long: no nested drop frees it early,   *)
(* no last drop leaks it.                                                  *)
TableMatchesGuards ==
  \A t \in Thread :
    /\ guards[t] > 0 => Table(t) # NoOne /\ Table(t).owner = t
                        /\ Table(t).depth = guards[t] /\ flock = t
    /\ flock = t /\ pc[t] = "idle" => guards[t] > 0

(* insert_initial_lock never meets an entry: the table and the kernel lock *)
(* cannot get out of step, whatever happens between the lookup in          *)
(* try_reenter and the insert.                                             *)
RegistrationNeverRefused == \A t \in Thread : pc[t] = "insert" => Table(t) = NoOne

(* While a thread has a guard, the record on disk is its own or missing:   *)
(* HeldByOther never names the wrong live process.                         *)
HolderNotMisattributed ==
  \A t \in Thread : guards[t] > 0 => meta \in {own[t], NoOne}

(* A record of a live process belongs to a call or a guard of that process *)
(* that will remove it, and a torn record to a write under way (or to a    *)
(* process that died), unless its removal was tried and failed: whatever   *)
(* the calls race with, none leaves its record to nobody.                  *)
NoOrphanRecord ==
  /\ meta \in Ownership /\ meta.pid \in live =>
       left \/ \E t \in Thread : own[t] = meta /\ (guards[t] > 0 \/ pc[t] # "idle")
  /\ meta = Torn /\ live = Process =>
       left \/ \E t \in Thread : pc[t] \in {"write", "cleanup"}

(* An acquire comes back with a guard or an error, whoever holds the lock. *)
AcquireReturns == \A t \in Thread : pc[t] = "try" ~> pc[t] \in {"idle", "dead"}

(* The lock of the abstract module: the thread in its process's table. *)
Registered == {t \in Thread : Table(t) # NoOne /\ Table(t).owner = t}
AbsHolder  == IF Registered = {} THEN NoOne ELSE CHOOSE t \in Registered : TRUE
AbsDepth   == IF Registered = {} THEN 0 ELSE Table(AbsHolder).depth

Abs == INSTANCE ReentrantLock WITH holder <- AbsHolder, depth <- AbsDepth

(* The files, retries and the table implement one re-entrant lock that     *)
(* dies with its holder.                                                   *)
ImplementsReentrantLock == Abs!Spec
=============================================================================
