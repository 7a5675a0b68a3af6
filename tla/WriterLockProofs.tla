-------------------------- MODULE WriterLockProofs --------------------------
(***************************************************************************)
(* Mutual exclusion of the writer lock, and what its record on disk says,  *)
(* for any number of processes, threads, retries and nested guards.        *)
(***************************************************************************)
EXTENDS WriterLock, TLAPS

(* TypeOK alone is not inductive: Insert copies the ownership that was     *)
(* chosen two steps before into the table.                                 *)
Chosen == \A t \in Thread : pc[t] \in {"write", "insert"} => own[t] \in Ownership

TypeInv == TypeOK /\ Chosen

(* Init and every step keep the type invariant. *)
LEMMA TypeInvariant == Spec => []TypeInv
<1> USE ProcessOfAssumption, RetriesAssumption, MaxDepthAssumption, NoOneAssumption
<1>1. Init => TypeInv
  <2> SUFFICES ASSUME Init PROVE TypeInv
    OBVIOUS
  <2>1. left \in BOOLEAN
    BY DEF Init
  <2>2. TypeOK
    BY <2>1 DEF Init, TypeOK, Steps
  <2>3. Chosen
    BY DEF Init, Chosen
  <2> QED BY <2>2, <2>3 DEF TypeInv
<1>2. TypeInv /\ [Next]_vars => TypeInv'
  <2> SUFFICES ASSUME TypeInv, [Next]_vars PROVE TypeInv'
    OBVIOUS
  <2> USE DEF TypeInv, TypeOK, Chosen, Steps, Table, Goto
  <2>1. ASSUME NEW t \in Thread, StartAcquire(t) PROVE TypeInv'
    BY <2>1 DEF StartAcquire
  <2>2. ASSUME NEW t \in Thread, Reenter(t) PROVE TypeInv'
    <3>1. entry[ProcessOf[t]].depth + 1 \in Nat \ {0}
      BY <2>2 DEF Reenter
    <3>2. entry' \in [Process -> [owner : Thread, depth : Nat \ {0},
                                  ownership : Ownership] \cup {NoOne}]
      BY <2>2, <3>1 DEF Reenter
    <3> QED BY <2>2, <3>2 DEF Reenter
  <2>3. ASSUME NEW t \in Thread, DropInner(t) PROVE TypeInv'
    BY <2>3 DEF DropInner
  <2>4. ASSUME NEW t \in Thread, DropOuter(t) PROVE TypeInv'
    BY <2>4 DEF DropOuter
  <2>5. ASSUME NEW t \in Thread, ProbeRead(t) PROVE TypeInv'
    BY <2>5 DEF ProbeRead
  <2>6. ASSUME NEW t \in Thread, WriteFails(t) PROVE TypeInv'
    BY <2>6 DEF WriteFails
  <2>7. ASSUME NEW t \in Thread, TryLock(t) \/ TryLockBusy(t) \/ ReportHolder(t)
        PROVE  TypeInv'
    BY <2>7 DEF TryLock, TryLockBusy, ReportHolder
  <2>8. ASSUME NEW t \in Thread, Truncate(t) PROVE TypeInv'
    <3>1. PICK at \in Stamp :
            own' = [own EXCEPT ![t] = [pid |-> ProcessOf[t], at |-> at]]
      BY <2>8 DEF Truncate
    <3>2. [pid |-> ProcessOf[t], at |-> at] \in Ownership
      BY DEF Ownership
    <3> QED BY <2>8, <3>1, <3>2 DEF Truncate
  <2>9. ASSUME NEW t \in Thread, WriteRecord(t) PROVE TypeInv'
    BY <2>9 DEF WriteRecord
  <2>10. ASSUME NEW t \in Thread, Insert(t) PROVE TypeInv'
    BY <2>10 DEF Insert
  <2>11. ASSUME NEW t \in Thread,
                CleanupPartial(t) \/ CloseSentinel(t) \/ ReapRead(t) \/ ReapRemove(t)
         PROVE  TypeInv'
    BY <2>11 DEF CleanupPartial, CloseSentinel, ReapRead, ReapRemove
  <2>12. ASSUME NEW t \in Thread, ProbeLock(t) \/ ProbeUnlock(t) PROVE TypeInv'
    BY <2>12 DEF ProbeLock, ProbeUnlock
  <2>13. ASSUME NEW p \in Process, Crash(p) PROVE TypeInv'
    BY <2>13 DEF Crash
  <2>14. CASE UNCHANGED vars
    BY <2>14 DEF vars
  <2> QED
    BY <2>1, <2>2, <2>3, <2>4, <2>5, <2>6, <2>7, <2>8, <2>9, <2>10, <2>11,
       <2>12, <2>13, <2>14 DEF Next, Continue
<1> QED BY <1>1, <1>2, PTL DEF Spec

(* Type correctness: every step of an acquire, a drop or a probe, and a    *)
(* crash between any two, leaves the files and the tables well formed.     *)
THEOREM TypeCorrect == Spec => []TypeOK
<1>1. TypeInv => TypeOK
  BY DEF TypeInv
<1> QED BY <1>1, TypeInvariant, PTL

-----------------------------------------------------------------------------
(* The steps of a call during which the thread itself holds the flock. *)
Holding == {"truncate", "write", "insert", "cleanup", "release", "probing"}

(* A table entry stands for the flock of the thread it names, and for as   *)
(* many guards as its depth says.                                          *)
EntryIsHolder ==
  \A p \in Process : entry[p] # NoOne =>
    LET o == entry[p].owner
    IN  /\ ProcessOf[o] = p
        /\ flock = o
        /\ pc[o] \in {"idle", "probe"}
        /\ guards[o] = entry[p].depth

(* The flock is held by a call under way or on behalf of an entry, and     *)
(* guards are always on behalf of an entry.                                *)
FlockAccounted ==
  \A t \in Thread :
    /\ pc[t] \in Holding => flock = t
    /\ flock = t => pc[t] \in Holding \/ (Table(t) # NoOne /\ Table(t).owner = t)
    /\ guards[t] > 0 => Table(t) # NoOne /\ Table(t).owner = t

LockInv == TypeInv /\ EntryIsHolder /\ FlockAccounted

(* The lock invariant is inductive.  The flock is what ties the entries of *)
(* different processes together: a step that would add a second entry      *)
(* needs the flock, and the first entry has it.                            *)
LEMMA LockInvariant == Spec => []LockInv
<1> USE ProcessOfAssumption, RetriesAssumption, MaxDepthAssumption, NoOneAssumption
<1>1. Init => EntryIsHolder /\ FlockAccounted
  BY DEF Init, EntryIsHolder, FlockAccounted, Holding
<1>2. LockInv /\ [Next]_vars => (EntryIsHolder /\ FlockAccounted)'
  <2> SUFFICES ASSUME LockInv, [Next]_vars PROVE (EntryIsHolder /\ FlockAccounted)'
    OBVIOUS
  <2> DEFINE I == EntryIsHolder /\ FlockAccounted
  <2> USE DEF LockInv, TypeInv, TypeOK, EntryIsHolder, FlockAccounted, Holding,
              Steps, Table, Goto
  <2>1. ASSUME NEW t \in Thread, StartAcquire(t) PROVE I'
    BY <2>1 DEF StartAcquire
  <2>2. ASSUME NEW t \in Thread, Reenter(t) PROVE I'
    <3>1. \A p \in Process : entry'[p] # NoOne =>
            entry[p] # NoOne /\ entry'[p].owner = entry[p].owner
      BY <2>2 DEF Reenter
    <3>2. \A p \in Process \ {ProcessOf[t]} : entry'[p] = entry[p]
      BY <2>2 DEF Reenter
    <3>3. entry'[ProcessOf[t]].depth = guards'[t] /\ entry'[ProcessOf[t]] # NoOne
      <4> DEFINE e == entry[ProcessOf[t]]
      <4>1. e \in [owner : Thread, depth : Nat \ {0}, ownership : Ownership]
        BY <2>2 DEF Reenter
      <4>2. entry'[ProcessOf[t]] = [e EXCEPT !.depth = e.depth + 1]
        BY <2>2 DEF Reenter
      <4>3. guards'[t] = e.depth + 1
        BY <2>2 DEF Reenter
      <4>4. e.depth + 1 \in Nat \ {0}
        BY <4>1
      <4> HIDE DEF e
      <4>5. entry'[ProcessOf[t]] \in [owner : Thread, depth : Nat \ {0}, ownership : Ownership]
        BY <4>1, <4>2, <4>4
      <4> QED BY <4>1, <4>2, <4>3, <4>5 DEF Ownership
    <3>4. \A u \in Thread \ {t} : guards'[u] = guards[u]
      BY <2>2 DEF Reenter
    <3>5. EntryIsHolder'
      BY <2>2, <3>1, <3>2, <3>3, <3>4 DEF Reenter
    <3>6. FlockAccounted'
      BY <2>2, <3>1, <3>2, <3>3, <3>4 DEF Reenter
    <3> QED BY <3>5, <3>6
  <2>3. ASSUME NEW t \in Thread, DropInner(t) PROVE I'
    <3>1. \A p \in Process : entry'[p] # NoOne =>
            entry[p] # NoOne /\ entry'[p].owner = entry[p].owner
      BY <2>3 DEF DropInner
    <3>2. \A p \in Process \ {ProcessOf[t]} : entry'[p] = entry[p]
      BY <2>3 DEF DropInner
    <3>3. Table(t).owner = t /\ guards[t] = Table(t).depth
      BY <2>3 DEF DropInner
    <3>4. entry'[ProcessOf[t]].depth = guards'[t] /\ entry'[ProcessOf[t]] # NoOne
      <4> DEFINE e == entry[ProcessOf[t]]
      <4>1. e \in [owner : Thread, depth : Nat \ {0}, ownership : Ownership]
        BY <2>3 DEF DropInner
      <4>2. entry'[ProcessOf[t]] = [e EXCEPT !.depth = e.depth - 1]
        BY <2>3 DEF DropInner
      <4>3. guards'[t] = e.depth - 1
        BY <2>3, <3>3 DEF DropInner
      <4>4. e.depth - 1 \in Nat \ {0}
        BY <4>1, <2>3 DEF DropInner
      <4> HIDE DEF e
      <4>5. entry'[ProcessOf[t]] \in [owner : Thread, depth : Nat \ {0}, ownership : Ownership]
        BY <4>1, <4>2, <4>4
      <4> QED BY <4>1, <4>2, <4>3, <4>5 DEF Ownership
    <3>5. \A u \in Thread \ {t} : guards'[u] = guards[u]
      BY <2>3 DEF DropInner
    <3>6. EntryIsHolder'
      BY <2>3, <3>1, <3>2, <3>3, <3>4, <3>5 DEF DropInner
    <3>7. FlockAccounted'
      BY <2>3, <3>1, <3>2, <3>3, <3>4, <3>5 DEF DropInner
    <3> QED BY <3>6, <3>7
  <2>4. ASSUME NEW t \in Thread, DropOuter(t) PROVE I'
    BY <2>4 DEF DropOuter
  <2>5. ASSUME NEW t \in Thread, ProbeRead(t) PROVE I'
    BY <2>5 DEF ProbeRead
  <2>6. ASSUME NEW t \in Thread, WriteFails(t) PROVE I'
    BY <2>6 DEF WriteFails
  <2>7. ASSUME NEW t \in Thread, TryLock(t) \/ TryLockBusy(t) \/ ReportHolder(t)
        PROVE  I'
    BY <2>7 DEF TryLock, TryLockBusy, ReportHolder
  <2>8. ASSUME NEW t \in Thread, Truncate(t) \/ WriteRecord(t) PROVE I'
    BY <2>8 DEF Truncate, WriteRecord
  <2>9. ASSUME NEW t \in Thread, Insert(t) PROVE I'
    <3>1. flock = t /\ guards[t] = 0
      BY <2>9 DEF Insert
    <3>2. \A p \in Process : entry[p] = NoOne
      BY <2>9, <3>1 DEF Insert
    <3>3. /\ entry' = [entry EXCEPT ![ProcessOf[t]] =
                         [owner |-> t, depth |-> 1, ownership |-> own[t]]]
          /\ guards' = [guards EXCEPT ![t] = 1]
          /\ flock' = t
          /\ pc' = [pc EXCEPT ![t] = "idle"]
      BY <2>9, <3>1, <3>2 DEF Insert
    <3>4. entry'[ProcessOf[t]] # NoOne
      <4>1. [owner |-> t, depth |-> 1, ownership |-> own[t]]
              \in [owner : Thread, depth : Nat \ {0}, ownership : Ownership]
        BY <2>9 DEF Insert, Chosen
      <4> QED BY <3>3, <4>1 DEF Ownership
    <3> QED BY <3>1, <3>2, <3>3, <3>4
  <2>10. ASSUME NEW t \in Thread, CleanupPartial(t) \/ CloseSentinel(t) PROVE I'
    BY <2>10 DEF CleanupPartial, CloseSentinel
  <2>11. ASSUME NEW t \in Thread, ReapRead(t) \/ ReapRemove(t) PROVE I'
    BY <2>11 DEF ReapRead, ReapRemove
  <2>12. ASSUME NEW t \in Thread, ProbeLock(t) \/ ProbeUnlock(t) PROVE I'
    BY <2>12 DEF ProbeLock, ProbeUnlock
  <2>13. ASSUME NEW p \in Process, Crash(p) PROVE I'
    BY <2>13 DEF Crash
  <2>14. CASE UNCHANGED vars
    BY <2>14 DEF vars
  <2> QED
    BY <2>1, <2>2, <2>3, <2>4, <2>5, <2>6, <2>7, <2>8, <2>9, <2>10, <2>11,
       <2>12, <2>13, <2>14 DEF Next, Continue
<1> QED BY <1>1, <1>2, TypeInvariant, PTL DEF Spec, LockInv

(* Only one thread of the machine has guards: both would be the owner of   *)
(* an entry, and both entries' owner is the one holder of the flock.       *)
THEOREM OneWriter == Spec => []MutualExclusion
<1>1. LockInv => MutualExclusion
  BY ProcessOfAssumption
     DEF LockInv, EntryIsHolder, FlockAccounted, MutualExclusion, Table
<1> QED BY <1>1, LockInvariant, PTL

(* Nested drops never free the lock early and the last one never leaks it. *)
THEOREM DepthIsGuards == Spec => []TableMatchesGuards
<1>1. LockInv => TableMatchesGuards
  BY ProcessOfAssumption
     DEF LockInv, TypeInv, TypeOK, EntryIsHolder, FlockAccounted, Holding,
         TableMatchesGuards, Table
<1> QED BY <1>1, LockInvariant, PTL

(* The error branch of insert_initial_lock is unreachable. *)
THEOREM InsertSucceeds == Spec => []RegistrationNeverRefused
<1>1. LockInv => RegistrationNeverRefused
  BY ProcessOfAssumption
     DEF LockInv, TypeInv, TypeOK, EntryIsHolder, FlockAccounted, Holding,
         RegistrationNeverRefused, Table
<1> QED BY <1>1, LockInvariant, PTL

-----------------------------------------------------------------------------
(* What the record can be from the write on until the guard is dropped: a  *)
(* late remove of an earlier holder can take it away, nobody can write     *)
(* another one over it.                                                    *)
RecordIsHolders ==
  \A t \in Thread :
    /\ pc[t] = "write" => meta \in {Torn, NoOne}
    /\ pc[t] = "insert" \/ guards[t] > 0 => meta \in {own[t], NoOne}

RecordInv == LockInv /\ RecordIsHolders

(* Nobody but the holder of the flock writes the record, so it is the      *)
(* holder's or gone.                                                       *)
THEOREM RecordNamesHolder == Spec => []HolderNotMisattributed
<1> USE ProcessOfAssumption, RetriesAssumption, MaxDepthAssumption, NoOneAssumption
<1>1. Init => RecordIsHolders
  BY DEF Init, RecordIsHolders
<1>2. RecordInv /\ [Next]_vars => RecordIsHolders'
  <2> SUFFICES ASSUME RecordInv, [Next]_vars PROVE RecordIsHolders'
    OBVIOUS
  <2>0. \A t, u \in Thread : /\ guards[t] > 0 => flock = t /\ pc[t] \in {"idle", "probe"}
                             /\ pc[t] \in Holding => flock = t
    BY DEF RecordInv, LockInv, TypeInv, TypeOK, EntryIsHolder, FlockAccounted, Table
  <2> USE <2>0 DEF RecordInv, LockInv, TypeInv, TypeOK, RecordIsHolders, Holding,
              Steps, Goto
  <2>1. ASSUME NEW t \in Thread, StartAcquire(t) \/ Reenter(t) PROVE RecordIsHolders'
    BY <2>1 DEF StartAcquire, Reenter, EntryIsHolder, FlockAccounted, Table
  <2>2. ASSUME NEW t \in Thread, DropInner(t) \/ DropOuter(t) PROVE RecordIsHolders'
    BY <2>2 DEF DropInner, DropOuter
  <2>3. ASSUME NEW t \in Thread, ProbeRead(t) \/ ProbeLock(t) \/ ProbeUnlock(t)
        PROVE  RecordIsHolders'
    BY <2>3 DEF ProbeRead, ProbeLock, ProbeUnlock
  <2>4. ASSUME NEW t \in Thread, TryLock(t) \/ TryLockBusy(t) \/ ReportHolder(t)
        PROVE  RecordIsHolders'
    BY <2>4 DEF TryLock, TryLockBusy, ReportHolder
  <2>5. ASSUME NEW t \in Thread, Truncate(t) PROVE RecordIsHolders'
    BY <2>5 DEF Truncate
  <2>6. ASSUME NEW t \in Thread, WriteRecord(t) PROVE RecordIsHolders'
    BY <2>6 DEF WriteRecord
  <2>7. ASSUME NEW t \in Thread, WriteFails(t) \/ CleanupPartial(t) \/ CloseSentinel(t)
        PROVE  RecordIsHolders'
    BY <2>7 DEF WriteFails, CleanupPartial, CloseSentinel
  <2>8. ASSUME NEW t \in Thread, Insert(t) PROVE RecordIsHolders'
    BY <2>8 DEF Insert, EntryIsHolder, Table
  <2>9. ASSUME NEW t \in Thread, ReapRead(t) \/ ReapRemove(t) PROVE RecordIsHolders'
    BY <2>9 DEF ReapRead, ReapRemove
  <2>10. ASSUME NEW p \in Process, Crash(p) PROVE RecordIsHolders'
    BY <2>10 DEF Crash
  <2>11. CASE UNCHANGED vars
    BY <2>11 DEF vars
  <2> QED
    BY <2>1, <2>2, <2>3, <2>4, <2>5, <2>6, <2>7, <2>8, <2>9, <2>10, <2>11
       DEF Next, Continue
<1>3. RecordIsHolders => HolderNotMisattributed
  BY DEF RecordIsHolders, HolderNotMisattributed
<1> QED BY <1>1, <1>2, <1>3, LockInvariant, PTL DEF Spec, RecordInv

-----------------------------------------------------------------------------
(* The calls that will remove the record they have written: from the write *)
(* to the last look at it when the guard has been dropped.                 *)
Attends(t) == guards[t] > 0 \/ pc[t] \in {"insert", "reap", "remove"}

(* A thread carries ownerships of its own process only, so that a crash    *)
(* that takes the thread takes the process its record names with it.       *)
OwnIsMine ==
  \A t \in Thread : own[t] # NoOne => own[t] \in Ownership /\ own[t].pid = ProcessOf[t]

RecordAttended ==
  /\ meta \in Ownership /\ meta.pid \in live =>
       left \/ \E t \in Thread : own[t] = meta /\ Attends(t)
  /\ meta = Torn /\ live = Process =>
       left \/ \E t \in Thread : pc[t] \in {"write", "cleanup"}

Attended == OwnIsMine /\ RecordAttended

(* No record of a live process is left without the call or the guard that  *)
(* will take it away, whoever writes, fails, reaps or dies in between, nor *)
(* is a record cut short, but for what a process that died left behind and *)
(* for what somebody tried to remove and could not.                        *)
THEOREM RecordIsAttended == Spec => []NoOrphanRecord
<1> USE ProcessOfAssumption, RetriesAssumption, MaxDepthAssumption, NoOneAssumption
<1>1. Init => Attended
  BY DEF Init, Attended, OwnIsMine, RecordAttended, Ownership
<1>2. LockInv /\ Attended /\ [Next]_vars => Attended'
  <2> SUFFICES ASSUME LockInv, Attended, [Next]_vars PROVE Attended'
    OBVIOUS
  <2>0. /\ \A t \in Thread : guards[t] > 0 => pc[t] \in {"idle", "probe"}
        /\ \A t \in Thread : pc[t] = "insert" => Table(t) = NoOne /\ own[t] \in Ownership
        /\ \A t \in Thread : pc[t] = "write" => own[t] \in Ownership
        /\ TypeOK
    BY DEF LockInv, TypeInv, TypeOK, Chosen, EntryIsHolder, FlockAccounted, Holding, Table
  <2> USE <2>0 DEF TypeOK, Attended, OwnIsMine, RecordAttended, Attends, Steps, Goto
  <2>1. ASSUME NEW t \in Thread, StartAcquire(t) \/ Reenter(t) PROVE Attended'
    BY <2>1 DEF StartAcquire, Reenter
  <2>2. ASSUME NEW t \in Thread, DropInner(t) \/ DropOuter(t) PROVE Attended'
    BY <2>2 DEF DropInner, DropOuter, LockInv, EntryIsHolder, FlockAccounted, Table
  <2>3. ASSUME NEW t \in Thread, ProbeRead(t) \/ ProbeLock(t) \/ ProbeUnlock(t)
        PROVE  Attended'
    BY <2>3 DEF ProbeRead, ProbeLock, ProbeUnlock
  <2>4. ASSUME NEW t \in Thread, TryLock(t) \/ TryLockBusy(t) \/ ReportHolder(t)
        PROVE  Attended'
    BY <2>4 DEF TryLock, TryLockBusy, ReportHolder
  <2>5. ASSUME NEW t \in Thread, Truncate(t) PROVE Attended'
    BY <2>5 DEF Truncate, Ownership
  <2>6. ASSUME NEW t \in Thread, WriteRecord(t) PROVE Attended'
    BY <2>6 DEF WriteRecord, Ownership
  <2>7. ASSUME NEW t \in Thread, WriteFails(t) \/ CleanupPartial(t) \/ CloseSentinel(t)
        PROVE  Attended'
    BY <2>7 DEF WriteFails, CleanupPartial, CloseSentinel, Ownership
  <2>8. ASSUME NEW t \in Thread, Insert(t) PROVE Attended'
    BY <2>8 DEF Insert
  <2>9. ASSUME NEW t \in Thread, ReapRead(t) \/ ReapRemove(t) PROVE Attended'
    <3>1. CASE ReapRead(t)
      BY <3>1 DEF ReapRead, Ownership
    <3>2. CASE ReapRemove(t)
      <4>1. /\ own' = [own EXCEPT ![t] = NoOne] /\ guards' = guards /\ live' = live
            /\ pc[t] = "remove" /\ pc' = [pc EXCEPT ![t] = "idle"]
        BY <3>2 DEF ReapRemove
      <4>2. OwnIsMine'
        BY <4>1
      <4>3. CASE meta' = NoOne
        BY <4>2, <4>3 DEF Ownership
      <4>4. CASE meta' = meta /\ (left' <=> left \/ meta = own[t])
        <5>1. ASSUME ~left', meta \in Ownership, meta.pid \in live
              PROVE  \E u \in Thread : own'[u] = meta /\ Attends(u)'
          <6>1. PICK u \in Thread : own[u] = meta /\ Attends(u)
            BY <5>1, <4>4
          <6>2. u # t
            BY <5>1, <4>4, <6>1
          <6> QED BY <6>1, <6>2, <4>1
        <5>2. ASSUME ~left', meta = Torn, live = Process
              PROVE  \E u \in Thread : pc'[u] \in {"write", "cleanup"}
          <6>1. PICK u \in Thread : pc[u] \in {"write", "cleanup"}
            BY <5>2, <4>4
          <6> QED BY <6>1, <4>1
        <5> QED BY <4>1, <4>2, <4>4, <5>1, <5>2
      <4> QED BY <3>2, <4>3, <4>4 DEF ReapRemove
    <3> QED BY <2>9, <3>1, <3>2
  <2>10. ASSUME NEW p \in Process, Crash(p) PROVE Attended'
    <3>1. /\ live' = live \ {p} /\ p \in live /\ UNCHANGED <<meta, left>>
          /\ \A t \in Thread : IF ProcessOf[t] = p
                              THEN own'[t] = NoOne
                              ELSE own'[t] = own[t] /\ guards'[t] = guards[t] /\ pc'[t] = pc[t]
      BY <2>10 DEF Crash
    <3>2. OwnIsMine'
      BY <3>1
    <3>3. ASSUME meta' \in Ownership, meta'.pid \in live'
          PROVE  left' \/ \E t \in Thread : own'[t] = meta' /\ Attends(t)'
      <4> SUFFICES ASSUME ~left PROVE \E t \in Thread : own'[t] = meta' /\ Attends(t)'
        BY <3>1
      <4>1. PICK t \in Thread : own[t] = meta /\ Attends(t)
        BY <3>1, <3>3
      <4>2. ProcessOf[t] # p
        BY <4>1, <3>1, <3>3 DEF Ownership
      <4> QED BY <4>1, <4>2, <3>1
    <3>4. live' # Process
      BY <3>1
    <3> QED BY <3>2, <3>3, <3>4
  <2>11. CASE UNCHANGED vars
    BY <2>11 DEF vars
  <2> QED
    BY <2>1, <2>2, <2>3, <2>4, <2>5, <2>6, <2>7, <2>8, <2>9, <2>10, <2>11
       DEF Next, Continue
<1>3. Attended => NoOrphanRecord
  BY DEF Attended, RecordAttended, Attends, NoOrphanRecord
<1> QED BY <1>1, <1>2, <1>3, LockInvariant, PTL DEF Spec

-----------------------------------------------------------------------------
(* The abstract holder and depth, read off the guards. *)
GuardsShowHolder ==
  /\ \A t \in Thread : guards[t] > 0 => AbsHolder = t /\ AbsDepth = guards[t]
  /\ (\A t \in Thread : guards[t] = 0) => AbsHolder = NoOne /\ AbsDepth = 0

LEMMA AbstractState == LockInv => GuardsShowHolder
<1> USE ProcessOfAssumption, NoOneAssumption
<1> SUFFICES ASSUME LockInv PROVE GuardsShowHolder
  OBVIOUS
<1>1. ASSUME NEW t \in Thread, guards[t] > 0
      PROVE  AbsHolder = t /\ AbsDepth = guards[t]
  <2>1. Registered = {t} /\ Table(t).depth = guards[t]
    BY <1>1 DEF LockInv, TypeInv, TypeOK, EntryIsHolder, FlockAccounted, Table, Registered
  <2> QED BY <2>1 DEF AbsHolder, AbsDepth
<1>2. ASSUME \A t \in Thread : guards[t] = 0
      PROVE  AbsHolder = NoOne /\ AbsDepth = 0
  <2>1. Registered = {}
    BY <1>2 DEF LockInv, TypeInv, TypeOK, EntryIsHolder, FlockAccounted, Table, Registered
  <2> QED BY <2>1 DEF AbsHolder, AbsDepth
<1> QED BY <1>1, <1>2 DEF GuardsShowHolder

(* The files, the retries and the per-process tables together behave as    *)
(* the one re-entrant lock of ReentrantLock: registering is its Acquire,   *)
(* removing the entry its last Drop, the death of the process its Die, and *)
(* every other step is invisible.                                          *)
THEOREM Refinement == Spec => ImplementsReentrantLock
<1> USE ProcessOfAssumption, RetriesAssumption, MaxDepthAssumption, NoOneAssumption
<1>1. Init => Abs!Init
  BY DEF Init, Abs!Init, AbsHolder, AbsDepth, Registered, Table
<1>2. LockInv /\ LockInv' /\ [Next]_vars => [Abs!Next]_<<AbsHolder, AbsDepth>>
  <2> SUFFICES ASSUME LockInv, LockInv', [Next]_vars PROVE [Abs!Next]_<<AbsHolder, AbsDepth>>
    OBVIOUS
  <2>1. GuardsShowHolder
    BY AbstractState
  <2>2. GuardsShowHolder'
    BY AbstractState, PTL
  <2>3. guards \in [Thread -> Nat] /\ guards' \in [Thread -> Nat]
    BY DEF LockInv, TypeInv, TypeOK
  <2>4. /\ \A t, u \in Thread : guards[t] > 0 /\ guards[u] > 0 => t = u
        /\ \A t, u \in Thread : guards'[t] > 0 /\ guards'[u] > 0 => t = u
    BY DEF LockInv, EntryIsHolder, FlockAccounted, Table
  <2> USE DEF GuardsShowHolder
  <2>5. ASSUME guards' = guards PROVE UNCHANGED <<AbsHolder, AbsDepth>>
    BY <2>1, <2>2, <2>3, <2>5
  <2>6. ASSUME NEW t \in Thread, Reenter(t) PROVE Abs!Next
    <3>1. guards[t] > 0 /\ guards[t] < MaxDepth /\ guards' = [guards EXCEPT ![t] = @ + 1]
      BY <2>6 DEF Reenter, LockInv, TypeInv, TypeOK, EntryIsHolder, Table
    <3>2. AbsHolder = t /\ AbsHolder' = t /\ AbsDepth = guards[t] /\ AbsDepth' = guards[t] + 1
      BY <3>1, <2>1, <2>2, <2>3
    <3>3. Abs!Reenter(t)
      BY <3>1, <3>2 DEF Abs!Reenter
    <3> QED BY <3>3 DEF Abs!Next
  <2>7. ASSUME NEW t \in Thread, Insert(t) PROVE Abs!Next
    <3>1. /\ \A u \in Thread : guards[u] = 0
          /\ guards' = [guards EXCEPT ![t] = 1]
      BY <2>7, <2>3 DEF Insert, Goto, LockInv, TypeInv, TypeOK, EntryIsHolder,
                  FlockAccounted, Holding, Table
    <3>2. AbsHolder = NoOne /\ AbsHolder' = t /\ AbsDepth' = 1
      BY <3>1, <2>1, <2>2, <2>3
    <3>3. Abs!Acquire(t)
      BY <3>2 DEF Abs!Acquire
    <3> QED BY <3>3 DEF Abs!Next
  <2>8. ASSUME NEW t \in Thread, DropInner(t) \/ DropOuter(t) PROVE Abs!Next
    <3>1. /\ guards[t] > 0
          /\ guards' = [guards EXCEPT ![t] = @ - 1]
      BY <2>8 DEF DropInner, DropOuter
    <3>2. AbsHolder = t /\ AbsDepth = guards[t] /\ AbsDepth' = guards[t] - 1
             /\ AbsHolder' = IF guards[t] = 1 THEN NoOne ELSE t
      BY <3>1, <2>1, <2>2, <2>3, <2>4
    <3>3. Abs!Drop(t)
      BY <3>2 DEF Abs!Drop
    <3> QED BY <3>3 DEF Abs!Next
  <2>9. ASSUME NEW p \in Process, Crash(p) PROVE [Abs!Next]_<<AbsHolder, AbsDepth>>
    <3>1. CASE \E t \in Thread : guards[t] > 0 /\ ProcessOf[t] = p
      <4>1. PICK t \in Thread : guards[t] > 0 /\ ProcessOf[t] = p
        BY <3>1
      <4>2. AbsHolder = t /\ AbsHolder' = NoOne /\ AbsDepth' = 0
        BY <4>1, <2>9, <2>1, <2>2, <2>3, <2>4 DEF Crash
      <4>3. Abs!Die(t)
        BY <4>2 DEF Abs!Die
      <4> QED BY <4>3 DEF Abs!Next
    <3>2. CASE ~ \E t \in Thread : guards[t] > 0 /\ ProcessOf[t] = p
      <4>1. guards' = guards
        BY <3>2, <2>9, <2>3 DEF Crash
      <4> QED BY <4>1, <2>5
    <3> QED BY <3>1, <3>2
  <2>10. ASSUME NEW t \in Thread,
                \/ StartAcquire(t) \/ ProbeRead(t) \/ WriteFails(t) \/ TryLock(t)
                \/ TryLockBusy(t) \/ ReportHolder(t) \/ Truncate(t) \/ WriteRecord(t)
                \/ CleanupPartial(t) \/ CloseSentinel(t) \/ ReapRead(t)
                \/ ReapRemove(t) \/ ProbeLock(t) \/ ProbeUnlock(t)
         PROVE  UNCHANGED <<AbsHolder, AbsDepth>>
    <3>1. guards' = guards
      BY <2>10 DEF StartAcquire, ProbeRead, WriteFails, TryLock, TryLockBusy,
           ReportHolder, Truncate, WriteRecord, CleanupPartial, CloseSentinel,
           ReapRead, ReapRemove, ProbeLock, ProbeUnlock
    <3> QED BY <3>1, <2>5
  <2>11. CASE UNCHANGED vars
    BY <2>11, <2>5 DEF vars
  <2> QED
    BY <2>6, <2>7, <2>8, <2>9, <2>10, <2>11 DEF Next, Continue
<1> QED BY <1>1, <1>2, LockInvariant, PTL DEF Spec, ImplementsReentrantLock, Abs!Spec
=============================================================================
