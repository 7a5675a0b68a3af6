-------------------------- MODULE WatchLeaseProofs --------------------------
(***************************************************************************)
(* What the watch lease promises although its sentinel is unlinked under   *)
(* running processes, for any number of services, commands and inodes.     *)
(***************************************************************************)
EXTENDS WatchLease, TLAPS

(* Type correctness: whatever the interleaving and the crashes, the files  *)
(* are well formed and nobody locks a sentinel it has not opened.          *)
THEOREM TypeCorrect == Spec => []TypeOK
<1> USE ServiceAssumption, NoneAssumption, MalformedAssumption
<1>1. Init => TypeOK
  BY DEF Init, TypeOK, Process, ServiceSteps, CommandSteps
<1>2. TypeOK /\ [Next]_vars => TypeOK'
  <2> SUFFICES ASSUME TypeOK, [Next]_vars PROVE TypeOK'
    OBVIOUS
  <2> USE DEF TypeOK, Process, ServiceSteps, CommandSteps, Goto, commandVars, Close
  <2>0. CASE UNCHANGED vars
    BY <2>0 DEF vars
  <2>1. CASE Next
    <3>1. sawIdle' \in [Command -> BOOLEAN]
      BY <2>1 DEF Next
    <3> USE <3>1
    <3>2. ASSUME NEW s \in Service, StartService(s) \/ StopService(s) \/ Note(s) PROVE TypeOK'
      BY <3>2 DEF StartService, StopService, Note
    <3>3. ASSUME NEW s \in Service, OpenSentinel(s) PROVE TypeOK'
      <4>1. path' \in Inode
        BY <3>3 DEF OpenSentinel
      <4> QED BY <3>3, <4>1 DEF OpenSentinel
    <3>4. ASSUME NEW s \in Service, LockSentinel(s) \/ LeaseRefused(s) PROVE TypeOK'
      BY <3>4 DEF LockSentinel, LeaseRefused
    <3>5. ASSUME NEW s \in Service, PublishState(s) \/ PublishFails(s) PROVE TypeOK'
      BY <3>5 DEF PublishState, PublishFails
    <3>6. ASSUME NEW s \in Service, BindSocket(s) \/ BindFails(s) PROVE TypeOK'
      BY <3>6 DEF BindSocket, BindFails
    <3>7. ASSUME NEW s \in Service,
                 LoadOwn(s) \/ RemoveState(s) \/ RemoveLock(s) \/ RemoveSocket(s) \/ CloseLease(s)
          PROVE  TypeOK'
      BY <3>7 DEF LoadOwn, RemoveState, RemoveLock, RemoveSocket, CloseLease
    <3>8. ASSUME NEW c \in Command, Begin(c) \/ StatusLoad(c) \/ StatusExists(c) PROVE TypeOK'
      BY <3>8 DEF Begin, StatusLoad, StatusExists, Conclude
    <3>9. ASSUME NEW c \in Command, StatusOpen(c) \/ StatusLocked(c) PROVE TypeOK'
      BY <3>9 DEF StatusOpen, StatusLocked, Conclude
    <3>10. ASSUME NEW c \in Command, StatusContended(c) \/ StatusLockFails(c) \/ StatusUnlock(c)
           PROVE  TypeOK'
      BY <3>10 DEF StatusContended, StatusLockFails, StatusUnlock, Conclude
    <3>11. ASSUME NEW c \in Command, ReportStatus(c) \/ DecideCleanup(c) PROVE TypeOK'
      BY <3>11 DEF ReportStatus, DecideCleanup, AfterCleanup, Return
    <3>12. ASSUME NEW c \in Command, DecideAdmission(c) \/ AdmittedDone(c) PROVE TypeOK'
      BY <3>12 DEF DecideAdmission, AdmittedDone, Return
    <3>13. ASSUME NEW c \in Command, CleanExists(c) \/ CleanOpen(c) PROVE TypeOK'
      BY <3>13 DEF CleanExists, CleanOpen, AfterCleanup, Return
    <3>14. ASSUME NEW c \in Command, CleanTry(c) PROVE TypeOK'
      BY <3>14 DEF CleanTry, AfterCleanup, Return
    <3>15. ASSUME NEW c \in Command,
                  CleanState(c) \/ CleanLock(c) \/ CleanSocket(c) \/ RemovalFails(c)
           PROVE  TypeOK'
      BY <3>15 DEF CleanState, CleanLock, CleanSocket, RemovalFails, AfterCleanup, Return
    <3>16. ASSUME NEW p \in Process, Crash(p) PROVE TypeOK'
      BY <3>16 DEF Crash
    <3> QED
      BY <2>1, <3>2, <3>3, <3>4, <3>5, <3>6, <3>7, <3>8, <3>9, <3>10, <3>11, <3>12,
         <3>13, <3>14, <3>15, <3>16 DEF Next, Step, ContinueService, ContinueCommand
  <2> QED BY <2>0, <2>1
<1> QED BY <1>1, <1>2, PTL DEF Spec

-----------------------------------------------------------------------------
(* The steps at which a process may have the flock of the inode it opened. *)
Holding == {"publish", "bind", "serving", "loadOwn", "removeState", "removeLock",
            "removeSocket", "close", "unlock", "cleanState", "cleanLock", "cleanSocket"}

(* Every flock, also one of an inode that is unlinked, is held through an  *)
(* open file by a process that is on its way to close it.                  *)
LocksAreHeld ==
  \A i \in Inode : lock[i] # None => fd[lock[i]] = i /\ pc[lock[i]] \in Holding

(* No step leaves a flock behind: the steps after which a process goes     *)
(* idle, is refused or dies close its file, and a step that opens or locks *)
(* is taken by a process that has no flock.                                *)
LEMMA LocksInvariant == Spec => []LocksAreHeld
<1> USE ServiceAssumption, NoneAssumption, MalformedAssumption
<1>1. Init => LocksAreHeld
  BY DEF Init, LocksAreHeld
<1>2. TypeOK /\ LocksAreHeld /\ [Next]_vars => LocksAreHeld'
  <2> SUFFICES ASSUME TypeOK, LocksAreHeld, [Next]_vars PROVE LocksAreHeld'
    OBVIOUS
  <2> USE DEF TypeOK, Process, LocksAreHeld, Holding, Goto, commandVars, Close
  <2>0. CASE UNCHANGED vars
    BY <2>0 DEF vars
  <2>1. ASSUME NEW s \in Service,
               StartService(s) \/ StopService(s) \/ Note(s) \/ OpenSentinel(s)
        PROVE  LocksAreHeld'
    BY <2>1 DEF StartService, StopService, Note, OpenSentinel
  <2>2. ASSUME NEW s \in Service, LockSentinel(s) \/ LeaseRefused(s) PROVE LocksAreHeld'
    BY <2>2 DEF LockSentinel, LeaseRefused
  <2>3. ASSUME NEW s \in Service, PublishState(s) \/ PublishFails(s) \/ BindSocket(s) \/ BindFails(s)
        PROVE  LocksAreHeld'
    BY <2>3 DEF PublishState, PublishFails, BindSocket, BindFails
  <2>4. ASSUME NEW s \in Service,
               LoadOwn(s) \/ RemoveState(s) \/ RemoveLock(s) \/ RemoveSocket(s) \/ CloseLease(s)
        PROVE  LocksAreHeld'
    BY <2>4 DEF LoadOwn, RemoveState, RemoveLock, RemoveSocket, CloseLease
  <2>5. ASSUME NEW c \in Command,
               Begin(c) \/ StatusLoad(c) \/ StatusExists(c) \/ StatusOpen(c) \/ StatusLocked(c)
        PROVE  LocksAreHeld'
    BY <2>5 DEF Begin, StatusLoad, StatusExists, StatusOpen, StatusLocked, Conclude
  <2>6. ASSUME NEW c \in Command,
               StatusContended(c) \/ StatusLockFails(c) \/ StatusUnlock(c) \/ ReportStatus(c)
        PROVE  LocksAreHeld'
    BY <2>6 DEF StatusContended, StatusLockFails, StatusUnlock, ReportStatus, Conclude, Return
  <2>7. ASSUME NEW c \in Command, DecideCleanup(c) \/ DecideAdmission(c) \/ AdmittedDone(c)
        PROVE  LocksAreHeld'
    BY <2>7 DEF DecideCleanup, DecideAdmission, AdmittedDone, AfterCleanup, Return
  <2>8. ASSUME NEW c \in Command, CleanExists(c) \/ CleanOpen(c) \/ CleanTry(c) PROVE LocksAreHeld'
    BY <2>8 DEF CleanExists, CleanOpen, CleanTry, AfterCleanup, Return
  <2>9. ASSUME NEW c \in Command,
               CleanState(c) \/ CleanLock(c) \/ CleanSocket(c) \/ RemovalFails(c)
        PROVE  LocksAreHeld'
    BY <2>9 DEF CleanState, CleanLock, CleanSocket, RemovalFails, AfterCleanup, Return
  <2>10. ASSUME NEW p \in Process, Crash(p) PROVE LocksAreHeld'
    BY <2>10 DEF Crash
  <2> QED
    BY <2>0, <2>1, <2>2, <2>3, <2>4, <2>5, <2>6, <2>7, <2>8, <2>9, <2>10
       DEF Next, Step, ContinueService, ContinueCommand
<1> QED BY <1>1, <1>2, TypeCorrect, PTL DEF Spec

(* A service alone in the repository gets the lease at its one attempt,    *)
(* whatever its predecessors and interrupted cleanups left behind: a flock *)
(* has a holder, and neither an idle nor a dead process is one.            *)
THEOREM LeaseIsFree == Spec => []LeftoversNeverBlock
<1>1. TypeOK /\ LocksAreHeld => LeftoversNeverBlock
  BY NoneAssumption DEF TypeOK, LocksAreHeld, Holding, LeftoversNeverBlock, Quiet, Process
<1> QED BY <1>1, TypeCorrect, LocksInvariant, PTL

-----------------------------------------------------------------------------
(* Why a command that found no live service has seen the lease free:       *)
(* either the name led nowhere, or the command got the flock of the inode  *)
(* the name leads to, or the name has left the inode it opened -- and a    *)
(* name changes its inode only by leading nowhere in between.  A verdict   *)
(* of Corrupt shows nothing, but what the cleanup does on it rests on a    *)
(* lock of its own.                                                        *)
Yielded(c) ==
  /\ pc[c] \in {"try", "cleanTry"} /\ fd[c] # path => sawIdle[c]
  /\ pc[c] \in {"unlock", "cleanState", "cleanLock", "cleanSocket"} => sawIdle[c]
  /\ pc[c] \in {"decide", "admitted"} /\ verdict[c] \in {"inactive", "stale"} => sawIdle[c]
  /\ pc[c] = "admitted" => ~LiveWatch(c)

(* The history of a command during one look at the lease. *)
LEMMA HistoryGrows ==
  ASSUME TypeOK, Next, NEW c \in Command, pc'[c] \notin {"idle", "dead", "load"}
  PROVE  sawIdle'[c] <=> sawIdle[c] \/ ~LeaseHeldAtPath'
BY DEF Next, TypeOK

(* The name of the sentinel never passes from one inode to another. *)
LEMMA NameGoesThroughNone ==
  ASSUME TypeOK, Next, path # None, path' # path
  PROVE  path' = None
BY DEF Next, Step, ContinueService, ContinueCommand, StartService, StopService, Note,
       OpenSentinel, LockSentinel, LeaseRefused, PublishState, PublishFails, BindSocket,
       BindFails, LoadOwn, RemoveState, RemoveLock, RemoveSocket, CloseLease, Begin,
       StatusLoad, StatusExists, StatusOpen, StatusLocked, StatusContended, StatusLockFails,
       StatusUnlock, ReportStatus, DecideCleanup, DecideAdmission, AdmittedDone, CleanExists,
       CleanOpen, CleanTry, CleanState, CleanLock, CleanSocket, RemovalFails, Crash

(* A command keeps what it saw while others move: its own steps are the    *)
(* only ones that change where it stands.                                  *)
LEMMA OthersLetYield ==
  ASSUME TypeOK, Next, NEW c \in Command, Yielded(c),
         pc'[c] = pc[c], fd'[c] = fd[c], verdict'[c] = verdict[c]
  PROVE  Yielded(c)'
<1>1. pc[c] \notin {"idle", "dead", "load"} =>
        (sawIdle'[c] <=> sawIdle[c] \/ ~LeaseHeldAtPath')
  BY HistoryGrows
<1>2. pc[c] \in {"try", "cleanTry"} /\ fd[c] # path' => sawIdle'[c]
  <2> SUFFICES ASSUME pc[c] \in {"try", "cleanTry"}, fd[c] # path', fd[c] = path
               PROVE  sawIdle'[c]
    BY <1>1 DEF Yielded
  <2>1. path # None
    BY DEF TypeOK, Process
  <2>2. path' = None
    BY <2>1, NameGoesThroughNone
  <2> QED BY <2>2, <1>1 DEF LeaseHeldAtPath
<1> QED BY <1>1, <1>2 DEF Yielded, LiveWatch

(* No command works against a service that has its sentinel: one that      *)
(* removes artifacts or is admitted has seen the lease free in its last    *)
(* look, unless the status was Corrupt and it does no more than go on.     *)
(* Neither a probe of a file that a new service has replaced nor a cleanup *)
(* that began before a service did passes for that.                        *)
THEOREM CommandsYield == Spec => []CommandsYieldToLease
<1> USE ServiceAssumption, NoneAssumption, MalformedAssumption
<1> DEFINE AllYielded == \A c \in Command : Yielded(c)
<1>1. Init => AllYielded
  BY DEF Init, Yielded, Process
<1>2. TypeOK /\ AllYielded /\ [Next]_vars => AllYielded'
  <2> SUFFICES ASSUME TypeOK, AllYielded, [Next]_vars PROVE AllYielded'
    OBVIOUS
  <2>0. CASE UNCHANGED vars
    BY <2>0 DEF vars, Yielded, LiveWatch
  <2>1. CASE Next
    <3> USE <2>1
    <3>1. ASSUME NEW c \in Command, pc'[c] = pc[c], fd'[c] = fd[c], verdict'[c] = verdict[c]
          PROVE  Yielded(c)'
      BY <3>1, OthersLetYield
    <3>3. ASSUME NEW p \in Process,
                 \A d \in Command \ {p} :
                   pc'[d] = pc[d] /\ fd'[d] = fd[d] /\ verdict'[d] = verdict[d],
                 p \in Command => Yielded(p)'
          PROVE  AllYielded'
      BY <3>1, <3>3
    <3>4. ASSUME NEW s \in Service,
                 \/ StartService(s) \/ StopService(s) \/ Note(s) \/ PublishFails(s)
                 \/ BindFails(s) \/ ContinueService(s)
          PROVE  AllYielded'
      <4>1. \A d \in Command : pc'[d] = pc[d] /\ fd'[d] = fd[d] /\ verdict'[d] = verdict[d]
        BY <3>4
           DEF TypeOK, Process, StartService, StopService, Note, PublishFails, BindFails,
               ContinueService, OpenSentinel, LockSentinel, LeaseRefused, PublishState,
               BindSocket, LoadOwn, RemoveState, RemoveLock, RemoveSocket, CloseLease,
               Goto, Close, commandVars
      <4> QED BY <4>1, <3>1
    <3>5. ASSUME NEW p \in Process, Crash(p) PROVE AllYielded'
      <4>1. \A d \in Command \ {p} :
              pc'[d] = pc[d] /\ fd'[d] = fd[d] /\ verdict'[d] = verdict[d]
        BY <3>5 DEF Crash, Close, commandVars, TypeOK, Process
      <4>2. pc'[p] = "dead"
        BY <3>5 DEF Crash, TypeOK
      <4>3. Yielded(p)'
        BY <4>2 DEF Yielded
      <4> QED BY <4>1, <4>3, <3>3
    <3>6. ASSUME NEW c \in Command, Begin(c) \/ ContinueCommand(c) PROVE AllYielded'
      <4>1. \A d \in Command \ {c} :
              pc'[d] = pc[d] /\ fd'[d] = fd[d] /\ verdict'[d] = verdict[d]
        BY <3>6
           DEF TypeOK, Process, Begin, ContinueCommand, StatusLoad, StatusExists, StatusOpen,
               StatusLocked, StatusContended, StatusLockFails, StatusUnlock, ReportStatus,
               DecideCleanup, DecideAdmission, AdmittedDone, CleanExists, CleanOpen, CleanTry,
               CleanState, CleanLock, CleanSocket, RemovalFails, AfterCleanup, Return,
               Conclude, Goto, Close, commandVars
      <4>2. /\ c \in Process /\ pc[c] \in CommandSteps /\ Yielded(c)
            /\ pc'[c] \notin {"idle", "dead", "load"} =>
                 (sawIdle'[c] <=> sawIdle[c] \/ ~LeaseHeldAtPath')
        BY HistoryGrows DEF TypeOK, Process
      <4>a. Yielded(c)' => AllYielded'
        BY ONLY <4>1, <4>2, <3>3
      <4> HIDE DEF AllYielded
      <4> USE <4>2 DEF TypeOK, Yielded, LiveWatch, Goto
      <4>3. CASE Begin(c) \/ StatusLoad(c) \/ ReportStatus(c) \/ AdmittedDone(c)
        <5>1. Yielded(c)'
          BY <4>3 DEF Begin, StatusLoad, ReportStatus, AdmittedDone, Return
        <5> QED BY ONLY <5>1, <4>a
      <4>4. CASE StatusExists(c) \/ StatusOpen(c)
        <5>1. Yielded(c)'
          BY <4>4 DEF StatusExists, StatusOpen, Conclude, LeaseHeldAtPath
        <5> QED BY ONLY <5>1, <4>a
      <4>5. CASE StatusLocked(c)
        <5>1. pc'[c] = "unlock" /\ lock' = [lock EXCEPT ![fd[c]] = c] /\ path' = path
              /\ fd[c] \in Inode /\ (fd[c] # path => sawIdle[c])
          BY <4>5 DEF StatusLocked
        <5>2. fd[c] = path => ~LeaseHeldAtPath'
          BY <5>1 DEF LeaseHeldAtPath
        <5>3. sawIdle'[c]
          BY <5>1, <5>2
        <5>4. Yielded(c)'
          BY <5>1, <5>3
        <5> QED BY ONLY <5>4, <4>a
      <4>6. CASE StatusContended(c) \/ StatusLockFails(c) \/ StatusUnlock(c)
        <5>1. Yielded(c)'
          BY <4>6 DEF StatusContended, StatusLockFails, StatusUnlock, Conclude, commandVars
        <5> QED BY ONLY <5>1, <4>a
      <4>7. CASE DecideCleanup(c) \/ DecideAdmission(c)
        <5>1. Yielded(c)'
          BY <4>7 DEF DecideCleanup, DecideAdmission, AfterCleanup, Return, LiveWatch
        <5> QED BY ONLY <5>1, <4>a
      <4>8. CASE CleanExists(c) \/ CleanOpen(c)
        <5>1. Yielded(c)'
          BY <4>8 DEF CleanExists, CleanOpen, AfterCleanup, Return, LeaseHeldAtPath
        <5> QED BY ONLY <5>1, <4>a
      <4>b. CASE CleanTry(c)
        <5>1. ASSUME lock[fd[c]] = None PROVE Yielded(c)'
          <6>1. pc'[c] = "cleanState" /\ lock' = [lock EXCEPT ![fd[c]] = c] /\ path' = path
                /\ fd[c] \in Inode /\ (fd[c] # path => sawIdle[c])
            BY <4>b, <5>1 DEF CleanTry
          <6>2. fd[c] = path => ~LeaseHeldAtPath'
            BY <6>1 DEF LeaseHeldAtPath
          <6>3. sawIdle'[c]
            BY <6>1, <6>2
          <6> QED BY <6>1, <6>3
        <5>2. ASSUME lock[fd[c]] # None PROVE Yielded(c)'
          <6>1. pc'[c] \in {"idle", "load"}
            BY <4>b, <5>2 DEF CleanTry, AfterCleanup, Return
          <6> QED BY <6>1
        <5>3. Yielded(c)'
          BY <5>1, <5>2
        <5> QED BY ONLY <5>3, <4>a
      <4>9. CASE CleanState(c) \/ CleanLock(c) \/ CleanSocket(c) \/ RemovalFails(c)
        <5>1. Yielded(c)'
          BY <4>9 DEF CleanState, CleanLock, CleanSocket, RemovalFails, AfterCleanup, Return
        <5> QED BY ONLY <5>1, <4>a
      <4> QED
        BY <3>6, <4>3, <4>4, <4>5, <4>6, <4>7, <4>8, <4>b, <4>9 DEF ContinueCommand
    <3> QED BY <3>4, <3>5, <3>6 DEF Next, Step
  <2> QED BY <2>0, <2>1
<1>3. TypeOK /\ AllYielded => CommandsYieldToLease
  BY DEF Yielded, LiveWatch, CommandsYieldToLease, TypeOK
<1> QED BY <1>1, <1>2, <1>3, TypeCorrect, PTL DEF Spec
=============================================================================
