----------------------------- MODULE WatchLease -----------------------------
(***************************************************************************)
(* The lease of the watch service of a repository (src/pipeline/watch:     *)
(* lease, status) and the admission check that mutating commands run       *)
(* against it (acquire_write_admission).                                   *)
(*                                                                         *)
(* The lease is a flock on watch-daemon.json.flock, a state file that      *)
(* names the owner, and a control socket.  Unlike the writer lock's, this  *)
(* sentinel is unlinked: by the owner when it drops the lease and by any   *)
(* command that finds the artifacts stale.  A flock belongs to the inode,  *)
(* not to the path, so the model keeps inodes: `path` is the inode the     *)
(* name leads to and `fd[p]` the one process p has open.                   *)
(*                                                                         *)
(* The state file is always replaced by rename (atomic_write), so no       *)
(* reader sees half of one; but it may be unreadable, or of a version of   *)
(* the program that this one cannot parse, and the status is Corrupt then. *)
(***************************************************************************)
EXTENDS Naturals, FiniteSets

CONSTANTS
  Service,   \* processes that run the watch service
  Command,   \* processes that run commands
  Inode,     \* inodes of the sentinel file
  None,      \* no inode, no owner, no state file
  Malformed  \* a state file that could not be read or parsed

ASSUME ServiceAssumption == Service \cap Command = {}
ASSUME NoneAssumption    == None \notin Service \cup Command \cup Inode \cup {Malformed}
ASSUME MalformedAssumption == Malformed \notin Service

Process == Service \cup Command

VARIABLES
  path,    \* inode under the name watch-daemon.json.flock, or None
  lock,    \* [Inode -> holder of its flock, or None]
  fd,      \* [Process -> the inode it has open, or None]
  state,   \* the service named in watch-daemon.json, or None
  socket,  \* the service bound to the control socket, or None
  pc,      \* next step of each process
  view,    \* [Command -> what load_watch_state returned]
  verdict, \* [Command -> the WatchServiceStatus computed last]
  call,    \* [Command -> what the status is computed for]
  sawIdle  \* history: [Command -> whether at some moment since its last look
           \* began no service had the lease on the file under the name]

vars == <<path, lock, fd, state, socket, pc, view, verdict, call, sawIdle>>

ServiceSteps == {"idle", "open", "try", "publish", "bind", "serving", "loadOwn",
                 "removeState", "removeLock", "removeSocket", "close", "dead"}
CommandSteps == {"idle", "load", "exists", "open", "try", "unlock", "decide",
                 "cleanExists", "cleanOpen", "cleanTry", "cleanState",
                 "cleanLock", "cleanSocket", "admitted", "dead"}

TypeOK ==
  /\ path \in Inode \cup {None}
  /\ lock \in [Inode -> Process \cup {None}]
  /\ fd \in [Process -> Inode \cup {None}]
  /\ state \in Service \cup {None}
  /\ socket \in Service \cup {None}
  /\ pc \in [Process -> ServiceSteps \cup CommandSteps]
  /\ \A s \in Service : pc[s] \in ServiceSteps
  /\ \A c \in Command : pc[c] \in CommandSteps
  /\ view \in [Command -> Service \cup {None, Malformed}]
  /\ verdict \in [Command -> {"inactive", "starting", "running", "stale", "corrupt"}]
  /\ call \in [Command -> {"status", "cleanup", "admission",
                           "admissionCleanup", "admissionRecheck"}]
  /\ sawIdle \in [Command -> BOOLEAN]
  /\ \A p \in Process : pc[p] \in {"try", "cleanTry"} => fd[p] # None

Init ==
  /\ path = None
  /\ lock = [i \in Inode |-> None]
  /\ fd = [p \in Process |-> None]
  /\ state = None
  /\ socket = None
  /\ pc = [p \in Process |-> "idle"]
  /\ view = [c \in Command |-> None]
  /\ verdict = [c \in Command |-> "inactive"]
  /\ call = [c \in Command |-> "status"]
  /\ sawIdle = [c \in Command |-> FALSE]

Goto(p, from, to) == pc[p] = from /\ pc' = [pc EXCEPT ![p] = to]

Close(p) ==
  /\ fd' = [fd EXCEPT ![p] = None]
  /\ lock' = [i \in Inode |-> IF lock[i] = p THEN None ELSE lock[i]]

commandVars == <<view, verdict, call>>

-----------------------------------------------------------------------------
(* acquire_watch_daemon_lease *)

StartService(s) ==
  /\ Goto(s, "idle", "open")
  /\ UNCHANGED <<path, lock, fd, state, socket, commandVars>>

(* Mutant: opened without create(true), an error taken for an open file. *)
OpenSentinel_NoCreate(s) ==
  /\ Goto(s, "open", "try")
  /\ fd' = [fd EXCEPT ![s] = path]
  /\ UNCHANGED <<path, lock, state, socket, commandVars>>

(* open with O_CREAT: a missing file comes back under a new inode. *)
OpenSentinel(s) ==
  /\ Goto(s, "open", "try")
  /\ IF path = None
       THEN \E i \in Inode : /\ \A p \in Process : fd[p] # i
                             /\ path' = i
       ELSE UNCHANGED path
  /\ fd' = [fd EXCEPT ![s] = path']
  /\ UNCHANGED <<lock, state, socket, commandVars>>

LockSentinel(s) ==
  /\ Goto(s, "try", "publish")
  /\ lock[fd[s]] = None
  /\ lock' = [lock EXCEPT ![fd[s]] = s]
  /\ UNCHANGED <<path, fd, state, socket, commandVars>>

(* HeldByOther or HeldByStarting: one attempt, no retry. *)
LeaseRefused(s) ==
  /\ Goto(s, "try", "idle")
  /\ lock[fd[s]] # None
  /\ fd' = [fd EXCEPT ![s] = None]
  /\ UNCHANGED <<path, lock, state, socket, commandVars>>

PublishState(s) ==
  /\ Goto(s, "publish", "bind")
  /\ state' = s
  /\ UNCHANGED <<path, lock, fd, socket, commandVars>>

(* The state file cannot be written: returning closes the sentinel and     *)
(* leaves it where it is.                                                  *)
PublishFails(s) ==
  /\ Goto(s, "publish", "idle")
  /\ Close(s)
  /\ UNCHANGED <<path, state, socket, commandVars>>

(* spawn_control_listener: whatever is at the endpoint is removed first.   *)
BindSocket(s) ==
  /\ Goto(s, "bind", "serving")
  /\ socket' = s
  /\ UNCHANGED <<path, lock, fd, state, commandVars>>

BindFails(s) ==
  /\ Goto(s, "bind", "loadOwn")
  /\ UNCHANGED <<path, lock, fd, state, socket, commandVars>>

(* Every telemetry note rewrites the state file. *)
Note(s) ==
  /\ pc[s] = "serving"
  /\ state # s
  /\ state' = s
  /\ UNCHANGED <<path, lock, fd, socket, pc, commandVars>>

StopService(s) ==
  /\ Goto(s, "serving", "loadOwn")
  /\ UNCHANGED <<path, lock, fd, state, socket, commandVars>>

(* Drop of the lease: the three artifacts go, by name, if the state file   *)
(* can be read and still names this service, and what cannot be removed    *)
(* (cleanup_file warns) stays; the flock is released last.                 *)
LoadOwn(s) ==
  /\ \E to \in {"removeState", "close"} :
       /\ to = "removeState" => state = s
       /\ Goto(s, "loadOwn", to)
  /\ UNCHANGED <<path, lock, fd, state, socket, commandVars>>

RemoveState(s) ==
  /\ Goto(s, "removeState", "removeLock")
  /\ state' \in {None, state}
  /\ UNCHANGED <<path, lock, fd, socket, commandVars>>

RemoveLock(s) ==
  /\ Goto(s, "removeLock", "removeSocket")
  /\ path' \in {None, path}
  /\ UNCHANGED <<lock, fd, state, socket, commandVars>>

RemoveSocket(s) ==
  /\ Goto(s, "removeSocket", "close")
  /\ socket' \in {None, socket}
  /\ UNCHANGED <<path, lock, fd, state, commandVars>>

CloseLease(s) ==
  /\ Goto(s, "close", "idle")
  /\ Close(s)
  /\ UNCHANGED <<path, state, socket, commandVars>>

-----------------------------------------------------------------------------
(* Commands: a plain watch_service_status, a cleanup_stale_watch_artifacts *)
(* or an acquire_write_admission.                                          *)

(* What the call knew is gone. *)
Return(c) ==
  /\ pc' = [pc EXCEPT ![c] = "idle"]
  /\ verdict' = [verdict EXCEPT ![c] = "inactive"]
  /\ call' = [call EXCEPT ![c] = "status"]

Begin(c) ==
  /\ Goto(c, "idle", "load")
  /\ \E why \in {"status", "cleanup", "admission"} : call' = [call EXCEPT ![c] = why]
  /\ UNCHANGED <<path, lock, fd, state, socket, view, verdict>>

(* watch_service_status *)
StatusLoad(c) ==
  /\ Goto(c, "load", "exists")
  /\ \E read \in {state, Malformed} : view' = [view EXCEPT ![c] = read]
  /\ UNCHANGED <<path, lock, fd, state, socket, verdict, call>>

Conclude(c, from, what) ==
  /\ Goto(c, from, "decide")
  /\ verdict' = [verdict EXCEPT ![c] = what]
  /\ view' = [view EXCEPT ![c] = None]

StatusExists(c) ==
  /\ \/ /\ path = None
        /\ Conclude(c, "exists", CASE view[c] = None -> "inactive"
                                   [] view[c] = Malformed -> "corrupt"
                                   [] OTHER -> "stale")
     \/ path # None /\ Goto(c, "exists", "open") /\ UNCHANGED <<view, verdict>>
  /\ UNCHANGED <<path, lock, fd, state, socket, call>>

StatusOpen(c) ==
  /\ \/ path = None /\ Conclude(c, "open", "inactive") /\ UNCHANGED fd
     \/ path # None /\ Conclude(c, "open", "corrupt") /\ UNCHANGED fd  \* an error of open
     \/ /\ path # None
        /\ Goto(c, "open", "try")
        /\ fd' = [fd EXCEPT ![c] = path]
        /\ UNCHANGED <<view, verdict>>
  /\ UNCHANGED <<path, lock, state, socket, call>>

(* A lock that can be taken has no owner: the probe holds it until the     *)
(* file goes out of scope.                                                 *)
StatusLocked(c) ==
  /\ Goto(c, "try", "unlock")
  /\ lock[fd[c]] = None
  /\ lock' = [lock EXCEPT ![fd[c]] = c]
  /\ verdict' = [verdict EXCEPT ![c] = "stale"]
  /\ view' = [view EXCEPT ![c] = None]
  /\ UNCHANGED <<path, fd, state, socket, call>>

StatusContended(c) ==
  /\ pc[c] = "try" /\ lock[fd[c]] # None
  /\ Conclude(c, "try", CASE view[c] = None -> "starting"
                          [] view[c] = Malformed -> "corrupt"
                          [] OTHER -> "running")
  /\ fd' = [fd EXCEPT ![c] = None]
  /\ UNCHANGED <<path, lock, state, socket, call>>

(* flock fails for another reason than contention. *)
StatusLockFails(c) ==
  /\ Conclude(c, "try", "corrupt")
  /\ fd' = [fd EXCEPT ![c] = None]
  /\ UNCHANGED <<path, lock, state, socket, call>>

StatusUnlock(c) ==
  /\ Goto(c, "unlock", "decide")
  /\ Close(c)
  /\ UNCHANGED <<path, state, socket, commandVars>>

(* Mutant: a service that has not published its state is not a live one. *)
LiveWatch_Running(c) == verdict[c] = "running"

(* live_watch_lock_error *)
LiveWatch(c) == verdict[c] \in {"starting", "running"}

(* The cleanup is over: the command returns, or an admission looks again,  *)
(* whether the cleanup succeeded or not.                                   *)
AfterCleanup(c) ==
  IF call[c] = "cleanup"
    THEN Return(c)
    ELSE /\ pc' = [pc EXCEPT ![c] = "load"]
         /\ verdict' = [verdict EXCEPT ![c] = "inactive"]
         /\ call' = [call EXCEPT ![c] = "admissionRecheck"]

ReportStatus(c) ==
  /\ pc[c] = "decide" /\ call[c] = "status"
  /\ Return(c)
  /\ UNCHANGED <<path, lock, fd, state, socket, view>>

DecideCleanup(c) ==
  /\ pc[c] = "decide"
  /\ call[c] \in {"cleanup", "admissionCleanup"}
  /\ \/ LiveWatch(c) /\ AfterCleanup(c)
     \/ /\ verdict[c] = "inactive"
        /\ pc' = [pc EXCEPT ![c] = "cleanLock"]
        /\ UNCHANGED <<verdict, call>>
     \/ /\ verdict[c] \in {"stale", "corrupt"}
        /\ pc' = [pc EXCEPT ![c] = "cleanExists"]
        /\ UNCHANGED <<verdict, call>>
  /\ UNCHANGED <<path, lock, fd, state, socket, view>>

(* A status that is Corrupt after the cleanup, as it is when the state file *)
(* of a running service cannot be parsed, does not keep the writer out.     *)
DecideAdmission(c) ==
  /\ pc[c] = "decide"
  /\ call[c] \in {"admission", "admissionRecheck"}
  /\ \/ LiveWatch(c) /\ Return(c)
     \/ /\ ~LiveWatch(c)
        /\ verdict[c] = "inactive" \/ call[c] = "admissionRecheck"
        /\ pc' = [pc EXCEPT ![c] = "admitted"]
        /\ UNCHANGED <<verdict, call>>
     \/ /\ call[c] = "admission" /\ verdict[c] \in {"stale", "corrupt"}
        /\ pc' = [pc EXCEPT ![c] = "load"]
        /\ verdict' = [verdict EXCEPT ![c] = "inactive"]
        /\ call' = [call EXCEPT ![c] = "admissionCleanup"]
  /\ UNCHANGED <<path, lock, fd, state, socket, view>>

(* cleanup_stale_watch_artifacts, the branch of Stale and Corrupt: the     *)
(* sentinel is locked if there is one, the artifacts are removed by name,  *)
(* and an error ends the cleanup where it is.                              *)
CleanExists(c) ==
  /\ Goto(c, "cleanExists", IF path = None THEN "cleanState" ELSE "cleanOpen")
  /\ UNCHANGED <<path, lock, fd, state, socket, commandVars>>

CleanOpen(c) ==
  /\ pc[c] = "cleanOpen"
  /\ \/ AfterCleanup(c) /\ UNCHANGED fd        \* the sentinel is gone, or another error
     \/ /\ path # None
        /\ pc' = [pc EXCEPT ![c] = "cleanTry"]
        /\ fd' = [fd EXCEPT ![c] = path]
        /\ UNCHANGED <<verdict, call>>
  /\ UNCHANGED <<path, lock, state, socket, view>>

CleanTry(c) ==
  /\ pc[c] = "cleanTry"
  /\ IF lock[fd[c]] = None
       THEN /\ pc' = [pc EXCEPT ![c] = "cleanState"]
            /\ lock' = [lock EXCEPT ![fd[c]] = c]
            /\ UNCHANGED <<fd, verdict, call>>
       ELSE /\ AfterCleanup(c)
            /\ fd' = [fd EXCEPT ![c] = None]
            /\ UNCHANGED lock
  /\ UNCHANGED <<path, state, socket, view>>

CleanState(c) ==
  /\ Goto(c, "cleanState", "cleanLock")
  /\ state' = None
  /\ UNCHANGED <<path, lock, fd, socket, commandVars>>

CleanLock(c) ==
  /\ Goto(c, "cleanLock", "cleanSocket")
  /\ path' = None
  /\ UNCHANGED <<lock, fd, state, socket, commandVars>>

(* Mutant: the cleanup leaves the sentinel locked. *)
CleanSocket_KeepsLock(c) ==
  /\ pc[c] = "cleanSocket"
  /\ AfterCleanup(c)
  /\ socket' = None
  /\ UNCHANGED <<path, lock, fd, state, view>>

CleanSocket(c) ==
  /\ pc[c] = "cleanSocket"
  /\ AfterCleanup(c)
  /\ Close(c)
  /\ socket' = None
  /\ UNCHANGED <<path, state, view>>

RemovalFails(c) ==
  /\ pc[c] \in {"cleanState", "cleanLock", "cleanSocket"}
  /\ AfterCleanup(c)
  /\ Close(c)
  /\ UNCHANGED <<path, state, socket, view>>

(* The admitted command takes the writer lock, writes and returns. *)
AdmittedDone(c) ==
  /\ pc[c] = "admitted"
  /\ Return(c)
  /\ UNCHANGED <<path, lock, fd, state, socket, view>>

-----------------------------------------------------------------------------
Crash(p) ==
  /\ pc[p] # "dead"
  /\ pc' = [pc EXCEPT ![p] = "dead"]
  /\ Close(p)
  /\ UNCHANGED <<path, state, socket, commandVars>>

ContinueService(s) ==
  \/ OpenSentinel(s) \/ LockSentinel(s) \/ LeaseRefused(s)
  \/ PublishState(s) \/ BindSocket(s)
  \/ LoadOwn(s) \/ RemoveState(s) \/ RemoveLock(s) \/ RemoveSocket(s) \/ CloseLease(s)

ContinueCommand(c) ==
  \/ StatusLoad(c) \/ StatusExists(c) \/ StatusOpen(c) \/ StatusLocked(c)
  \/ StatusContended(c) \/ StatusLockFails(c) \/ StatusUnlock(c)
  \/ ReportStatus(c) \/ DecideCleanup(c) \/ DecideAdmission(c)
  \/ CleanExists(c) \/ CleanOpen(c) \/ CleanTry(c)
  \/ CleanState(c) \/ CleanLock(c) \/ CleanSocket(c) \/ RemovalFails(c) \/ AdmittedDone(c)

Step ==
  \/ \E s \in Service : \/ StartService(s) \/ StopService(s) \/ Note(s)
                        \/ PublishFails(s) \/ BindFails(s) \/ ContinueService(s)
  \/ \E c \in Command : Begin(c) \/ ContinueCommand(c)
  \/ \E p \in Process : Crash(p)

(* A service holds the lease that a newcomer would find. *)
LeaseHeldAtPath == path # None /\ lock[path] \in Service

Next ==
  /\ Step
  /\ sawIdle' = [c \in Command |->
                   /\ pc'[c] \notin {"idle", "dead"}
                   /\ (sawIdle[c] /\ pc'[c] # "load") \/ ~LeaseHeldAtPath']

Spec == Init /\ [][Next]_vars

-----------------------------------------------------------------------------
(* Properties *)

(* No command works against a service that it could have seen: one that is *)
(* about to remove an artifact, or that was admitted on another verdict    *)
(* than Corrupt, has in its last status or since, however these interleave *)
(* with services that start and stop, passed a moment at which no service  *)
(* had the lease on the file under the sentinel's name.  ("A malformed     *)
(* state file can still belong to a live lease holder.  Never unlink its   *)
(* lock file while another process holds it.")  A service that lost its    *)
(* sentinel, by the race that OneServicePerRepo shows, is seen by nobody   *)
(* and protected from nothing.                                             *)
CommandsYieldToLease ==
  \A c \in Command :
    \/ pc[c] \in {"cleanState", "cleanLock", "cleanSocket"}
    \/ pc[c] = "admitted" /\ verdict[c] # "corrupt"
    => sawIdle[c]

Quiet(p) == pc[p] \in {"idle", "dead"}

(* Whatever dead services and interrupted cleanups left behind, a service  *)
(* that tries for the lease while nothing else runs gets it (LeaseRefused  *)
(* asks once): no error path keeps a lock, and no artifact has to be       *)
(* removed by hand.                                                        *)
LeftoversNeverBlock ==
  \A s \in Service :
    pc[s] = "try" /\ (\A p \in Process \ {s} : Quiet(p)) => lock[fd[s]] = None

(* "RAII guard holding the per-repo watch-service lease": two services     *)
(* never serve one repository.  Violated: a cleanup that found no sentinel *)
(* unlinks, without its lock, the one a service has made and locked since, *)
(* and the next service makes another.                                     *)
OneServicePerRepo ==
  \A s, t \in Service : pc[s] = "serving" /\ pc[t] = "serving" => s = t
=============================================================================
