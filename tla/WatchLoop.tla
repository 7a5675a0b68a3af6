----------------------------- MODULE WatchLoop -----------------------------
(***************************************************************************)
(* The main loop of a watch service that has the lease (src/pipeline/      *)
(* watch: service, coordinator, pending, worker, control_bridge, sync).    *)
(*                                                                         *)
(* Four kinds of threads meet here: the debouncer's callback, which files  *)
(* changed paths under `pending`; the control handlers, which put requests *)
(* into the loop's channel and wait; the loop, which starts one operation  *)
(* at a time; and the worker that runs it.  Everything the loop knows of a *)
(* change is a path in `pending` or in the batch of the operation it       *)
(* started: nobody scans the repository again (reconcile_keepalive_seconds *)
(* is 0 unless configured).                                                *)
(***************************************************************************)
EXTENDS Naturals, FiniteSets, Sequences

CONSTANTS
  Path,      \* files of the repository
  Client,    \* control connections; each makes one request
  MaxPaths,  \* max_events_per_cycle: the most paths kept apart, and events counted
  MaxEdits,  \* edits, branch moves, switches of auto-sync (bound for checking)
  MaxFaults, \* what fails, panics, hangs or cannot be read (bound for checking)
  Detach,    \* process_exits_after_return
  Keepalive, \* reconcile_keepalive_seconds is above 0
  Semantic,  \* enable_semantic_triage, and the build can embed
  None       \* no operation, no client

ASSUME MaxPathsAssumption == MaxPaths \in Nat \ {0}
ASSUME BoundsAssumption   == MaxEdits \in Nat /\ MaxFaults \in Nat
ASSUME FlagsAssumption    == {Detach, Keepalive, Semantic} \subseteq BOOLEAN
ASSUME NoneAssumption     == None \notin Path \cup Client

VARIABLES
  pc,       \* where the loop is
  stop,     \* stop_flag
  stale,    \* files changed since graph and index were last made from them
  events,   \* changed files the debouncer has not reported yet
  muted,    \* suppressed_paths
  pending,  \* PendingWatchChanges
  active,   \* the operation of the worker, or None
  inbox,    \* the loop's channel
  client,   \* [Client -> what the client knows of its request]
  auto,     \* pending_auto_sync, auto_sync_enabled, auto_sync_blocked
  shown,    \* auto_sync_running, auto_sync_paused of the state file
  emb,      \* EmbeddingRefreshScheduler: stale, and the windows that are open
  edits, faults,  \* counters under MaxEdits, MaxFaults
  owed,     \* history: [Client -> files stale at its request, neither indexed nor changed since]
  lost,     \* history: stale files whose change no event tells, or no pass could read
  vecs      \* the vector index; history: it lacks what its scheduler is to be told of

vars == <<pc, stop, stale, events, muted, pending, active, inbox, client, auto,
          shown, emb, edits, faults, owed, lost, vecs>>

files    == <<stale, events, muted, lost>>
requests == <<inbox, client, owed>>
syncing  == <<auto, shown>>
vectors  == <<emb, vecs>>
counters == <<edits, faults>>

Requests == {"reconcile", "sync", "embeddings", "suppress"}
Kinds    == {"startup", "watch", "keepalive", "manual", "autoSync", "manualSync",
             "autoEmbeddings", "embeddings"}
Outcomes == {"none", "completed", "changed", "failed", "panic", "clean", "blocked"}
Windows  == {"quiet", "backoff"}

(* An operation: the batch it was given, the files it has yet to read, and *)
(* those it has read, or failed to read, that have not changed since.      *)
Operation ==
  [kind : Kinds, client : Client \cup {None}, paths : SUBSET Path, force : BOOLEAN,
   todo : SUBSET Path, fresh : SUBSET Path, skipped : SUBSET Path,
   phase : {"run", "syncing", "hung", "done"}, outcome : Outcomes]

ASSUME NoneIsNoOperation == None \notin Operation

Reconciles == {"startup", "watch", "keepalive", "manual"}

Op(kind, c, paths, force) ==
  [kind |-> kind, client |-> c, paths |-> paths, force |-> force,
   todo |-> IF kind \notin Reconciles THEN {} ELSE IF force \/ paths = {} THEN Path ELSE paths,
   fresh |-> {}, skipped |-> {}, phase |-> "run", outcome |-> "none"]

NothingPending == [paths |-> {}, full |-> FALSE, some |-> FALSE]

TypeOK ==
  /\ pc \in {"attach", "startup", "top", "recv", "drain", "join", "exited"}
  /\ stop \in BOOLEAN
  /\ stale \subseteq Path /\ events \subseteq Path
  /\ muted \subseteq Path /\ lost \subseteq stale
  /\ pending \in [paths : SUBSET Path, full : BOOLEAN, some : BOOLEAN]
  /\ active \in {None} \cup Operation
  /\ \A i \in 1 .. Len(inbox) : inbox[i] \in [client : Client, ask : Requests, paths : SUBSET Path]
  /\ client \in [Client -> {"new", "waiting", "ok", "error"}]
  /\ auto \in [pending : BOOLEAN, enabled : BOOLEAN, blocked : BOOLEAN]
  /\ shown \in [running : BOOLEAN, paused : BOOLEAN]
  /\ emb \in [stale : BOOLEAN, until : SUBSET Windows]
  /\ vecs \in {"absent", "current", "outdated"}
  /\ vecs # "absent" \/ emb.stale => Semantic
  /\ edits \in 0 .. MaxEdits /\ faults \in 0 .. MaxFaults
  /\ owed \in [Client -> SUBSET Path]
  /\ pc \in {"attach", "startup", "exited"} => active = None

(* Files that changed while no service was watching are stale from the start. *)
Init ==
  /\ pc = "attach"
  /\ stop = FALSE
  /\ stale \in SUBSET Path
  /\ lost = stale
  /\ events = {}
  /\ muted = {}
  /\ pending = NothingPending
  /\ active = None
  /\ inbox = <<>>
  /\ client = [c \in Client |-> "new"]
  /\ \E on \in BOOLEAN : auto = [pending |-> FALSE, enabled |-> on, blocked |-> FALSE]
  /\ shown = [running |-> FALSE, paused |-> FALSE]
  /\ emb = [stale |-> FALSE, until |-> {}]
  /\ vecs \in IF Semantic THEN {"absent", "current"} ELSE {"absent"}
  /\ edits = 0
  /\ faults = 0
  /\ owed = [c \in Client |-> {}]

Fault == faults < MaxFaults /\ faults' = faults + 1

-----------------------------------------------------------------------------
(* PendingWatchChanges *)

record_full(pend) == [pend EXCEPT !.full = TRUE, !.some = TRUE]

(* The paths that still fit are kept, in the order they come; one that     *)
(* does not turns the batch into a full reconcile.                         *)
record(pend, paths) ==
  LET new  == paths \ pend.paths
      size == Cardinality(pend.paths)
      room == IF size < MaxPaths THEN MaxPaths - size ELSE 0
  IN  IF Cardinality(new) <= room
        THEN {[pend EXCEPT !.paths = @ \cup new, !.some = TRUE]}
        ELSE {[paths |-> pend.paths \cup kept, full |-> TRUE, some |-> TRUE] :
                kept \in {S \in SUBSET new : Cardinality(S) = room}}

(* Mutants: the batch's paths are dropped; its work is filed under an event *)
(* count of zero.                                                           *)
requeue_failed_NoPaths(pend, paths, force) ==
  [paths |-> pend.paths, full |-> pend.full \/ force, some |-> TRUE]

requeue_failed_Unseen(pend, paths, force) ==
  [paths |-> pend.paths \cup paths, full |-> pend.full \/ force, some |-> pend.some]

requeue_failed(pend, paths, force) ==
  [paths |-> pend.paths \cup paths, full |-> pend.full \/ force, some |-> TRUE]

-----------------------------------------------------------------------------
(* The repository and the debouncer *)

Watching == pc \in {"startup", "top", "recv"}

Busy == active # None

(* What is read of p from now on is newer than what a worker has read.     *)
Edit(p) ==
  /\ pc = "attach" \/ Watching
  /\ edits < MaxEdits
  /\ edits' = edits + 1
  /\ stale' = stale \cup {p}
  /\ events' = IF Watching THEN events \cup {p} ELSE events
  /\ lost' = IF Watching THEN lost \ {p} ELSE lost \cup {p}
  /\ owed' = [c \in Client |-> owed[c] \ {p}]
  /\ active' = IF Busy THEN [active EXCEPT !.fresh = @ \ {p}, !.skipped = @ \ {p}] ELSE None
  /\ UNCHANGED <<pc, stop, muted, pending, inbox, client, syncing, faults, vectors>>

Covers(pend, p) == pend.full \/ p \in pend.paths

(* The debouncer's callback: suppressed paths are left out, and a          *)
(* directory among the rest asks for a full reconcile.                     *)
Deliver ==
  /\ Watching
  /\ \E burst \in SUBSET events \ {{}} :
       LET heard == burst \ muted
       IN  /\ events' = events \ burst
           /\ IF heard = {} THEN UNCHANGED pending
              ELSE pending' \in record(pending, heard) \cup {record_full(pending)}
           /\ lost' = lost \cup {p \in stale \cap burst \cap muted : ~Covers(pending', p)}
  /\ UNCHANGED <<pc, stop, stale, muted, active, requests, syncing, counters, vectors>>

(* The ttl of a suppression ends. *)
Unmute(p) ==
  /\ p \in muted
  /\ pc # "exited"
  /\ muted' = muted \ {p}
  /\ UNCHANGED <<pc, stop, stale, events, lost, pending, active, requests, syncing, counters, vectors>>

-----------------------------------------------------------------------------
(* Control handlers *)

Request(c, ask) ==
  /\ client[c] = "new"
  /\ pc # "exited"
  /\ \E paths \in IF ask = "suppress" THEN {{p} : p \in Path} ELSE {{}} :
       inbox' = Append(inbox, [client |-> c, ask |-> ask, paths |-> paths])
  /\ client' = [client EXCEPT ![c] = "waiting"]
  /\ owed' = [owed EXCEPT ![c] = IF ask = "reconcile" THEN stale ELSE {}]
  /\ UNCHANGED <<pc, stop, files, pending, active, syncing, counters, vectors>>

(* wait_for_loop_response: the deadline passes or the stop flag is seen.   *)
(* The request stays where it is.                                          *)
GiveUp(c) ==
  /\ client[c] = "waiting"
  /\ client' = [client EXCEPT ![c] = "error"]
  /\ UNCHANGED <<pc, stop, files, pending, active, inbox, owed, syncing, counters, vectors>>

(* SetAutoSync is carried out by the handler itself: the two flags, then   *)
(* note_auto_sync_enabled.                                                 *)
SetAutoSync(on) ==
  /\ ~stop
  /\ edits < MaxEdits
  /\ edits' = edits + 1
  /\ auto' = [auto EXCEPT !.enabled = on, !.blocked = @ /\ ~on]
  /\ shown' = [running |-> shown.running /\ on, paused |-> shown.paused /\ ~on]
  /\ UNCHANGED <<pc, stop, files, pending, active, requests, faults, vectors>>

(* A stop request, SIGTERM, or the root has been moved away. *)
RequestStop ==
  /\ ~stop
  /\ stop' = TRUE
  /\ UNCHANGED <<pc, files, pending, active, requests, syncing, counters, vectors>>

(* What the channel of a client carries, unless the client has given up. *)
Answer(c, what) ==
  client' = [d \in Client |-> IF d = c /\ client[d] = "waiting" THEN what ELSE client[d]]

-----------------------------------------------------------------------------
(* The worker *)

Running(kinds) == Busy /\ active.phase = "run" /\ active.kind \in kinds

(* One file is read, at any time after the operation started. *)
ReadFile(p) ==
  /\ Running(Reconciles)
  /\ p \in active.todo
  /\ active' = [active EXCEPT !.todo = @ \ {p}, !.fresh = @ \cup {p}]
  /\ UNCHANGED <<pc, stop, files, pending, requests, syncing, counters, vectors>>

(* A file that cannot be read is passed over, and the pass goes on.        *)
SkipFile(p) ==
  /\ Running(Reconciles)
  /\ p \in active.todo
  /\ Fault
  /\ active' = [active EXCEPT !.todo = @ \ {p}, !.skipped = @ \cup {p}]
  /\ UNCHANGED <<pc, stop, files, pending, requests, syncing, edits, vectors>>

Finish(outcome) == active' = [active EXCEPT !.phase = "done", !.outcome = outcome, !.todo = {}]

(* Whether the embedding scheduler will hear of what a reconcile commits:  *)
(* from its own end, or from the watch batch that it is filed as again.    *)
(* It does not hear of a startup or keepalive pass, nor of a manual one    *)
(* whose summary counts nothing or that fails once the graph is committed. *)
Told(kind, outcome) ==
  \/ kind = "watch" \/ outcome \in {"changed", "panic"}
  \/ kind = "keepalive" /\ outcome = "failed"

VectorsAfter(told) ==
  IF told /\ vecs = "current" /\ stale \cap active.fresh # {} THEN "outdated" ELSE vecs

(* Everything is read, and one transaction makes it the index.  What the   *)
(* summary counts (CompileSummary::graph_changed) matters for a manual     *)
(* reconcile only: files that went away are not counted, edges found again *)
(* are.  A file that was passed over is filed nowhere.                     *)
ReconcileCompletes ==
  /\ Running(Reconciles)
  /\ active.todo = {}
  /\ \E counted \in BOOLEAN :
       LET outcome == IF counted /\ active.kind = "manual" THEN "changed" ELSE "completed"
       IN  Finish(outcome) /\ vecs' = VectorsAfter(Told(active.kind, outcome))
  /\ stale' = stale \ active.fresh
  /\ lost' = (lost \ active.fresh) \cup
       {p \in stale' \cap active.skipped : p \notin events /\ ~Covers(pending, p)}
  /\ owed' = [c \in Client |->
       owed[c] \ (active.fresh \cup IF c = active.client THEN active.skipped ELSE {})]
  /\ UNCHANGED <<pc, stop, events, muted, pending, inbox, client, syncing, counters, emb>>

(* The writer lock is held by another process, or a stage fails or panics: *)
(* before the transaction commits, or after it, in finish_runtime_surfaces.*)
ReconcileFails ==
  /\ Running(Reconciles)
  /\ Fault
  /\ \E outcome \in {"failed", "panic"}, committed \in BOOLEAN :
       /\ committed => active.todo = {}
       /\ Finish(outcome)
       /\ vecs' = VectorsAfter(committed /\ Told(active.kind, outcome))
  /\ UNCHANGED <<pc, stop, files, pending, requests, syncing, edits, emb>>

(* run_sync_under_watch_lock: note_auto_sync_started.  A manual sync shows *)
(* nothing until it is over.                                               *)
SyncStarts ==
  /\ Running({"autoSync"})
  /\ active' = [active EXCEPT !.phase = "syncing"]
  /\ shown' = [running |-> TRUE, paused |-> FALSE]
  /\ UNCHANGED <<pc, stop, files, pending, requests, auto, counters, vectors>>

Syncing == Busy /\ (active.phase = "syncing" \/ Running({"manualSync"}))

(* note_auto_sync_finished, note_manual_sync_finished *)
SyncEnds ==
  /\ Syncing
  /\ \E blocked \in BOOLEAN :
       /\ Finish(IF blocked THEN "blocked" ELSE "clean")
       /\ shown' = IF active.kind = "autoSync" THEN [running |-> FALSE, paused |-> blocked]
                   ELSE [shown EXCEPT !.paused = @ /\ blocked]
  /\ UNCHANGED <<pc, stop, files, pending, requests, auto, counters, vectors>>

(* note_auto_sync_error; after a panic the loop notes it. *)
SyncFails ==
  /\ Syncing
  /\ Fault
  /\ \/ /\ Finish("failed")
        /\ shown' = [shown EXCEPT !.running = @ /\ active.kind # "autoSync"]
     \/ Finish("panic") /\ UNCHANGED shown
  /\ UNCHANGED <<pc, stop, files, pending, requests, auto, edits, vectors>>

Embeddings == {"autoEmbeddings", "embeddings"}

(* A build or a refresh extracts its chunks from the graph under the       *)
(* writer lock, so nothing is indexed while it runs.  A refresh that finds *)
(* no index is skipped and counts as made; a build needs semantic triage.  *)
EmbeddingsEnd ==
  /\ Running(Embeddings)
  /\ \/ Semantic /\ Finish("completed") /\ vecs' = "current" /\ UNCHANGED faults
     \/ /\ active.kind = "autoEmbeddings" /\ vecs = "absent"
        /\ Finish("completed") /\ UNCHANGED <<vecs, faults>>
     \/ ~Semantic /\ Finish("failed") /\ UNCHANGED <<vecs, faults>>
     \/ /\ Fault
        /\ \E outcome \in {"failed", "panic"} : Finish(outcome)
        /\ UNCHANGED vecs
  /\ UNCHANGED <<pc, stop, files, pending, requests, syncing, edits, emb>>

Worker == \/ \E p \in Path : ReadFile(p) \/ SkipFile(p)
          \/ ReconcileCompletes \/ ReconcileFails
          \/ SyncStarts \/ SyncEnds \/ SyncFails
          \/ EmbeddingsEnd

(* The operation waits for something that never comes: a remote embedding  *)
(* or language model, a git process, a file system.                        *)
Hang ==
  /\ Busy /\ active.phase \in {"run", "syncing"}
  /\ Fault
  /\ active' = [active EXCEPT !.phase = "hung"]
  /\ UNCHANGED <<pc, stop, files, pending, requests, syncing, edits, vectors>>

Hung == Busy /\ active.phase = "hung"

(* The profile's directory is removed, by hand or by a command that was    *)
(* started with another configuration.                                     *)
DropVectors ==
  /\ vecs # "absent"
  /\ pc # "exited"
  /\ Fault
  /\ vecs' = "absent"
  /\ UNCHANGED <<pc, stop, files, pending, active, requests, syncing, edits, emb>>

-----------------------------------------------------------------------------
(* The loop *)

AttachWatches ==
  /\ pc = "attach"
  /\ pc' = "startup"
  /\ UNCHANGED <<stop, files, pending, active, requests, syncing, counters, vectors>>

StartStartup ==
  /\ pc = "startup"
  /\ pc' = "top"
  /\ active' = Op("startup", None, {}, FALSE)
  /\ UNCHANGED <<stop, files, pending, requests, syncing, counters, vectors>>

Reapable == Busy /\ active.phase = "done"

NothingToReap ==
  /\ pc = "top" /\ ~stop
  /\ ~Reapable
  /\ pc' = "recv"
  /\ UNCHANGED <<stop, files, pending, active, requests, syncing, counters, vectors>>

Indexed(op) == op.kind \in Reconciles /\ op.outcome \in {"completed", "changed"}

Succeeded(op) == op.outcome \in {"completed", "changed", "clean", "blocked"}

(* finish_reconcile: what a watch batch did not get done is filed again.   *)
Refile(op) ==
  CASE op.kind \in Reconciles /\ op.outcome = "panic" -> record_full(pending)
    [] op.kind \in {"watch", "keepalive"} /\ op.outcome = "failed" ->
         requeue_failed(pending, op.paths, op.force)
    [] OTHER -> pending

(* auto_sync_blocked and pending_auto_sync after an operation.  A response *)
(* to a sync names what it found blocked whoever asked for it.             *)
Rearm(op) ==
  CASE Indexed(op) ->
         [auto EXCEPT !.pending = @ \/ (auto.enabled /\ ~auto.blocked)]
    [] op.outcome \in {"clean", "blocked"} ->
         [auto EXCEPT !.blocked = op.outcome = "blocked",
                      !.pending = @ /\ ~(op.kind = "manualSync" /\ op.outcome = "clean")]
    [] OTHER -> auto

(* Mutant: a refresh that failed counts as one that was made.              *)
NoteEmbeddings_ClearsOnFailure(op) ==
  CASE vecs # "absent" /\ Indexed(op) /\ Told(op.kind, op.outcome) ->
         [stale |-> TRUE, until |-> emb.until \cup {"quiet"}]
    [] op.kind \in Embeddings -> [stale |-> FALSE, until |-> {}]
    [] OTHER -> emb

(* note_reconcile, clear_stale, note_auto_refresh_finished: what reaches   *)
(* the graph makes the vectors stale and opens the quiet window anew; a    *)
(* refresh that failed waits for its backoff, one that panicked does not.  *)
NoteEmbeddings(op) ==
  CASE vecs # "absent" /\ Indexed(op) /\ Told(op.kind, op.outcome) ->
         [stale |-> TRUE, until |-> emb.until \cup {"quiet"}]
    [] op.kind \in Embeddings /\ op.outcome = "completed" -> [stale |-> FALSE, until |-> {}]
    [] op.kind = "autoEmbeddings" /\ op.outcome = "failed" ->
         [emb EXCEPT !.until = @ \cup {"backoff"}]
    [] OTHER -> emb

(* Mutant: joining a worker that panicked is not survived. *)
HandleCompletion_PanicStays ==
  /\ pc = "top" /\ ~stop
  /\ Reapable /\ active.outcome # "panic"
  /\ pc' = "recv"
  /\ active' = None
  /\ pending' = Refile(active)
  /\ auto' = Rearm(active)
  /\ emb' = NoteEmbeddings(active)
  /\ UNCHANGED shown
  /\ Answer(active.client, IF Succeeded(active) THEN "ok" ELSE "error")
  /\ UNCHANGED <<stop, files, inbox, owed, counters, vecs>>

(* reap_finished and handle_completion *)
HandleCompletion ==
  /\ pc = "top" /\ ~stop
  /\ Reapable
  /\ pc' = "recv"
  /\ active' = None
  /\ pending' = Refile(active)
  /\ auto' = Rearm(active)
  /\ emb' = NoteEmbeddings(active)
  /\ shown' = [shown EXCEPT !.running =
                 @ /\ ~(active.kind \in {"autoSync", "manualSync"} /\ active.outcome = "panic")]
  /\ Answer(active.client, IF Succeeded(active) THEN "ok" ELSE "error")
  /\ UNCHANGED <<stop, files, inbox, owed, counters, vecs>>

(* recv_timeout came back empty-handed and no operation is active.  The    *)
(* stop flag is not looked at again before an operation is started.        *)
Tick == pc = "recv" /\ inbox = <<>> /\ ~Busy

(* Paths are waiting, or the branch poller saw a head move. *)
StartWatchReconcile(moved) ==
  /\ Tick
  /\ pending.some \/ moved
  /\ pc' = "top"
  /\ edits' = edits + (IF moved THEN 1 ELSE 0) /\ edits' <= MaxEdits
  /\ \/ /\ active' = Op("watch", None, pending.paths, pending.full \/ moved)
        /\ pending' = NothingPending
        /\ UNCHANGED faults
     \/ /\ Fault                               \* no thread: everything, next time
        /\ pending' = record_full(NothingPending)
        /\ UNCHANGED active
  /\ UNCHANGED <<stop, files, requests, syncing, vectors>>

AutoSyncDue == auto.pending /\ auto.enabled /\ ~auto.blocked

StartAutoSync ==
  /\ Tick
  /\ ~pending.some
  /\ AutoSyncDue
  /\ pc' = "top"
  /\ active' = Op("autoSync", None, {}, FALSE)
  /\ auto' = [auto EXCEPT !.pending = FALSE]
  /\ UNCHANGED <<stop, files, pending, requests, shown, counters, vectors>>

RefreshDue ==
  emb.stale /\ emb.until = {} /\ auto.enabled /\ ~auto.blocked /\ vecs # "absent"

(* Mutant: the vectors count as fresh once their refresh has started. *)
StartRefresh_Clears ==
  /\ Tick
  /\ ~pending.some /\ ~AutoSyncDue
  /\ RefreshDue
  /\ pc' = "top"
  /\ active' = Op("autoEmbeddings", None, {}, FALSE)
  /\ emb' = [emb EXCEPT !.stale = FALSE]
  /\ UNCHANGED <<stop, files, pending, requests, syncing, counters, vecs>>

StartRefresh ==
  /\ Tick
  /\ ~pending.some /\ ~AutoSyncDue
  /\ RefreshDue
  /\ pc' = "top"
  /\ active' = Op("autoEmbeddings", None, {}, FALSE)
  /\ UNCHANGED <<stop, files, pending, requests, syncing, counters, vectors>>

StartKeepalive ==
  /\ Tick
  /\ ~pending.some /\ ~AutoSyncDue /\ ~RefreshDue
  /\ Keepalive
  /\ pc' = "top"
  /\ active' = Op("keepalive", None, {}, FALSE)
  /\ UNCHANGED <<stop, files, pending, requests, syncing, counters, vectors>>

(* The quiet window or the backoff is over. *)
WindowEnds(w) ==
  /\ w \in emb.until
  /\ pc # "exited"
  /\ emb' = [emb EXCEPT !.until = @ \ {w}]
  /\ UNCHANGED <<pc, stop, files, pending, active, requests, syncing, counters, vecs>>

(* Mutant: the tick is over before it comes to a due auto-sync. *)
NothingToStart_SkipsAutoSync ==
  /\ pc = "recv" /\ inbox = <<>>
  /\ Busy \/ ~pending.some
  /\ pc' = "top"
  /\ UNCHANGED <<stop, files, pending, active, requests, syncing, counters, vectors>>

NothingToStart ==
  /\ pc = "recv" /\ inbox = <<>>
  /\ Busy \/ (~pending.some /\ ~AutoSyncDue /\ ~RefreshDue)
  /\ pc' = "top"
  /\ UNCHANGED <<stop, files, pending, active, requests, syncing, counters, vectors>>

ReceiveSuppress ==
  /\ pc = "recv" /\ ~stop /\ inbox # <<>>
  /\ Head(inbox).ask = "suppress"
  /\ pc' = "top"
  /\ muted' = muted \cup Head(inbox).paths
  /\ Answer(Head(inbox).client, "ok")
  /\ inbox' = Tail(inbox)
  /\ UNCHANGED <<stop, stale, events, lost, pending, active, owed, syncing, counters, vectors>>

OperationOf == [reconcile |-> "manual", sync |-> "manualSync", embeddings |-> "embeddings"]

(* Mutant: a request made while busy shares the operation under way. *)
ReceiveRequest_Shares ==
  /\ pc = "recv" /\ ~stop /\ inbox # <<>>
  /\ pc' = "top"
  /\ LET m == Head(inbox)
     IN  /\ m.ask # "suppress"
         /\ active' = IF Busy THEN [active EXCEPT !.client = m.client]
                      ELSE Op(OperationOf[m.ask], m.client, {}, FALSE)
  /\ inbox' = Tail(inbox)
  /\ UNCHANGED <<stop, files, pending, client, owed, syncing, counters, vectors>>

(* start_manual_operation: an operation that has not been reaped turns the *)
(* request down.                                                           *)
ReceiveRequest ==
  /\ pc = "recv" /\ ~stop /\ inbox # <<>>
  /\ pc' = "top"
  /\ LET m == Head(inbox)
     IN  /\ m.ask # "suppress"
         /\ IF Busy THEN Answer(m.client, "error") /\ UNCHANGED <<active, auto>>
            ELSE /\ active' = Op(OperationOf[m.ask], m.client, {}, FALSE)
                 /\ auto' = [auto EXCEPT !.pending = @ /\ m.ask # "sync"]
                 /\ UNCHANGED client
  /\ inbox' = Tail(inbox)
  /\ UNCHANGED <<stop, files, pending, owed, shown, counters, vectors>>

(* The loop ends: the debouncer is dropped and the client of the operation *)
(* under way is told.                                                      *)
Leave ==
  /\ stop
  /\ pc = "top" \/ (pc = "recv" /\ inbox # <<>>)
  /\ pc' = "drain"
  /\ active' = IF Busy THEN [active EXCEPT !.client = None] ELSE None
  /\ Answer(IF Busy THEN active.client ELSE None, "error")
  /\ UNCHANGED <<stop, files, pending, inbox, owed, syncing, counters, vectors>>

(* reject_message_while_stopping, for every message in the channel *)
Drain ==
  /\ pc = "drain"
  /\ pc' = "join"
  /\ client' = [c \in Client |->
       IF client[c] = "waiting" /\ \E i \in 1 .. Len(inbox) : inbox[i].client = c
         THEN "error" ELSE client[c]]
  /\ inbox' = <<>>
  /\ UNCHANGED <<stop, files, pending, active, owed, syncing, counters, vectors>>

(* Mutants: the worker is not joined; it is joined without a timeout.      *)
Shutdown_NoJoin ==
  /\ pc = "join"
  /\ pc' = "exited"
  /\ UNCHANGED <<stop, files, pending, active, requests, syncing, counters, vectors>>

Shutdown_NoTimeout ==
  /\ pc = "join"
  /\ ~Busy \/ Reapable
  /\ pc' = "exited"
  /\ active' = None
  /\ UNCHANGED <<stop, files, pending, requests, syncing, counters, vectors>>

(* shutdown_with_timeout: join the worker, or leave it behind. *)
Shutdown ==
  /\ pc = "join"
  /\ Detach \/ ~Busy \/ Reapable
  /\ pc' = "exited"
  /\ active' = None
  /\ UNCHANGED <<stop, files, pending, requests, syncing, counters, vectors>>

Loop == \/ AttachWatches \/ StartStartup
        \/ NothingToReap \/ HandleCompletion
        \/ \E moved \in BOOLEAN : StartWatchReconcile(moved)
        \/ StartAutoSync \/ StartRefresh \/ StartKeepalive \/ NothingToStart
        \/ ReceiveSuppress \/ ReceiveRequest
        \/ Leave \/ Drain \/ Shutdown

Outside == \/ \E p \in Path : Edit(p) \/ Unmute(p)
           \/ \E c \in Client : GiveUp(c) \/ \E ask \in Requests : Request(c, ask)
           \/ \E on \in BOOLEAN : SetAutoSync(on)
           \/ \E w \in Windows : WindowEnds(w)
           \/ RequestStop \/ Hang \/ DropVectors

Next == Loop \/ Worker \/ Deliver \/ Outside

Spec == Init /\ [][Next]_vars

(* The loop, the debouncer's thread and a handler that polls the stop flag *)
(* keep running, an operation that does not hang ends, and time passes, so *)
(* that one who waits for an operation that hangs gets to its deadline;    *)
(* nobody has to edit, ask, stop or let another request time out.          *)
FairSpec ==
  /\ Spec
  /\ WF_vars(Loop)
  /\ WF_vars(Worker)
  /\ WF_vars(Deliver)
  /\ \A c \in Client : WF_vars((stop \/ Hung) /\ GiveUp(c))
  /\ \A w \in Windows : WF_vars(WindowEnds(w))

-----------------------------------------------------------------------------
(* While the service watches, a file whose change was reported is indexed  *)
(* or still on its way there: with the debouncer, in `pending`, or in a    *)
(* batch that is yet to be done, hung or not, or to be filed again.  (The  *)
(* batch is taken out of `pending` under the mutex and handed back only    *)
(* when the loop reaps the failed worker.)  The exception is a file that   *)
(* the pass found unreadable: it is passed over without a trace.           *)
OnItsWay(p) ==
  \/ p \in events
  \/ Covers(pending, p)
  \/ /\ Busy /\ active.kind = "watch"
     /\ p \in active.paths \/ active.force
     /\ active.phase # "done" \/ active.outcome \in {"failed", "panic"}

NoEditLost == Watching => \A p \in stale \ lost : OnItsWay(p)

(* When a ReconcileNow comes back completed, every file that was stale when *)
(* the client asked, was left alone since and could be read by that pass is *)
(* in the index: an operation that had started before is never passed off   *)
(* as the answer.                                                           *)
CompletedAnswerCoversEdits == \A c \in Client : client[c] = "ok" => owed[c] = {}

(* Work handed over is never forgotten by its marker: the loop looks at     *)
(* pending changes only when the event count says that there are some.      *)
PendingWorkIsSeen == pending.paths # {} \/ pending.full => pending.some

(* A reported change is indexed in the end, whatever fails on the way       *)
(* (finitely often), unless a pass finds the file unreadable, an operation  *)
(* hangs or the service is stopped.                                         *)
EditEventuallyIndexed ==
  \A p \in Path : p \in stale \ lost ~> (p \notin stale \/ p \in lost \/ stop \/ Hung)

(* The sync that a completed reconcile calls for is started, unless         *)
(* auto-sync is turned off, blocked, an operation hangs or the service is   *)
(* stopped.                                                                 *)
AutoSyncRuns == AutoSyncDue ~> (~AutoSyncDue \/ stop \/ Hung)

(* A handler waiting on the loop gets an answer, also when the loop ends    *)
(* between its request and the answer; it comes to its own timeout only if  *)
(* an operation hangs.                                                      *)
EveryRequestAnswered == \A c \in Client : client[c] = "waiting" ~> client[c] # "waiting"

(* What the embedding scheduler is to be told of and the vectors lack is    *)
(* remembered: by the scheduler, by the operation that has not been reaped, *)
(* or by the watch batch, waiting or under way, that a failed pass left.    *)
(* No failed, panicked or skipped refresh, no build that was asked for and  *)
(* no reconcile that fails after its commit drops the debt.                 *)
OutdatedIsRemembered ==
  vecs = "outdated" /\ pc # "exited" =>
    \/ emb.stale \/ pending.some
    \/ Busy /\ active.kind = "watch"
    \/ Busy /\ active.phase = "done" /\ Told(active.kind, active.outcome)

(* The vectors catch up with the graph, unless auto-sync is turned off or   *)
(* blocked, an operation hangs or the service is stopped: batches, syncs,   *)
(* failures and their backoff only put it off.                              *)
VectorsCatchUp ==
  vecs = "outdated" ~> (vecs # "outdated" \/ stop \/ ~auto.enabled \/ auto.blocked \/ Hung)

(* Once stopped, the service returns, also if its worker never does: the    *)
(* process ends after the loop, so the worker is waited for no longer than  *)
(* PROCESS_OWNED_SHUTDOWN_TIMEOUT.                                          *)
StopEndsService == stop ~> pc = "exited"
=============================================================================
