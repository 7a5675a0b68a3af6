# Models and proofs of synrepo's write paths

synrepo keeps a structural graph of a repository under `.synrepo/`: a canonical
graph database and an overlay database, a lexical index, caches, JSON state
files, and the processes that write them (short-lived commands, a long-running
watch service, MCP servers). This directory holds TLA+ models of the parts in
which several processes, threads, databases or a changing disk have to agree,
the TLC runs that check them on small instances, and TLAPS proofs for any size.

Paths below are relative to the repository; `pipeline/...`, `store/...` and so
on stand for `src/pipeline/...`, `src/store/...`.

## 1. The system

### 1.1 Parts that are modelled

| Component | State it keeps | Operations | Interacts with | What is hard |
|---|---|---|---|---|
| **Writer lock** (`pipeline/writer`) | `writer.lock.flock` (kernel flock), `writer.lock` (pid and time of the owner), `LOCK_DEPTHS` (per process: owner thread, depth, ownership) | `acquire_writer_lock` with 20 retries, re-entry, drop, `live_owner_pid` | every writer: commands, reconcile, sync, MCP edits | three records of one fact (flock, table, file) updated in separate steps; deaths between any two |
| **Watch lease, status, cleanup, admission** (`pipeline/watch/lease`, `status.rs`, `acquire_write_admission`) | `watch-daemon.json.flock`, `watch-daemon.json`, the control socket | take and drop the lease, status probe, cleanup of stale artifacts, admission of a mutating command | service start and stop, `status`, `watch stop`, every mutating command | the sentinel is unlinked while others have it open; the probe takes the lock it asks about; check then act |
| **Watch service loop** (`service.rs`, `coordinator.rs`, `pending.rs`, `worker.rs`, `control_bridge.rs`, `sync.rs`, `suppression.rs`) | `PendingWatchChanges`, the active operation, the loop's channel, auto-sync flags, suppressed paths, telemetry in the state file | debouncer callback, requests with deadlines, single-flight worker, reaping, auto-sync, shutdown | debouncer thread, control clients, reconcile, sync | a batch is out of `pending` while it is worked on; late answers; failures and panics of the worker; stop at any time |
| **Embedding refresh** (`pipeline/watch/embeddings`) | staleness, quiet window, backoff | note a change, schedule, refresh, back off | the loop's worker slot, auto-sync | a debt that batches, failures, panics and explicit builds must neither drop nor starve |
| **Cross-link review** (`links accept`/`reject`, `store/overlay/cross_links`, `pipeline/repair`) | rows of `cross_links` (overlay database), curated edges (graph database) | review, accept (pending, edge, promoted), compensation, reject, resolve pass and generation of `sync`, prune after a compile | two databases without a common transaction; all under the writer lock except review | partial failure and death between the databases, retries, regeneration under a reviewer's eyes |
| **Structural compile** (`pipeline/structural`, `structure/identity`, `store/sqlite`) | file, symbol and concept nodes, edges, each active or retired at a compile revision | discover, read and diff files, retire and revive facts, follow renames, splits and merges, resolve calls and imports, delete, commit or roll back, compact | the disk and its owner; the writer lock; every reader of the graph | files are read one after the other from a disk that changes; identities cross renames with edits |
| **Anchored edits** (`surface/mcp/edits`) | sessions (anchors of prepared files), the plan of a request, suppressed events | prepare, evict, expire, plan, write, roll back, reconcile | editors that save files, the watch service, the graph | edits for lines that were shown long ago; several files and no transaction |
| **Stores and compatibility** (`store/compatibility`, `bootstrap`, `pipeline/maintenance`, `upgrade`) | the stores (graph, overlay, index with the vectors in it, state), the snapshot of formats and configuration, `config.toml` | `init`, `init --force`, `upgrade --apply`, maintenance of `sync`, commands that build without judging | other binaries, configuration edits, the writer lock whose file lies in a store | what to clear is decided from a record that is older than the stores or gone; deaths between clear, build and record |

### 1.2 What makes them correct

* Writer lock: one thread of the machine at a time, nested guards counted, an
  error branch that cannot be reached, no wrong owner reported, no acquire that
  never returns.
* Lease: no command removes artifacts from under a lease that it could have
  seen, or is admitted beside one; leftovers never have to be removed by hand.
* Loop: no reported change is lost; an answer is about the request; every
  waiting handler is answered; automatic work gets its turn; stop stops; vectors
  that fell behind catch up.
* Cross-links: the two databases agree on what is promoted after every failure;
  repairs are complete; a promotion is final.
* Compile: the facts of a file are those of the content its hash names; a path
  has one node; nothing outlives its file; a quiet disk is reached; retired facts
  are kept as long as promised.
* Edits: they land on the lines they were made for; all files of a request or
  none; the graph follows.
* Stores: what is taken for compatible is current, in the graph's discovery
  settings too, for which another store is judged; what fits is not cleared.

The hazards these answer, each at its line, are in `PROJECT.json`.

### 1.3 How they interact

Everything that writes `.synrepo/` takes the writer lock first. `LinksCommit`,
`StructuralCompile` and `AnchoredEdits` therefore have one operation under way
at a time, which is `MutualExclusion` of `WriterLock`; `StoreMaintenance` does
not take it for granted, because one of its commands deletes the file that the
lock is on, and has the inodes of that file instead. The service's reconciles
(`WatchLoop`) are compiles (`StructuralCompile`); the former has when files are
read and committed, the latter what becomes of them. Edits tell the service to
ignore events (`suppressed` in `AnchoredEdits`, `muted` in `WatchLoop`), and a
compile that removes endpoints takes curated edges away (`Compile` in
`LinksCommit`).

## 2. Modules

| Module | Models | Notes |
|---|---|---|
| `ReentrantLock` | what the writer lock promises: one holder, a depth | abstract specification |
| `WriterLock`, `WriterLockProofs` | `pipeline/writer/{mod,helpers}.rs` | refines `ReentrantLock` |
| `WatchLease`, `WatchLeaseProofs` | `pipeline/watch/lease`, `status.rs`, `acquire_write_admission` | one system call per step |
| `WatchLoop`, `WatchLoopProofs` | the service's loop, callback, worker, handlers and embedding scheduler | |
| `LinksCommit`, `LinksCommitProofs` | accepts, rejects, repairs, prunes over two databases | |
| `StructuralCompile`, `StructuralCompileProofs`, `StructuralFactsProofs` | stages 1 to 4 and 6 of a compile over the graph store, compaction | pure algorithms as operators |
| `AnchoredEdits`, `AnchoredEditsProofs` | sessions, planning, splicing, writes and rollback | `ApplyPlan` against `Requested`, a reference definition |
| `StoreMaintenance`, `StoreMaintenanceProofs` | compatibility decisions and the commands that act on them | |
| `MC*` | constants for TLC | |

Operators that end in `_Something` behind a definition's name (for instance
`DropInner_ToZero`) are mutants: the definition with a plausible bug. No
specification uses them; putting one in the place of its original makes TLC
report the property that is named with it in `PROJECT.json`.

### 2.1 WriterLock

`flock` is the kernel lock on the sentinel (a thread's open file), `meta` the
content of `writer.lock` (missing, torn, or an ownership), `entry` the
`LOCK_DEPTHS` table of each process, `pc`, `tries`, `own` and `guards` the call
a thread is in and the guards it has. A step is one system call or one critical
section of the table's mutex:

* `StartAcquire`, `TryLock`, `TryLockBusy` (retry), `ReportHolder` (out of
  retries, names the owner it reads), `Truncate`, `WriteRecord`, `WriteFails`,
  `CleanupPartial`, `CloseSentinel`, `Insert` are `acquire_writer_lock` from
  the table lookup to the guard; `Reenter` is `try_reenter`.
* `DropInner`, `DropOuter` are `decrement_depth`; the last one frees the flock.
  `ReapRead` and `ReapRemove` are what `Drop` does after that: read the record,
  remove it if it is still this owner's.
* `ProbeRead`, `ProbeLock`, `ProbeUnlock` are `live_owner_pid`, which takes the
  flock for a moment.
* `Crash` ends a process: its flock goes, its record stays.
* `CleanupPartial` and `ReapRemove` may fail to remove the record (both only
  warn); `left`, a history variable, says that what is in `writer.lock` is such a
  record. `NoOrphanRecord` excuses it and nothing else.

A fresh ownership differs from all that still exist (`Fresh`): `acquired_at`
has nanoseconds and the record also has the pid.

### 2.2 WatchLease

A flock belongs to an inode, so the model keeps `path` (the inode under the
name), `lock` per inode and `fd` per process; `OpenSentinel` creates an inode
when the name is missing, removals clear the name and leave inode and lock to
those who have it open. `state` and `socket` are the other two artifacts.
Service steps are `acquire_watch_daemon_lease`, the binding of the control
socket, the telemetry `Note`s and the drop of the lease, which may find its own
state file unreadable or fail to remove what it wants to; command steps are
`watch_service_status` (`Status...`), `cleanup_stale_watch_artifacts`
(`Clean...`, `RemovalFails`) and `acquire_write_admission`, which calls both and
looks again (`DecideAdmission`). Any load of the state file may be `Malformed`
and any open or flock may fail, and the status is Corrupt as in the code; an
admission on a status that is still Corrupt after the cleanup goes through.

`sawIdle` is a history variable: since the status under way, or the last one of
this call, began there was a moment without a service's lease on the file under
the name. `CommandsYieldToLease` asks for it of a command that is about to remove
an artifact and of one that was admitted on any status but Corrupt. It speaks of
leases, not of services that serve: one whose sentinel was unlinked (which
`OneServicePerRepo` shows can happen) is seen by no status and protected from
nothing. `LeftoversNeverBlock` is a safety
statement: whenever a service is alone, nothing that earlier ones left keeps it
from its next step.

### 2.3 WatchLoop

`stale` is the set of files whose content the index has not read, `events` what
the debouncer has yet to report, `muted` the suppressed paths, `pending` the
`PendingWatchChanges` (paths, `full`, and whether the event count is above 0),
`active` the operation in the worker slot, `inbox` the loop's channel, `client`
what each control connection knows, `auto` and `shown` the auto-sync flags of
the loop and of the state file, `emb` the embedding scheduler, `vecs` whether
there is an index of vectors.

* `Deliver` is the debouncer's callback; `record`, `record_full`,
  `requeue_failed` are the methods of `PendingWatchChanges`, with the path cap.
* `ReadFile`, `SkipFile` and `ReconcileCompletes`/`ReconcileFails` are a
  reconcile in the worker: a file is read at some moment, or found unreadable
  and passed over without a trace (`stages/code.rs:35`), and one commit makes
  what was read the index. An edit after the read and before the commit leaves
  the file stale. A pass fails before its commit or after it, when the surfaces
  behind the graph cannot be brought up to date (`reconcile.rs:154`).
* `SyncStarts`/`SyncEnds`/`SyncFails` and `EmbeddingsEnd` are the others. A
  refresh that finds no index is skipped and counts as one that was made.
* `Hang` is an operation that never ends, `DropVectors` the removal of the index.
* The loop is `AttachWatches`, `StartStartup`, then reap (`HandleCompletion`,
  `NothingToReap`) and receive (`ReceiveRequest`, `ReceiveSuppress`, or, with an
  empty channel, `StartWatchReconcile`, `StartAutoSync`, `StartRefresh`,
  `StartKeepalive`, `NothingToStart`), in the order of `service.rs`; `Leave`,
  `Drain`, `Shutdown` end it.
* `NoteEmbeddings` is what the scheduler learns when an operation is reaped,
  and `Told` of which passes it learns at all: a watch batch, and a manual
  reconcile whose summary counts something (`graph_changed`). What the summary
  counts is any answer: a compile that only deletes counts nothing, one that
  finds its edges again counts them. `RefreshDue` is the scheduler's condition,
  `WindowEnds` time passing.
* `Request`, `GiveUp`, `SetAutoSync`, `RequestStop` are the control handlers.

History variables: `owed` (for each client, the files that were stale when it
asked and were left alone since), `lost` (stale files of which nothing will tell
the loop: changed while nothing watched or while suppressed, or passed over by
the pass that was to read them), and the value `outdated` of `vecs` (a commit of
which the scheduler is to be told, by this pass or by the batch it leaves, is not
in the vectors).

### 2.4 LinksCommit

`row`, `edge`, `present` are the overlay row, the curated edge and the presence
of the endpoints for each candidate; `review` is the revision `links review`
printed last; `op` is the operation that has the writer lock, with its phase.
An accept is `LinksAccept`, `MarkPending`, `InsertEdge`, `FinalizePromotion`,
or `FinalizeFails` and `Compensate`, or `FinishInterrupted` for one that was
interrupted after its edge; `StepFails` and `Crash` stop it anywhere.
`StartSync`, `ResolvePending`, `ResolveFails`, `StartGeneration`,
`InsertCandidate`, `EndSync` are the cross-link surface of `sync`. `Compile`
adds and removes endpoints, edges going with them; `PruneOrphans` and
`PruneFails` are the best-effort prune behind it; a read of the graph that fails
leaves its kind of node out of the live set, so that `PruneOrphans` takes rows
whose endpoints are there (`unread`; `Kinds` says what the endpoints of a link
are). A pass id keeps its characters
because what the 12-character suffix of an id can tell apart is the question of
one run; everything else is a model value.

### 2.5 StructuralCompile

`disk` and `doc` are what the owner of the repository has (source files and
concept files), `graph` the committed graph, `rev` the last compile revision,
`txn` the compile under way with a graph of its own. A file's content is one of
a few, and the constants say what each declares, calls and imports.

* `Discover` allocates the revision (which may fail: then nothing is retired)
  and lists the files; `ReadFile`, `SkipFile`, `ReadDoc`, `SkipDoc` are stages 1
  to 3, one file at a time and with the content it has at that moment.
* `IdFor`, `IsKnown`, `Renew`, `RetireUnseen` are `resolve_file_id` and the diff
  of a file's facts; `UpsertSymbols`, `InsertEdges`, `RetireSymbols`,
  `RetireEdges`, `DeleteFiles` the store operations they use.
* `Settle` is stage 6 and then stage 4: `RenameTo`, `SplitInto`, `MergedInto`
  are the cascade with its thresholds as in the code (fractions, not floats),
  `git` any answer of the rename lookup, `PersistMoves` and `DeleteMissing` what
  is written; `Callees` scores the candidates of a call.
* `Commit`, `Fail` and `Crash` end the transaction. `Compact` is
  `compact_retired`, with a revision of its own: three deletions that commit one
  by one, any number of which may be done when it fails or its process dies.

`quiet` counts complete compiles since the disk last changed. `unkept` holds
the files with active facts of an older content: those compiled without a
revision, and a new file whose derived id collides with a node that has moved
away (section 5).

### 2.6 AnchoredEdits

`file` is the disk, each file a sequence of lines; `cache` the sessions the
anchor manager still has, `issued` those that callers hold; `txn` the request.
`Prepare`, `Expire`, `Submit`, `PlanFile`, `PlanUnreadable`, `Planned`,
`WriteFile`, `WriteFails`, `RollbackFile`, `RollbackFails`, `WritesDone`,
`Release` follow `apply_anchor_edits`; `Save`, `SuppressionEnds`,
`WatchReconcile` are the editor and the service. `Plans` has what requests may
ask of each file. `ApplyPlan` is the algorithm of `plan.rs` and `apply.rs`
(stable sort, splices from the end, joined lines with a newline); `Requested`
says, without an order of application, what the edits ask for. For two edits that
name the same lines the code's answer depends on their order and may differ
(`edits_same_line`), so `EditsLandWhereAsked` is about plans that are `Separate`:
no two edits of the file name the same lines. `saved` and `hidden` are history:
files an editor saved after they were planned, and files that changed with
nobody told.

### 2.7 StoreMaintenance

`store[d]` is what the graph, the overlay, the index and the vectors were made
with: their format, and the configuration they were derived from. `Holder` says
which store's files they are: the vectors lie in the index store and go with it.
`snapshot` is the recorded formats and inputs, `binary` and `config` what the
next command will be and load, `sentinel` the inode under the name of the lock
file. `Verdict` is `evaluate_runtime` (the default of a store's class by format,
then changed inputs); a command is `Start`, `Lock` or `LockBusy`, `Clear` per
store, `ForceCleared`, `Cleared`, `OpenGraph` and `Build` per store or
`BuildFails`, `Stamp`, or `Crash`. The graph is opened, and there, before its
compile begins: a build that fails leaves an empty graph of no configuration
(`Unread`).

What a builder reads and what a store is judged by are two things here.
`ReadsOf` is read off the builders: a compile discovers files by the settings the
index is fingerprinted with (`substrate/discover.rs`) besides its own, and the
vectors are of the graph's nodes. `Judged` is read off the policy: the graph is
given up for its own groups only. `ReadyIsCurrent` holds all the same, because an
`upgrade` or `init` that records new discovery settings has compiled the graph
for them: a store whose own verdict and whose judges' verdicts (`JudgeOf`: the
index store's for the discovery settings, the graph's for the others) are
Continue was made from the configuration as it is. The one exception is
`Unjudged`: nothing tells that vectors are of other concept directories
(section 5).

What two processes do to each other's judgement is recorded in `stale`, what was
judged without a snapshot in `blind`, and what no snapshot accounts for in
`suspect`; the properties exclude these and nothing else.

## 3. Runs

| Run | Result | Distinct states and depth | Shows |
|---|---|---|---|
| `writer_lock` | passes | 143,407, depth 36 | mutual exclusion over processes and threads, table and guards agree, no refused registration, no wrong owner in the record, no record of a live idle process left, refinement of `ReentrantLock`, every acquire returns |
| `watch_lease` | passes | 916,869, depth 54 | no command removes an artifact, or is admitted other than on a Corrupt status, without a moment since its last status began at which nobody had the lease; no failed start and no interrupted cleanup keeps a later service out |
| `watch_lease_two_services` | violated | | two services can serve one repository |
| `links_commit` | passes | 1,211,496, depth 39 | the two databases stay in step under failures, crashes, retries, repairs and compiles |
| `links_commit_stale` | violated | | an id of an earlier generation accepts the present one |
| `watch_loop` | passes | 1,703,595, depth 31 | no reported change of a readable file is lost, no answer is for another operation, the event count never hides work |
| `watch_loop_live` | passes | 244,442, depth 35 | changes get indexed and reach the vectors, due auto-syncs start, requests are answered, stop ends the service, hung worker or not |
| `structural` | passes | 1,927,049, depth 31 | facts match the recorded content, one node per path, no orphans, no stale calls, convergence on a quiet disk, retention |
| `edits` | passes | 1,687,873, depth 26 | edits start from the content that was shown; those of different lines land where they were asked for; all files or none; the graph follows |
| `edits_same_line` | violated | | an insertion before a line and its replacement undo each other |
| `stores` | passes | 2,829,444, depth 36 | a store taken for compatible is current as far as its judges are too; none is cleared that fits |
| `stores_newer_graph` | violated | | a plain init clears a graph of a newer format |

### 3.1 Bounds, and why they are enough

* `writer_lock`: two processes, one with two threads, so that re-entry by the
  wrong thread, the other process and the drop race all occur; `Retries` 1 (a
  retry and running out of them; 20 in the code), `MaxDepth` 2 (an inner and an
  outer drop), three stamps for three threads.
* `watch_lease`: two services and one command; an inode for each process, which
  is all a process can have open at once. Inodes are interchangeable
  (`InodeSymmetry`). Unreadable state files, failing calls and removals need no
  bound. A dead process does not come back; a new one is another.
* `links_commit`: two candidates, so that the resolve pass has a list; two
  pass ids with the same first 12 characters; `MaxGen` 3 (the original, one
  under an interrupted accept, one after it).
* `watch_loop`: two files with `MaxPaths` 1 (`max_events_per_cycle`), so that
  the cap is exceeded; `MaxEdits` 2 (edits, branch moves and switches of
  auto-sync: an edit and one after its read), `MaxFaults` 1 (a failure or panic,
  a file that cannot be read, an operation that hangs, an index that is removed),
  one client with every request; keepalive on, embeddings off.
  `watch_loop_live`: one file, one client, no symmetry, keepalive off (so that
  nothing but the loop's own bookkeeping gets a change indexed), embeddings on,
  and a process that exits after the loop (`Detach`), so that a worker that hangs
  is left behind. `MaxEdits` and `MaxFaults` are 1: what an endless stream of
  requests, edits or faults does to the ticks of the loop is not examined.
* `structural`: three paths (two of code, one text file with routes) and a
  concept file; contents for an edited rename ("two" and "new" share their
  names), for splits and merges ("one" is a part of "two"), and one without
  symbols, known only by its sample; `MaxEdits` 3, `MaxRev` 4 (compiles and
  compactions), `MaxBlind` 1 (a compile that gets no revision and so retires
  nothing) and `Retain` 1, so that a fact can be retired, kept once and
  compacted. `Settling` is 3, the number of paths (`SettlingAssumption`): one
  compile of a disk that changes, or one compaction, and then three of a quiet
  one. On this instance two already settle the graph; one does not, since the
  compile after an edited rename records the old hash at the new path and the
  next one reads the file again. Why more paths may need more: section 4.
* `edits`: two files of two lines; for one of them a plan whose edits move
  each other's lines and one whose edits overlap, for the other three edits that
  meet at both ends, in two opposite orders; `MaxPrepares` 3 with `MaxSessions`
  2 (one is put out), `MaxSaves` 1, `MaxApplies` 2 (one request after another on
  a stale session). Every request over one or both files with every session is
  tried.
* `stores`: two processes (symmetric), two binaries with different graph
  formats, two values per configuration group, `MaxCommands` 3 (an interrupted
  command or one that embeds, one beside it, one that judges) and `MaxChanges` 2
  (a change that is taken back).

Deadlock is not checked where a program may come to rest: all processes dead
(`writer_lock`, `watch_lease`), the service stopped (`watch_loop`), or the
bounds used up (`structural`, `edits`, `stores`). It is checked in
`links_commit`.

### 3.2 Fairness

* `WriterLock`: weak fairness of the steps inside a call (`Continue`): a thread
  that is not dead goes on. Nobody has to call, drop or succeed.
* `WatchLoop`: weak fairness of the loop (`recv_timeout` of 50 ms brings it
  back), of the debouncer's callback, of a handler that sees the stop flag (it
  polls every 100 ms at most) or whose deadline passes while an operation hangs,
  of the worker's steps and of each window's end (time passes). An operation may
  hang at any step (`Hang`, which disables the worker's steps), so that nothing
  is assumed of it: `StopEndsService` and `EveryRequestAnswered` hold with a hung
  worker, the others say `Hung` where they do not. Edits, requests, stops and
  client timeouts are otherwise never assumed.
* The other modules state safety only; `Converges` of `StructuralCompile` says
  what holds after `Settling` complete compiles, not that they happen.

## 4. What is proved

All for every value of the constants under the named assumptions of the modules
(`ProcessOf` maps threads to processes, bounds are naturals, the null values
differ from real ones).

**Writer lock** (`WriterLockProofs`).
`TypeCorrect`: type invariant, with `Chosen` (the ownership is fixed before it
is copied into the table). `LockInv` is the inductive core: an entry stands for
the flock of the thread it names and has as many guards as its depth; the flock
is held by a call under way or on behalf of an entry. Mutual exclusion alone is
not inductive, since tables of different processes never see each other and
only the flock ties them together. From it: `OneWriter` (mutual exclusion),
`DepthIsGuards`, `InsertSucceeds` (the error branch of `insert_initial_lock` is
unreachable), and, with `RecordIsHolders`, `RecordNamesHolder`.
`RecordIsAttended` (no record of a live process without the call or guard that
will remove it, unless removing it has failed) adds `Attended`: the ownership a
thread carries is of its own process, so that a crash that takes the thread out
of the account takes the process its record names out of `live` as well.
`Refinement`:
`WriterLock` implements `ReentrantLock` under the mapping holder = owner of the
registered entry, depth = its depth.

**Cross-link commit** (`LinksCommitProofs`).
`Inv` adds to the properties what each phase of an accept relies on: the row is
pending and, from the promote phase on, the edge is there; the resolve pass has
exactly the pending rows before it. From it: `TypeCorrect`, `PromotionIsBacked`
(a promoted row has its edge unless a compile took an endpoint),
`ResolveIsComplete` (a resolve pass without an error leaves nothing pending),
and the action property `PromotionIsFinal`.

**Structural compile** (`StructuralCompileProofs`).
`Good` is what a graph of the store is: typed, nothing both active and retired,
no symbol without its file, one node per path. `Inv` says that the committed
graph and the transaction's are both good; neither alone is inductive, since a
commit replaces the one by the other. There is a lemma for each operation of the
store and for each stage, the hardest being `PersistMovesGood`: a node that is
moved takes its path from the node made there, and of several moved to one path
the last in a total order stays. From it: `TypeCorrect`, `PathIsUnique`,
`SymbolsHaveFiles` and the action property `CompactionKeeps`.

**Facts of a file** (`StructuralFactsProofs`).
`FactsAreOfTheContent`: the active symbols and `defines` edges of a file are
those of the content its hash names. `FactsInv` adds to `Inv` that an id has one
node (`OwnIds`), that no `defines` edge is left of a file that went
(`OwnDefs`: else a later file with the same derived id would inherit it) and the
property for both graphs, each with its own account of what could not be
retired. `OwnIds` depends on the margin of `detect_rename`: similarities are
fractions (the arithmetic is proved, not sampled), two candidates cannot both
lead, so a file has at most one rename (`OneRename`), and git is asked only
about files that have none (`OneMove`). The assumptions are those of the module:
paths are numbers in their order, contents declare what `Decls` says, and names
and samples are finite.
`CallsAreOfTheContent`: the `calls` edges of a file are those of the content its
hash names. Calls are resolved at the end of a compile, for the content that was
read; `CallsInv` ties each pending file to its node (`Pending`: the node has the
content that was read, or its older facts could not be retired) and the nodes
still to be read to the graph (`Reading`). The identity cascade may delete a new
node while its calls are pending, and leave call edges without a source; they do
no harm to a later file of the same id, because that file's content is in the id,
and no node that was found again is deleted that way (`FoundStays`).
`CompilesConverge` (`Converges`): on a quiet disk as many complete compiles as
there are paths (two for a single one) are enough. After the first of them
nothing vanishes any more (`NothingVanishes`), so no later one renames or
deletes (`SettlePlaces`), and a file that is read keeps the id of its node or
gets the one derived from its path and content (`RenewPlaces`). A node that was
moved here from another path may hold that id; it is taken back, and the path it
is taken from has no node until the next compile. But the id a path derives for
itself is never taken from it. Hence the variant in `SettlingInv`: the paths
whose node has an inherited id only get fewer (`Calm`), each complete compile
that leaves a wanted path without a node has one less of them
(`CommitProgress`), and after the first one at least two paths are not among
them (`Others`). From the second compile on the content is that of the disk too.
Skipped files, failures, crashes and compactions in between are covered: they do
not count, and do no harm. `SettlingAssumption` bounds the counter `quiet` by
what the theorem needs and says that the paths are finite.

**Watch lease** (`WatchLeaseProofs`).
`TypeCorrect`. `LeaseIsFree` (`LeftoversNeverBlock`) follows from `LocksAreHeld`:
every flock, also one of an unlinked inode, is held through an open file by a
process at a step from which it goes on to close it. `CommandsYield`
(`CommandsYieldToLease`) follows from `Yielded`, which says for each place of a
command why it has seen the lease free: the name led nowhere, the probe or the
cleanup got the flock of the inode the name leads to, or the name has left the
inode since it was opened, and a name changes its inode only by leading nowhere
in between (`NameGoesThroughNone`). A Corrupt verdict alone says nothing, so the
cleanup's own lock has to, and an admission on it is what the property leaves
out.

**Watch loop** (`WatchLoopProofs`), for any number of files and clients, any
`MaxPaths` above 0 (the code has 1000) and any faults, files that cannot be read
and operations that hang. `TypeCorrect`; `WorkIsSeen`
(`PendingWorkIsSeen`). `OperationStands` says what an operation's phase and
outcome mean (a reconcile has its batch before it, read, or passed over as
unreadable), and three invariants rest on it:

* `NoReportedEditIsLost` (`NoEditLost`), which is inductive with `EditsStand`:
  before the watches are attached everything stale counts as lost, and a file
  leaves the way to the index other than by being indexed only if a pass could
  not read it.
* `DebtIsRemembered` (`OutdatedIsRemembered`): `DebtStands` adds the operations
  whose completion is yet to be reaped and bound to mark the vectors stale, and
  the batches that a pass left which failed after its commit.
* `AnswersCoverEdits` (`CompletedAnswerCoversEdits`): `AnswersStand` follows a
  request from the queue (what was stale then is still owed, and the client has
  asked) to its operation, which reads everything owed or finds it unreadable, to
  the answer.

The module assumes `NoneIsNoOperation`: the null value is none of the operations
the loop can start.

**Anchored edits** (`AnchoredEditsProofs`), for any files, contents and plans;
`ApplyPlan` is not opened. `TypeCorrect`; `RequestIsAtomic` (`AllOrNothing`) from
`RequestStands`, which says for each phase which files are as planned from and
which as planned to, but for those an editor saved since; `GraphKeepsUp`
(`GraphIsCurrent`) from `GraphStands`: no reconcile comes between the planning of
a request and its rollback, so that what a rollback restores is in the graph;
and the action property `EditsAreOfTheShownContent` (`EditsStartFromShown`) from
`PlanFromSession`: a plan was made of the content its session showed.

**Stores** (`StoreMaintenanceProofs`), for any number of processes, any binaries
and any inputs. `TypeCorrect`, whose inductive invariant has that no two
commands hold the lock on the same inode (`OneHolder`) although the lock's file
can be cleared, and that a new inode always exists. `ReadyStoresAreCurrent`
(`ReadyIsCurrent`) rests on two invariants. `DiscoveryStands` is about the
settings the graph is compiled from and not judged by: the snapshot's are the
graph's, and from the judgement of an `init` or `upgrade` to its snapshot the
graph either is of the command's settings, or the index or the graph was found to
be rebuilt and the compile is still to come or done (`Tells`). An upgrade that
rebuilt the index and not the graph would break it, which is the mutant
`Cleared_IndexOnly`. `JudgementStands` builds on it: the snapshot speaks for every
store that is not suspect, and while nobody else was at work, what a command
judged sound still is, what it will clear is not, and what it has made is sound
for its binary and configuration. From the same invariant, the action property
`NothingSoundIsCleared` (`ClearsOnlyStale`).

**Only model-checked**. Liveness under fairness is beyond this prover:
`AcquireReturns` of `WriterLock` and the leads-to properties of
`watch_loop_live`. `EditsLandWhereAsked` compares two computations over
sequences of edits (`ApplyPlan`, a fold over the sorted edits, and `Requested`)
and would need induction over the edits; that the edits are applied to the
content that was shown is proved, what they make of it is checked for the plans
of the run. The violated claims are runs by nature. No module here declares a
RECURSIVE operator.

## 5. Where code and documents disagree

With a run:

* `watch_lease_two_services`: two services start, and a cleanup takes its status
  before either has made the sentinel. It is Inactive, and that branch of the
  cleanup unlinks by name without locking (`status.rs:79-81`), though the branch
  below says never to unlink the lock file while another process holds it. In
  between the first service made and locked the file, and serves on; the second
  makes another, locks it and serves too. The lease's drop, which also unlinks
  by name (`lease/types.rs:308`), is another way there. Reconciles still serialise
  on the writer lock.
* `links_commit_stale`: the comment in `store/overlay/findings.rs:140` expects
  a regenerated candidate to get another id; the suffix keeps 12 characters of a
  pass id that starts with the same ones for every generation.
* `edits_same_line`: `reject_overlaps` accepts an `insert_before` at a line and
  a `replace` of it (`edits/plan.rs:91`); in the order in which they are applied
  the replacement takes the inserted line for its own, and the answer counts both
  as applied.
* `stores_newer_graph`: `docs/SCHEMA.md:38` has `init` block on a newer graph; a
  changed `concept_directories` replaces that action with a rebuild
  (`store/compatibility/evaluate/mod.rs:68`).

Seen while modelling, without a run of their own:

* Writer lock and lease: the last drop reads the record after the flock is free
  and removes it, so that it may remove the next holder's (comment at
  `pipeline/writer/mod.rs:141`; only the name in an error message is lost). Two
  status probes may take each other for a service. A writer is admitted beside a
  service whose state file cannot be parsed (`pipeline/writer/mod.rs:296-298`).
* Cross-links: generation looks at active rows only and the upsert resets the
  state, so a rejected candidate comes back under review, which
  `overlay/types.rs:168` excludes. A promoted row outlives a failed prune and can
  meet its endpoints again without its edge. `docs/SCHEMA.md:500` says
  cross-link compaction deletes candidates; the code deletes audit rows.
* Loop: the worker writes the paused note and the loop sets the blocked flag
  later; turning auto-sync on in between undoes the first and not the second.
  `note_auto_sync_enabled(false)` shows a running sync as not running. The
  startup reconcile runs after the watches are attached although
  `docs/FOUNDATION.md:528` has it before. A file that cannot be read is passed
  over and its pass completes (`stages/code.rs:35-38`): a reported edit of it is
  indexed when something touches it again, or by the next full reconcile. "A
  successful source-changing reconcile marks an existing embedding index stale"
  (`docs/CONFIG.md:45`; `docs/EMBEDDINGS.md:38,40` for a delegated one): a
  startup, keepalive or sync reconcile does not, a manual one that only deletes
  files does not (`graph_changed`, `structural/mod.rs:215`), and a startup or
  manual one that fails after its commit (`reconcile.rs:154`) leaves nothing that
  will. A refresh that panics gets no backoff. An automatic refresh that is
  skipped clears the debt, which is harmless: it is skipped where there is no
  index to refresh.
* Compile: a file whose content moved away and came back differently under the
  old path may derive the id of the node that moved, and the symbols of the other
  content stay active (`unkept`; `docs/FOUNDATION.md:331` has one id
  stand for one file). A move and a copy with one content drop one of the two files for one
  compile. An error of `next_compile_revision` is taken for a store without
  revisions, so that nothing is retired in that compile and what should have been
  stays. Edges that tell of a split or a merge go with their old file in the same
  transaction (`docs/ARCHITECTURE.md:186` has them emitted). Callers are not
  resolved again when a callee changes. A compile is called "re-entrant and
  idempotent, calling twice with the same repository state produces the same graph
  contents both times" (`structural/mod.rs:71`); after an edited rename the second
  one still changes the graph (`Settling`, section 3.1). A compile that only deletes does not
  publish a new snapshot (`docs/ARCHITECTURE.md:280`).
* Edits: deleting the last line and inserting after it panics in the splice; a
  file that ends in an empty line loses it, CRLF becomes LF, and a file whose
  lines are all deleted keeps an empty one. What an editor saves between planning
  and write is overwritten, by a rollback too. A rejected request suppresses the
  events of its files for 15 seconds, and a failed reconcile behind an edit is
  only reported.
* Stores: the graph's own verdict, which every command that reads it asks for
  (`bin/cli_support/graph.rs:157`), stays Continue after an edit of `roots`,
  `max_file_size_bytes` or `redact_globs`, though the compile reads them; the graph
  is compiled anew on account of the index's verdict. Vectors outlive a change of
  `concept_directories`, although `docs/FOUNDATION.md:678` has them rebuilt on
  "Config or source drift" (`Unjudged`). Nothing in the source writes the stores
  `embeddings` and `cache/llm-responses` that the policy judges and clears.
  `init --force` clears the state store, which holds the file of the
  lock it has, so that another process locks a new inode beside it
  (`bootstrap/init/mod.rs:98` says `--force` does not bypass the gate). `sync`
  clears stores without recording it, so that a later sync clears them again, and
  may leave the graph empty when the last reconcile is recent. An
  `upgrade --apply` that dies after clearing the graph finds nothing to do the
  next time. `reconcile` and the commands that write notes do not evaluate
  compatibility (`docs/SCHEMA.md:592`: "at every command start"). A first `init`
  that dies after its compile blocks the next one until `--force`. User notes go
  with an invalidated overlay (`docs/SCHEMA.md:594`).
* Registry: see 7.
* Commentary and notes: the text of a prompt is read from disk and may be newer
  than the graph hash it is stamped with. Verifying a forgotten or superseded
  note makes it active again. `docs export`, `import` and `clean` take no writer
  lock, and a reconcile overwrites edits that were not imported yet.

## 6. Abstractions

* `SetAutoSync` (two flags and a note) is one step, and so is every telemetry
  note; two handlers that set auto-sync at once are not modelled.
* The connection limit of the control listener, pings and status requests do
  not change the loop and are left out. In `WatchLoop` a reconcile reads file by
  file and commits at its end; the vectors are as new as the graph was when their
  build ended (a build holds the writer lock). A hung operation stays hung.
* Process ids are not reused. State files are replaced atomically (rename); in
  `WatchLease` a read may still find one unreadable or not to be parsed, at any
  time and without a cause.
* Cross-link scoring, spans, budgets and the other repair surfaces do not change
  which rows and edges agree and are left out.
* `StructuralCompile`: a parse is a look at the constants `Decls`, `Calls`,
  `Imports`; one root; references, calls from symbol to symbol and the reads of
  git and drift (stages 5, 7) and the published snapshot (8) are left out.
* `AnchoredEdits`: a hash is the content; time is `Expire` and
  `SuppressionEnds`; budgets and diagnostics are left out. The writer lock is
  free when a request asks for it.
* `StoreMaintenance`: the stores of embeddings and of responses, which nothing
  fills, are left out; a snapshot of another version or with invalid JSON is none; clearing a
  store is one step; the lock is released with the last step; the reconcile of an
  index is a build.

## 7. Not modelled, and why

* **Project registry** (`registry`). Every command loads the whole file, changes
  it and writes it back, without a lock and without a statement that two commands
  may run at once. Each interesting property fails at once and contradicts
  nothing: a record can be lost (and with it the removal of a global shim, an MCP
  entry, a line in `.gitignore`), ids can coincide after a project was moved and
  another took its path, a record of a partly failed removal never goes.
* **Commentary and agent notes** (`store/overlay`). Updates of single rows in a
  transaction, under the writer lock; a model would restate SQL statements.
* **Lexical index** (`substrate`) and **vectors**: their contents are kept by
  external libraries; here they have a format and the configuration they were made
  from (`StoreMaintenance`), and the vectors are a debt of the scheduler
  (`WatchLoop`).
* **Nested read snapshots** of `store/sqlite`: a counter per connection, on one
  thread.
* **Repair surfaces**, **explain providers**, **git intelligence**, **metrics,
  diagnostics, export**, **cards and read-only MCP tools**, **configuration**,
  **dashboard**, **command line**: sequential walks, rendering, network clients
  or deletions by age. `PROJECT.json` names each by the file its module starts
  at.

Most of the repository is of this last kind (dashboard, cards, reports, parsers
for a dozen languages), so the modules cover a small share of its lines.

## 8. Plan

Every safety invariant and action property that a passing run checks has its
theorem now, but for `EditsLandWhereAsked` (section 4). What is worth proving
next:

1. Abstract specifications beside `ReentrantLock`, with their refinements: a set
   of unindexed files from which a step only removes what was read (`WatchLoop`);
   one promotion per candidate as an atomic step (`LinksCommit`); an edit request
   as one step over its files when nobody saves in between (`AnchoredEdits`).
2. Lemmas about `ApplyPlan` that need no induction: plans of one edit.
