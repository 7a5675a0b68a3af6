-------------------------- MODULE WatchLoopProofs --------------------------
(***************************************************************************)
(* What the loop of the watch service never loses, for any number of files *)
(* and clients, any limit on the paths kept apart and any faults.          *)
(***************************************************************************)
EXTENDS WatchLoop, SequenceTheorems, TLAPS

Message == [client : Client, ask : Requests, paths : SUBSET Path]

TypeInv == TypeOK /\ inbox \in Seq(Message)

(* An operation as the loop starts it. *)
LEMMA OpTyped ==
  ASSUME NEW kind \in Kinds, NEW c \in Client \cup {None}, NEW paths \in SUBSET Path,
         NEW force \in BOOLEAN
  PROVE  /\ Op(kind, c, paths, force) \in Operation
         /\ Op(kind, c, paths, force) # None
         /\ Op(kind, c, paths, force).kind = kind
         /\ Op(kind, c, paths, force).client = c
         /\ Op(kind, c, paths, force).paths = paths
         /\ Op(kind, c, paths, force).phase = "run"
         /\ Op(kind, c, paths, force).outcome = "none"
<1> DEFINE todo == IF kind \notin Reconciles THEN {}
                   ELSE IF force \/ paths = {} THEN Path ELSE paths
<1>1. todo \subseteq Path
  OBVIOUS
<1>2. Op(kind, c, paths, force)
        = [kind |-> kind, client |-> c, paths |-> paths, force |-> force, todo |-> todo,
           fresh |-> {}, skipped |-> {}, phase |-> "run", outcome |-> "none"]
  BY DEF Op
<1> HIDE DEF todo
<1>3. [kind |-> kind, client |-> c, paths |-> paths, force |-> force, todo |-> todo,
       fresh |-> {}, skipped |-> {}, phase |-> "run", outcome |-> "none"] \in Operation
  BY <1>1 DEF Operation, Outcomes
<1>4. Op(kind, c, paths, force) # None
  BY <1>2, <1>3, NoneIsNoOperation
<1> QED BY <1>2, <1>3, <1>4

(* All but a watch batch are started without paths. *)
Plain(kind, c) ==
  [kind |-> kind, client |-> c, paths |-> {}, force |-> FALSE,
   todo |-> IF kind \in Reconciles THEN Path ELSE {},
   fresh |-> {}, skipped |-> {}, phase |-> "run", outcome |-> "none"]

LEMMA PlainOp ==
  ASSUME NEW kind, NEW c
  PROVE  Op(kind, c, {}, FALSE) = Plain(kind, c)
BY DEF Op, Plain

LEMMA PlainOpTyped ==
  ASSUME NEW kind \in Kinds, NEW c \in Client \cup {None},
         NEW op, op = Plain(kind, c)
  PROVE  /\ op \in Operation /\ op # None /\ op.kind = kind /\ op.client = c
         /\ op.phase = "run" /\ op.outcome = "none"
         /\ kind \in Reconciles => op.todo = Path
<1>1. op \in Operation
  BY DEF Plain, Operation, Outcomes
<1>2. op # None
  BY <1>1, NoneIsNoOperation
<1> QED BY <1>1, <1>2 DEF Plain

(* What a reconcile is given to read. *)
LEMMA OpReads ==
  ASSUME NEW kind \in Reconciles, NEW c, NEW paths, NEW force \in BOOLEAN
  PROVE  \/ Op(kind, c, paths, force).todo = Path
         \/ /\ Op(kind, c, paths, force).todo = paths
            /\ paths # {} /\ ~force
BY DEF Op

(* A batch after more paths: what was waiting still is, and what came is,  *)
(* apart or as part of a full reconcile.                                   *)
LEMMA RecordKeeps ==
  ASSUME NEW pend \in [paths : SUBSET Path, full : BOOLEAN, some : BOOLEAN],
         NEW paths \in SUBSET Path,
         NEW next \in record(pend, paths) \cup {record_full(pend)}
  PROVE  /\ next \in [paths : SUBSET Path, full : BOOLEAN, some : BOOLEAN]
         /\ next.some
         /\ pend.full => next.full
         /\ pend.paths \subseteq next.paths
         /\ next.full \/ paths \subseteq next.paths
<1>1. CASE next = record_full(pend)
  BY <1>1 DEF record_full
<1>2. CASE next = [pend EXCEPT !.paths = pend.paths \cup (paths \ pend.paths), !.some = TRUE]
  BY <1>2
<1>3. CASE \E kept \in SUBSET (paths \ pend.paths) :
             next = [paths |-> pend.paths \cup kept, full |-> TRUE, some |-> TRUE]
  <2>1. PICK kept \in SUBSET (paths \ pend.paths) :
          next = [paths |-> pend.paths \cup kept, full |-> TRUE, some |-> TRUE]
    BY <1>3
  <2> QED BY <2>1
<1> QED BY <1>1, <1>2, <1>3 DEF record

(* What a worker does to the operation it runs. *)
LEMMA FinishTyped ==
  ASSUME TypeOK, Busy, NEW outcome \in Outcomes, Finish(outcome)
  PROVE  /\ active' \in Operation /\ active' # None
         /\ active'.kind = active.kind /\ active'.client = active.client
         /\ active'.paths = active.paths /\ active'.force = active.force
         /\ active'.fresh = active.fresh /\ active'.skipped = active.skipped
         /\ active'.todo = {} /\ active'.phase = "done" /\ active'.outcome = outcome
<1>1. active \in Operation
  BY DEF TypeOK, Busy
<1>2. active' = [active EXCEPT !.phase = "done", !.outcome = outcome, !.todo = {}]
  BY DEF Finish
<1>3. active' \in Operation
  BY <1>1, <1>2 DEF Operation
<1>4. active' # None
  BY <1>3, NoneIsNoOperation
<1> QED BY <1>1, <1>2, <1>3, <1>4 DEF Operation

LEMMA ReadTyped ==
  ASSUME NEW op \in Operation, NEW p \in Path
  PROVE  /\ [op EXCEPT !.todo = op.todo \ {p}, !.fresh = op.fresh \cup {p}] \in Operation
         /\ [op EXCEPT !.todo = op.todo \ {p}, !.skipped = op.skipped \cup {p}] \in Operation
<1>1. /\ op.todo \ {p} \in SUBSET Path /\ op.fresh \cup {p} \in SUBSET Path
      /\ op.skipped \cup {p} \in SUBSET Path
  BY DEF Operation
<1>2. [op EXCEPT !.todo = op.todo \ {p}, !.fresh = op.fresh \cup {p}] \in Operation
  BY <1>1 DEF Operation
<1>3. [op EXCEPT !.todo = op.todo \ {p}, !.skipped = op.skipped \cup {p}] \in Operation
  BY <1>1 DEF Operation
<1> QED BY <1>2, <1>3

(* The request at the head of the channel. *)
LEMMA HeadTyped ==
  ASSUME TypeInv, inbox # <<>>
  PROVE  Head(inbox) \in Message /\ Tail(inbox) \in Seq(Message)
BY DEF TypeInv

LEMMA TypeInvariant == Spec => []TypeInv
<1> USE MaxPathsAssumption, BoundsAssumption, FlagsAssumption, NoneAssumption, NoneIsNoOperation
<1>1. Init => TypeInv
  <2> SUFFICES ASSUME Init PROVE TypeInv
    OBVIOUS
  <2>1. inbox \in Seq(Message) /\ Len(inbox) = 0
    BY DEF Init
  <2>2. pending \in [paths : SUBSET Path, full : BOOLEAN, some : BOOLEAN]
    BY DEF Init, NothingPending
  <2>3. /\ auto \in [pending : BOOLEAN, enabled : BOOLEAN, blocked : BOOLEAN]
        /\ shown \in [running : BOOLEAN, paused : BOOLEAN]
    BY DEF Init
  <2>4. emb \in [stale : BOOLEAN, until : SUBSET Windows] /\ ~emb.stale
    BY DEF Init
  <2>5. owed \in [Client -> SUBSET Path] /\ client \in [Client -> {"new", "waiting", "ok", "error"}]
    BY DEF Init
  <2>6. \A i \in 1 .. Len(inbox) : inbox[i] \in Message
    BY <2>1
  <2>7. edits \in 0 .. MaxEdits /\ faults \in 0 .. MaxFaults
    BY DEF Init
  <2>8. vecs \in {"absent", "current", "outdated"} /\ (vecs # "absent" \/ emb.stale => Semantic)
    BY <2>4 DEF Init
  <2>9. stale \subseteq Path /\ events \subseteq Path /\ muted \subseteq Path /\ lost \subseteq stale
    BY DEF Init
  <2> QED BY <2>1, <2>2, <2>3, <2>4, <2>5, <2>6, <2>7, <2>8, <2>9 DEF Init, TypeInv, TypeOK, Message
<1>2. TypeInv /\ [Next]_vars => TypeInv'
  <2> SUFFICES ASSUME TypeInv, [Next]_vars PROVE TypeInv'
    OBVIOUS
  <2> DEFINE Queue == inbox' \in Seq(Message)
  <2>0. (\A i \in 1 .. Len(inbox) : inbox[i] \in Message) /\ inbox \in Seq(Message)
    BY DEF TypeInv, TypeOK, Message
  <2>q. ASSUME Queue PROVE \A i \in 1 .. Len(inbox') : inbox'[i] \in Message
    BY <2>q
  <2> HIDE DEF Queue
  <2> USE DEF files, requests, syncing, vectors, counters
  <2>1. CASE UNCHANGED vars
    BY <2>1 DEF vars, TypeInv, TypeOK
  <2> DEFINE Rest ==
        /\ pc' \in {"attach", "startup", "top", "recv", "drain", "join", "exited"}
        /\ stop' \in BOOLEAN
        /\ stale' \subseteq Path /\ events' \subseteq Path
        /\ muted' \subseteq Path /\ lost' \subseteq stale'
        /\ pending' \in [paths : SUBSET Path, full : BOOLEAN, some : BOOLEAN]
        /\ active' \in {None} \cup Operation
        /\ client' \in [Client -> {"new", "waiting", "ok", "error"}]
        /\ auto' \in [pending : BOOLEAN, enabled : BOOLEAN, blocked : BOOLEAN]
        /\ shown' \in [running : BOOLEAN, paused : BOOLEAN]
        /\ emb' \in [stale : BOOLEAN, until : SUBSET Windows]
        /\ vecs' \in {"absent", "current", "outdated"}
        /\ (vecs' # "absent" \/ emb'.stale => Semantic)
        /\ edits' \in 0 .. MaxEdits /\ faults' \in 0 .. MaxFaults
        /\ owed' \in [Client -> SUBSET Path]
        /\ (pc' \in {"attach", "startup", "exited"} => active' = None)
  <2>2. Queue /\ Rest => TypeInv'
    BY <2>q DEF TypeInv, TypeOK, Message, Queue
  <2>3. CASE Loop
    <3> USE DEF TypeInv, TypeOK
    <3>1. CASE AttachWatches \/ NothingToReap \/ NothingToStart
      <4>1. Queue
        BY <3>1, <2>0 DEF AttachWatches, NothingToReap, NothingToStart, Queue
      <4>2. Rest
        BY <3>1 DEF AttachWatches, NothingToReap, NothingToStart
      <4> QED BY <2>2, <4>1, <4>2
    <3>2. CASE StartStartup \/ StartAutoSync \/ StartRefresh \/ StartKeepalive
      <4>1. PICK kind \in Kinds : active' = Op(kind, None, {}, FALSE)
        BY <3>2 DEF StartStartup, StartAutoSync, StartRefresh, StartKeepalive, Kinds
      <4>2. active' \in Operation
        BY <4>1, OpTyped
      <4>3. Queue
        BY <3>2, <2>0 DEF StartStartup, StartAutoSync, StartRefresh, StartKeepalive, Queue
      <4>4. auto' = auto \/ auto' = [auto EXCEPT !.pending = FALSE]
        BY <3>2 DEF StartStartup, StartAutoSync, StartRefresh, StartKeepalive
      <4>5. auto' \in [pending : BOOLEAN, enabled : BOOLEAN, blocked : BOOLEAN]
        BY <4>4
      <4>6. /\ pc' = "top"
            /\ UNCHANGED <<stop, files, pending, requests, shown, counters, vectors>>
        BY <3>2 DEF StartStartup, StartAutoSync, StartRefresh, StartKeepalive
      <4>7. Rest
        BY <4>2, <4>5, <4>6
      <4> QED BY <2>2, <4>3, <4>7
    <3>3. CASE HandleCompletion
      <4>1. active \in Operation
        BY <3>3 DEF HandleCompletion, Reapable, Busy
      <4>2. pending' \in [paths : SUBSET Path, full : BOOLEAN, some : BOOLEAN]
        BY <3>3, <4>1 DEF HandleCompletion, Refile, record_full, requeue_failed, Operation
      <4>3. auto' \in [pending : BOOLEAN, enabled : BOOLEAN, blocked : BOOLEAN]
        BY <3>3 DEF HandleCompletion, Rearm
      <4>4. emb' \in [stale : BOOLEAN, until : SUBSET Windows] /\ (emb'.stale => Semantic)
        <5>1. {"quiet", "backoff"} = Windows
          BY DEF Windows
        <5>2. emb' = NoteEmbeddings(active)
          BY <3>3 DEF HandleCompletion
        <5>3. CASE vecs # "absent" /\ emb' = [stale |-> TRUE, until |-> emb.until \cup {"quiet"}]
          BY <5>1, <5>3
        <5>4. CASE emb' = [stale |-> FALSE, until |-> {}]
          BY <5>4
        <5>5. CASE emb' = [emb EXCEPT !.until = emb.until \cup {"backoff"}]
          BY <5>1, <5>5
        <5>6. CASE emb' = emb
          BY <5>6
        <5> HIDE DEF TypeInv, TypeOK
        <5> QED BY <5>2, <5>3, <5>4, <5>5, <5>6 DEF NoteEmbeddings
      <4>5. shown' \in [running : BOOLEAN, paused : BOOLEAN]
        BY <3>3 DEF HandleCompletion
      <4>6. client' \in [Client -> {"new", "waiting", "ok", "error"}]
        BY <3>3 DEF HandleCompletion, Answer
      <4>7. Queue
        BY <3>3, <2>0 DEF HandleCompletion, Queue
      <4>8. Rest
        BY <3>3, <4>2, <4>3, <4>4, <4>5, <4>6 DEF HandleCompletion
      <4> QED BY <2>2, <4>7, <4>8
    <3>4. ASSUME NEW moved \in BOOLEAN, StartWatchReconcile(moved) PROVE TypeInv'
      <4>1. /\ pc' = "top" /\ edits' \in 0 .. MaxEdits
            /\ UNCHANGED <<stop, files, requests, syncing, vectors>>
        BY <3>4 DEF StartWatchReconcile
      <4>2. /\ active' \in {None} \cup Operation /\ faults' \in 0 .. MaxFaults
            /\ pending' \in [paths : SUBSET Path, full : BOOLEAN, some : BOOLEAN]
        <5>1. CASE /\ active' = Op("watch", None, pending.paths, pending.full \/ moved)
                   /\ pending' = NothingPending /\ faults' = faults
          <6> DEFINE force == pending.full \/ moved
          <6>1. force \in BOOLEAN /\ pending.paths \in SUBSET Path
            OBVIOUS
          <6>2. "watch" \in Kinds
            BY DEF Kinds
          <6>3. active' = Op("watch", None, pending.paths, force)
            BY <5>1
          <6> HIDE DEF force, TypeInv, TypeOK
          <6>4. active' \in Operation
            BY <6>1, <6>2, <6>3, OpTyped
          <6>5. pending' \in [paths : SUBSET Path, full : BOOLEAN, some : BOOLEAN]
            BY <5>1 DEF NothingPending
          <6>6. faults' \in 0 .. MaxFaults
            BY <5>1 DEF TypeInv, TypeOK
          <6> QED BY <6>4, <6>5, <6>6
        <5>2. CASE Fault /\ pending' = record_full(NothingPending) /\ active' = active
          <6>1. pending' \in [paths : SUBSET Path, full : BOOLEAN, some : BOOLEAN]
            BY <5>2 DEF NothingPending, record_full
          <6>2. faults' \in 0 .. MaxFaults
            BY <5>2 DEF Fault
          <6> QED BY <5>2, <6>1, <6>2
        <5> QED BY <3>4, <5>1, <5>2 DEF StartWatchReconcile
      <4>3. Queue
        BY <4>1, <2>0 DEF Queue
      <4>4. Rest
        BY <4>1, <4>2
      <4> QED BY <2>2, <4>3, <4>4
    <3>5. CASE ReceiveSuppress
      <4>1. inbox # <<>> /\ inbox' = Tail(inbox) /\ muted' = muted \cup Head(inbox).paths
        BY <3>5 DEF ReceiveSuppress
      <4>2. Head(inbox) \in Message /\ Tail(inbox) \in Seq(Message)
        BY <4>1, HeadTyped
      <4>3. Queue /\ muted' \subseteq Path
        BY <4>1, <4>2 DEF Message, Queue
      <4>4. Rest
        BY <3>5, <4>3 DEF ReceiveSuppress, Answer
      <4> QED BY <2>2, <4>3, <4>4
    <3>6. CASE ReceiveRequest
      <4>1. inbox # <<>> /\ inbox' = Tail(inbox)
        BY <3>6 DEF ReceiveRequest
      <4>2. Head(inbox) \in Message /\ Tail(inbox) \in Seq(Message)
        BY <4>1, HeadTyped
      <4> DEFINE m == Head(inbox)
      <4>3. m.client \in Client /\ m.ask \in Requests \ {"suppress"}
        BY <3>6, <4>2 DEF ReceiveRequest, Message
      <4>4. OperationOf[m.ask] \in Kinds
        BY <4>3 DEF OperationOf, Requests, Kinds
      <4>5. Op(OperationOf[m.ask], m.client, {}, FALSE) \in Operation
        <5> DEFINE kind == OperationOf[m.ask]
                   op == Op(kind, m.client, {}, FALSE)
        <5>1. kind \in Kinds /\ m.client \in Client \cup {None} /\ op = Op(kind, m.client, {}, FALSE)
          BY <4>3, <4>4
        <5> HIDE DEF m, kind, op, TypeInv, TypeOK
        <5>2. op \in Operation
          BY <5>1, OpTyped
        <5> QED BY <5>2 DEF op, kind
      <4>6. active' \in {None} \cup Operation
        BY <3>6, <4>5 DEF ReceiveRequest
      <4>7. auto' = auto \/ auto' = [auto EXCEPT !.pending = auto.pending /\ m.ask # "sync"]
        BY <3>6 DEF ReceiveRequest
      <4>8. auto' \in [pending : BOOLEAN, enabled : BOOLEAN, blocked : BOOLEAN]
        BY <4>7
      <4>a. Answer(m.client, "error") \/ client' = client
        BY <3>6 DEF ReceiveRequest
      <4>b. client' \in [Client -> {"new", "waiting", "ok", "error"}]
        BY <4>a DEF Answer
      <4>9. Queue
        BY <4>1, <4>2 DEF Queue
      <4>10. Rest
        BY <3>6, <4>6, <4>8, <4>b DEF ReceiveRequest
      <4> QED BY <2>2, <4>9, <4>10
    <3>7. CASE Leave
      <4>1. active' \in {None} \cup Operation
        BY <3>7 DEF Leave, Busy, Operation
      <4>2. Queue /\ Rest
        BY <3>7, <4>1, <2>0 DEF Leave, Answer, Queue
      <4> QED BY <2>2, <4>2
    <3>8. CASE Drain
      <4>1. Queue
        BY <3>8 DEF Drain, Queue
      <4>2. Rest
        BY <3>8 DEF Drain
      <4> QED BY <2>2, <4>1, <4>2
    <3>9. CASE Shutdown
      <4>1. Queue /\ Rest
        BY <3>9, <2>0 DEF Shutdown, Queue
      <4> QED BY <2>2, <4>1
    <3> QED BY <2>3, <3>1, <3>2, <3>3, <3>4, <3>5, <3>6, <3>7, <3>8, <3>9 DEF Loop
  <2>4. CASE Worker
    <3> USE DEF TypeInv, TypeOK
    <3>1. ASSUME NEW p \in Path, ReadFile(p) \/ SkipFile(p) PROVE TypeInv'
      <4>a. active \in Operation
        BY <3>1 DEF ReadFile, SkipFile, Running, Busy
      <4>b. \/ active' = [active EXCEPT !.todo = active.todo \ {p}, !.fresh = active.fresh \cup {p}]
            \/ active' = [active EXCEPT !.todo = active.todo \ {p}, !.skipped = active.skipped \cup {p}]
        BY <3>1 DEF ReadFile, SkipFile
      <4>1. active' \in Operation
        <5> HIDE DEF TypeInv, TypeOK
        <5> QED BY <4>a, <4>b, ReadTyped
      <4>2. faults' \in 0 .. MaxFaults
        BY <3>1 DEF ReadFile, SkipFile, Fault
      <4>3. Queue /\ Rest
        BY <3>1, <4>1, <4>2, <2>0 DEF ReadFile, SkipFile, Running, Busy, Queue
      <4> QED BY <2>2, <4>3
    <3>2. CASE ReconcileCompletes
      <4>1. active' \in Operation /\ Busy
        <5>1. PICK outcome \in Outcomes : Finish(outcome)
          BY <3>2 DEF ReconcileCompletes, Outcomes
        <5> QED BY <3>2, <5>1, FinishTyped DEF ReconcileCompletes, Running
      <4>2. Queue
        BY <3>2, <2>0 DEF ReconcileCompletes, Queue
      <4>3. owed' \in [Client -> SUBSET Path]
        BY <3>2 DEF ReconcileCompletes
      <4>4. /\ vecs' \in {"absent", "current", "outdated"}
            /\ (vecs' # "absent" \/ emb'.stale => Semantic)
        BY <3>2 DEF ReconcileCompletes, VectorsAfter
      <4>5. stale' \subseteq Path /\ lost' \subseteq stale'
        BY <3>2 DEF ReconcileCompletes
      <4>6. Rest
        BY <3>2, <4>1, <4>3, <4>4, <4>5 DEF ReconcileCompletes, Busy
      <4> QED BY <2>2, <4>2, <4>6
    <3>3. CASE ReconcileFails \/ SyncEnds \/ SyncFails
      <4>1. active' \in Operation /\ Busy
        BY <3>3, FinishTyped
           DEF ReconcileFails, SyncEnds, SyncFails, Syncing, Running, Outcomes
      <4>2. faults' \in 0 .. MaxFaults
        BY <3>3 DEF ReconcileFails, SyncEnds, SyncFails, Fault
      <4>a. /\ vecs' \in {"absent", "current", "outdated"}
            /\ (vecs' # "absent" \/ emb'.stale => Semantic)
        BY <3>3 DEF ReconcileFails, SyncEnds, SyncFails, VectorsAfter
      <4>3. shown' \in [running : BOOLEAN, paused : BOOLEAN]
        <5>1. CASE shown' = shown
          BY <5>1
        <5>2. CASE SyncEnds
          <6>1. PICK blocked \in BOOLEAN :
                  shown' = IF active.kind = "autoSync" THEN [running |-> FALSE, paused |-> blocked]
                           ELSE [shown EXCEPT !.paused = shown.paused /\ blocked]
            BY <5>2 DEF SyncEnds
          <6>2. CASE active.kind = "autoSync"
            BY <6>1, <6>2
          <6>3. CASE active.kind # "autoSync"
            BY <6>1, <6>3
          <6> QED BY <6>2, <6>3
        <5>3. CASE shown' = [shown EXCEPT !.running = shown.running /\ active.kind # "autoSync"]
          BY <5>3
        <5> QED BY <3>3, <5>1, <5>2, <5>3 DEF ReconcileFails, SyncFails
      <4>4. Queue
        BY <3>3, <2>0 DEF ReconcileFails, SyncEnds, SyncFails, Queue
      <4>5. Rest
        BY <3>3, <4>1, <4>2, <4>a, <4>3 DEF ReconcileFails, SyncEnds, SyncFails, Busy
      <4> QED BY <2>2, <4>4, <4>5
    <3>4. CASE SyncStarts
      <4>1. active' \in Operation /\ Busy
        BY <3>4 DEF SyncStarts, Running, Busy, Operation
      <4>2. Queue /\ Rest
        BY <3>4, <4>1, <2>0 DEF SyncStarts, Busy, Queue
      <4> QED BY <2>2, <4>2
    <3>5. CASE EmbeddingsEnd
      <4>1. active' \in Operation /\ Busy
        BY <3>5, FinishTyped DEF EmbeddingsEnd, Running, Outcomes
      <4>2. Queue
        BY <3>5, <2>0 DEF EmbeddingsEnd, Queue
      <4>3. /\ faults' \in 0 .. MaxFaults
            /\ vecs' \in {"absent", "current", "outdated"} /\ (vecs' # "absent" => Semantic)
            /\ UNCHANGED <<pc, stop, files, pending, requests, syncing, edits, emb>>
        <5>1. CASE Semantic /\ vecs' = "current" /\ faults' = faults
          BY <3>5, <5>1 DEF EmbeddingsEnd
        <5>2. CASE vecs' = vecs /\ faults' = faults
          BY <3>5, <5>2 DEF EmbeddingsEnd
        <5>3. CASE Fault /\ vecs' = vecs
          BY <3>5, <5>3 DEF EmbeddingsEnd, Fault
        <5> QED BY <3>5, <5>1, <5>2, <5>3 DEF EmbeddingsEnd
      <4>4. Rest
        BY <4>1, <4>3 DEF Busy
      <4> QED BY <2>2, <4>2, <4>4
    <3> QED BY <2>4, <3>1, <3>2, <3>3, <3>4, <3>5 DEF Worker
  <2>5. CASE Deliver
    <3> USE DEF TypeInv, TypeOK
    <3>1. PICK burst \in SUBSET events \ {{}} :
            LET heard == burst \ muted
            IN  /\ events' = events \ burst
                /\ IF heard = {} THEN UNCHANGED pending
                   ELSE pending' \in record(pending, heard) \cup {record_full(pending)}
                /\ lost' = lost \cup {p \in stale \cap burst \cap muted : ~Covers(pending', p)}
      BY <2>5 DEF Deliver
    <3>2. pending' \in [paths : SUBSET Path, full : BOOLEAN, some : BOOLEAN]
      <4>1. burst \ muted \subseteq Path
        OBVIOUS
      <4> QED BY <3>1, <4>1, RecordKeeps
    <3>3. Queue /\ Rest
      BY <2>5, <3>1, <3>2, <2>0 DEF Deliver, Queue
    <3> QED BY <2>2, <3>3
  <2>6. CASE Outside
    <3> USE DEF TypeInv, TypeOK
    <3>1. ASSUME NEW p \in Path, Edit(p) PROVE TypeInv'
      <4>1. active' \in {None} \cup Operation /\ (active = None => active' = None)
        BY <3>1 DEF Edit, Busy, Operation
      <4>2. Queue
        BY <3>1, <2>0 DEF Edit, Queue
      <4>3. Rest
        BY <3>1, <4>1 DEF Edit
      <4> QED BY <2>2, <4>2, <4>3
    <3>2. ASSUME NEW p \in Path, Unmute(p) PROVE TypeInv'
      <4>1. Queue /\ Rest
        BY <3>2, <2>0 DEF Unmute, Queue
      <4> QED BY <2>2, <4>1
    <3>3. ASSUME NEW c \in Client, GiveUp(c) PROVE TypeInv'
      <4>1. Queue /\ Rest
        BY <3>3, <2>0 DEF GiveUp, Queue
      <4> QED BY <2>2, <4>1
    <3>4. ASSUME NEW c \in Client, NEW ask \in Requests, Request(c, ask) PROVE TypeInv'
      <4>1. PICK paths \in SUBSET Path :
              inbox' = Append(inbox, [client |-> c, ask |-> ask, paths |-> paths])
        <5>1. \E paths \in IF ask = "suppress" THEN {{p} : p \in Path} ELSE {{}} :
                inbox' = Append(inbox, [client |-> c, ask |-> ask, paths |-> paths])
          BY <3>4 DEF Request
        <5>2. \A paths \in IF ask = "suppress" THEN {{p} : p \in Path} ELSE {{}} : paths \in SUBSET Path
          OBVIOUS
        <5> QED BY <5>1, <5>2
      <4>2. [client |-> c, ask |-> ask, paths |-> paths] \in Message
        BY DEF Message
      <4>3. Queue
        <5> HIDE DEF TypeInv, TypeOK
        <5> QED BY <4>1, <4>2, <2>0 DEF Queue
      <4>4. Rest
        BY <3>4 DEF Request
      <4> QED BY <2>2, <4>3, <4>4
    <3>5. ASSUME NEW on \in BOOLEAN, SetAutoSync(on) PROVE TypeInv'
      <4>1. edits' \in 0 .. MaxEdits
        BY <3>5 DEF SetAutoSync
      <4>2. Queue /\ UNCHANGED <<pc, stop, files, pending, active, requests, faults, vectors>>
        BY <3>5, <2>0 DEF SetAutoSync, Queue
      <4>3. /\ auto' \in [pending : BOOLEAN, enabled : BOOLEAN, blocked : BOOLEAN]
            /\ shown' \in [running : BOOLEAN, paused : BOOLEAN]
        BY <3>5 DEF SetAutoSync
      <4>4. Rest
        BY <4>1, <4>2, <4>3 DEF files, requests, vectors
      <4> QED BY <2>2, <4>2, <4>4
    <3>6. ASSUME NEW w \in Windows, WindowEnds(w) PROVE TypeInv'
      <4>1. Queue /\ Rest
        BY <3>6, <2>0 DEF WindowEnds, Queue
      <4> QED BY <2>2, <4>1
    <3>7. CASE RequestStop
      <4>1. Queue /\ Rest
        BY <3>7, <2>0 DEF RequestStop, Queue
      <4> QED BY <2>2, <4>1
    <3>8. CASE Hang \/ DropVectors
      <4>1. active' \in {None} \cup Operation /\ (active = None => active' = None)
        BY <3>8 DEF Hang, DropVectors, Busy, Operation
      <4>2. faults' \in 0 .. MaxFaults
        BY <3>8 DEF Hang, DropVectors, Fault
      <4>3. Queue /\ Rest
        BY <3>8, <4>1, <4>2, <2>0 DEF Hang, DropVectors, Queue
      <4> QED BY <2>2, <4>3
    <3> QED BY <2>6, <3>1, <3>2, <3>3, <3>4, <3>5, <3>6, <3>7, <3>8 DEF Outside
  <2> QED BY <2>1, <2>3, <2>4, <2>5, <2>6 DEF Next
<1> QED BY <1>1, <1>2, PTL DEF Spec

(* Whatever the loop, the worker, the debouncer and the handlers do, the   *)
(* loop knows what it runs, and it runs nothing before it has attached or  *)
(* after it has returned.                                                  *)
THEOREM TypeCorrect == Spec => []TypeOK
<1>1. TypeInv => TypeOK
  BY DEF TypeInv
<1> QED BY <1>1, TypeInvariant, PTL

-----------------------------------------------------------------------------
(* What the loop starts, and what it leaves alone when it does. *)

LEMMA Started ==
  ASSUME TypeInv, StartStartup \/ StartAutoSync \/ StartRefresh \/ StartKeepalive
  PROVE  /\ ~Busy /\ Busy' /\ pc' = "top"
         /\ active'.client = None /\ active'.phase = "run" /\ active'.outcome = "none"
         /\ active'.kind \in {"startup", "autoSync", "autoEmbeddings", "keepalive"}
         /\ UNCHANGED <<stop, files, pending, requests, vectors>>
<1>1. PICK kind \in {"startup", "autoSync", "autoEmbeddings", "keepalive"} :
        active' = Plain(kind, None)
  BY PlainOp DEF StartStartup, StartAutoSync, StartRefresh, StartKeepalive
<1>2. kind \in Kinds
  BY DEF Kinds
<1>3. /\ active' # None /\ active'.kind = kind
      /\ active'.client = None /\ active'.phase = "run" /\ active'.outcome = "none"
  BY <1>1, <1>2, PlainOpTyped
<1>4. /\ pc' = "top" /\ ~Busy
      /\ UNCHANGED <<stop, files, pending, requests, vectors>>
  BY DEF StartStartup, StartAutoSync, StartRefresh, StartKeepalive, Tick, TypeInv, TypeOK, Busy
<1> QED BY <1>3, <1>4 DEF Busy

LEMMA WatchStarted ==
  ASSUME TypeInv, NEW moved \in BOOLEAN, StartWatchReconcile(moved)
  PROVE  /\ ~Busy /\ pc' = "top"
         /\ UNCHANGED <<stop, files, requests, vectors>>
         /\ \/ /\ Busy' /\ active'.kind = "watch" /\ active'.client = None
               /\ active'.phase = "run" /\ active'.outcome = "none"
               /\ active'.paths = pending.paths
               /\ pending.full => active'.force
               /\ active'.todo = Path \/ (active'.todo = active'.paths /\ ~active'.force)
               /\ pending' = NothingPending
            \/ active' = active /\ pending' = record_full(NothingPending)
<1>1. /\ ~Busy /\ pc' = "top"
      /\ UNCHANGED <<stop, files, requests, vectors>>
  BY DEF StartWatchReconcile, Tick
<1>2. CASE active' = active /\ pending' = record_full(NothingPending)
  BY <1>1, <1>2
<1>3. CASE /\ active' = Op("watch", None, pending.paths, pending.full \/ moved)
           /\ pending' = NothingPending
  <2> DEFINE force == pending.full \/ moved
             paths == pending.paths
             op == active'
             kind == "watch"
  <2>1. force \in BOOLEAN /\ paths \in SUBSET Path /\ kind \in Kinds
    BY DEF TypeInv, TypeOK, Kinds
  <2>2. op = Op(kind, None, paths, force) /\ op.force = force /\ kind \in Reconciles
    BY <1>3 DEF Op, Reconciles
  <2>3. pending.full => op.force
    BY <2>2
  <2> HIDE DEF force, paths, op, kind
  <2>4. /\ op # None /\ op.kind = kind /\ op.client = None
        /\ op.phase = "run" /\ op.outcome = "none" /\ op.paths = paths
    BY <2>1, <2>2, OpTyped
  <2>5. op.todo = Path \/ (op.todo = paths /\ ~force)
    BY <2>1, <2>2, OpReads
  <2>6. op.todo = Path \/ (op.todo = op.paths /\ ~op.force)
    BY <2>2, <2>4, <2>5
  <2> QED BY <1>1, <1>3, <2>3, <2>4, <2>6 DEF op, paths, kind, Busy
<1> QED BY <1>2, <1>3 DEF StartWatchReconcile

LEMMA RequestStarted ==
  ASSUME TypeInv, ReceiveRequest, ~Busy
  PROVE  /\ Busy' /\ active'.kind = OperationOf[Head(inbox).ask]
         /\ active'.client = Head(inbox).client
         /\ active'.phase = "run" /\ active'.outcome = "none"
         /\ active'.kind = "manual" => active'.todo = Path
         /\ client' = client
<1> DEFINE m == Head(inbox)
           kind == OperationOf[m.ask]
           op == active'
<1>1. inbox # <<>>
  BY DEF ReceiveRequest
<1>2. m \in Message /\ m.ask # "suppress"
  BY <1>1, HeadTyped DEF ReceiveRequest
<1>3. m.client \in Client \cup {None} /\ kind \in Kinds /\ {} \in SUBSET Path
  BY <1>2 DEF Message, OperationOf, Requests, Kinds
<1>4. op = Plain(kind, m.client) /\ client' = client
  BY PlainOp DEF ReceiveRequest
<1> HIDE DEF m, kind, op
<1>5. /\ op # None /\ op.kind = kind /\ op.client = m.client
      /\ op.phase = "run" /\ op.outcome = "none"
  BY <1>3, <1>4, PlainOpTyped
<1>6. op.kind = "manual" => op.todo = Path
  BY <1>3, <1>4, <1>5, PlainOpTyped DEF Reconciles
<1> QED BY <1>4, <1>5, <1>6 DEF op, kind, m, Busy

-----------------------------------------------------------------------------
(* Only the debouncer, the reaping of an operation and the start of a      *)
(* batch touch what is pending.                                            *)
LEMMA PendingStays ==
  ASSUME [Next]_vars, ~Deliver, ~HandleCompletion,
         \A moved \in BOOLEAN : ~StartWatchReconcile(moved)
  PROVE  pending' = pending
<1>1. CASE UNCHANGED vars
  BY <1>1 DEF vars
<1>2. CASE Loop
  BY <1>2 DEF Loop, AttachWatches, StartStartup, NothingToReap, StartAutoSync, StartRefresh,
     StartKeepalive, NothingToStart, ReceiveSuppress, ReceiveRequest, Leave, Drain, Shutdown
<1>3. CASE Worker
  BY <1>3 DEF Worker, ReadFile, SkipFile, ReconcileCompletes, ReconcileFails, SyncStarts, SyncEnds,
     SyncFails, EmbeddingsEnd
<1>4. CASE Outside
  BY <1>4 DEF Outside, Edit, Unmute, GiveUp, Request, SetAutoSync, WindowEnds, RequestStop,
     Hang, DropVectors
<1> QED BY <1>1, <1>2, <1>3, <1>4 DEF Next

(* Work handed over is never forgotten by its marker: whatever the         *)
(* debouncer files and whatever a failed batch is filed again with, the    *)
(* loop sees that there is some.                                           *)
THEOREM WorkIsSeen == Spec => []PendingWorkIsSeen
<1>1. Init => PendingWorkIsSeen
  BY DEF Init, PendingWorkIsSeen, NothingPending
<1>2. TypeInv /\ PendingWorkIsSeen /\ [Next]_vars => PendingWorkIsSeen'
  <2> SUFFICES ASSUME TypeInv, PendingWorkIsSeen, [Next]_vars PROVE PendingWorkIsSeen'
    OBVIOUS
  <2> USE DEF PendingWorkIsSeen
  <2>0. pending \in [paths : SUBSET Path, full : BOOLEAN, some : BOOLEAN]
    BY DEF TypeInv, TypeOK
  <2>1. CASE Deliver
    <3>1. PICK burst \in SUBSET events :
            \/ pending' = pending
            \/ pending' \in record(pending, burst \ muted) \cup {record_full(pending)}
      BY <2>1 DEF Deliver
    <3>2. burst \ muted \in SUBSET Path
      BY DEF TypeInv, TypeOK
    <3>3. CASE pending' \in record(pending, burst \ muted) \cup {record_full(pending)}
      BY <3>2, <3>3, <2>0, RecordKeeps
    <3> QED BY <3>1, <3>3
  <2>2. CASE HandleCompletion
    BY <2>0, <2>2 DEF HandleCompletion, Refile, record_full, requeue_failed
  <2>3. ASSUME NEW moved \in BOOLEAN, StartWatchReconcile(moved) PROVE PendingWorkIsSeen'
    <3>1. pending' = NothingPending \/ pending' = record_full(NothingPending)
      BY <2>3, WatchStarted
    <3>2. NothingPending.paths = {} /\ NothingPending.full = FALSE
      BY DEF NothingPending
    <3>3. record_full(NothingPending).some = TRUE
      BY DEF record_full, NothingPending
    <3> QED BY <3>1, <3>2, <3>3
  <2> QED BY <2>1, <2>2, <2>3, PendingStays
<1> QED BY <1>1, <1>2, TypeInvariant, PTL DEF Spec

-----------------------------------------------------------------------------
(* What a step does to the operation under way, if it touches it at all.   *)

SameBatch == /\ active'.kind = active.kind /\ active'.paths = active.paths
             /\ active'.force = active.force

(* The files a reconcile has yet to read, or has come to and found as they *)
(* still are.                                                              *)
Reads(op) == op.todo \cup op.fresh \cup op.skipped

LEMMA ReadStep ==
  ASSUME TypeInv, NEW p \in Path, ReadFile(p) \/ SkipFile(p)
  PROVE  /\ Busy /\ Busy' /\ SameBatch /\ active'.client = active.client
         /\ active.phase = "run" /\ active'.phase = "run" /\ active'.outcome = active.outcome
         /\ Reads(active') = Reads(active)
<1>1. active \in Operation /\ Busy /\ active.phase = "run" /\ p \in active.todo
  BY DEF ReadFile, SkipFile, Running, Busy, TypeInv, TypeOK
<1>2. \/ active' = [active EXCEPT !.todo = active.todo \ {p}, !.fresh = active.fresh \cup {p}]
      \/ active' = [active EXCEPT !.todo = active.todo \ {p}, !.skipped = active.skipped \cup {p}]
  BY DEF ReadFile, SkipFile
<1>3. active' \in Operation
  BY <1>1, <1>2, ReadTyped
<1>4. active' # None
  BY <1>3, NoneIsNoOperation
<1>5. ASSUME active' = [active EXCEPT !.todo = active.todo \ {p}, !.fresh = active.fresh \cup {p}]
      PROVE  SameBatch /\ active'.client = active.client /\ active'.phase = active.phase
             /\ active'.outcome = active.outcome /\ Reads(active') = Reads(active)
  BY <1>1, <1>5 DEF Operation, SameBatch, Reads
<1>6. ASSUME active' = [active EXCEPT !.todo = active.todo \ {p}, !.skipped = active.skipped \cup {p}]
      PROVE  SameBatch /\ active'.client = active.client /\ active'.phase = active.phase
             /\ active'.outcome = active.outcome /\ Reads(active') = Reads(active)
  BY <1>1, <1>6 DEF Operation, SameBatch, Reads
<1> QED BY <1>1, <1>2, <1>4, <1>5, <1>6 DEF Busy

LEMMA EditStep ==
  ASSUME TypeInv, NEW p \in Path, Edit(p)
  PROVE  /\ Busy <=> Busy'
         /\ Busy => /\ SameBatch /\ active'.client = active.client
                    /\ active'.phase = active.phase /\ active'.outcome = active.outcome
                    /\ active'.todo = active.todo /\ active'.fresh = active.fresh \ {p}
                    /\ active'.skipped = active.skipped \ {p}
<1>1. CASE ~Busy
  BY <1>1 DEF Edit, Busy
<1>2. CASE Busy
  <2>1. active \in Operation
    BY <1>2 DEF Busy, TypeInv, TypeOK
  <2>2. active' = [active EXCEPT !.fresh = active.fresh \ {p}, !.skipped = active.skipped \ {p}]
    BY <1>2 DEF Edit
  <2>3. active' \in Operation
    BY <2>1, <2>2 DEF Operation
  <2>4. active' # None
    BY <2>3, NoneIsNoOperation
  <2> QED BY <1>2, <2>1, <2>2, <2>4 DEF Operation, Busy, SameBatch
<1> QED BY <1>1, <1>2

LEMMA SyncStep ==
  ASSUME TypeInv, SyncStarts
  PROVE  /\ Busy /\ Busy' /\ SameBatch /\ active'.client = active.client
         /\ active.kind = "autoSync" /\ active.phase = "run" /\ active'.phase = "syncing"
         /\ active'.outcome = active.outcome
         /\ Reads(active') = Reads(active)
<1>1. active \in Operation /\ Busy /\ active.phase = "run" /\ active.kind = "autoSync"
  BY DEF SyncStarts, Running, Busy, TypeInv, TypeOK
<1>2. active' = [active EXCEPT !.phase = "syncing"]
  BY DEF SyncStarts
<1>3. active' \in Operation
  BY <1>1, <1>2 DEF Operation
<1>4. active' # None
  BY <1>3, NoneIsNoOperation
<1> QED BY <1>1, <1>2, <1>4 DEF Operation, Busy, SameBatch, Reads

LEMMA HangStep ==
  ASSUME TypeInv, Hang
  PROVE  /\ Busy /\ Busy' /\ SameBatch /\ active'.client = active.client
         /\ active.phase \in {"run", "syncing"} /\ active'.phase = "hung"
         /\ active'.outcome = active.outcome /\ Reads(active') = Reads(active)
<1>1. active \in Operation /\ Busy /\ active.phase \in {"run", "syncing"}
  BY DEF Hang, Busy, TypeInv, TypeOK
<1>2. active' = [active EXCEPT !.phase = "hung"]
  BY DEF Hang
<1>3. active' \in Operation
  BY <1>1, <1>2 DEF Operation
<1>4. active' # None
  BY <1>3, NoneIsNoOperation
<1> QED BY <1>1, <1>2, <1>4 DEF Operation, Busy, SameBatch, Reads

LEMMA LeaveStep ==
  ASSUME TypeInv, Leave
  PROVE  /\ Busy <=> Busy'
         /\ Busy => /\ SameBatch /\ active'.client = None
                    /\ active'.phase = active.phase /\ active'.outcome = active.outcome
                    /\ active'.todo = active.todo /\ active'.fresh = active.fresh
                    /\ active'.skipped = active.skipped
<1>1. CASE ~Busy
  BY <1>1 DEF Leave, Busy
<1>2. CASE Busy
  <2>1. active \in Operation
    BY <1>2 DEF Busy, TypeInv, TypeOK
  <2>2. active' = [active EXCEPT !.client = None]
    BY <1>2 DEF Leave
  <2>3. active' \in Operation
    BY <2>1, <2>2 DEF Operation
  <2>4. active' # None
    BY <2>3, NoneIsNoOperation
  <2> QED BY <1>2, <2>1, <2>2, <2>4 DEF Operation, Busy, SameBatch
<1> QED BY <1>1, <1>2

(* How each operation of a worker ends. *)
Ended(outcomes) ==
  /\ Busy /\ Busy' /\ SameBatch /\ active'.client = active.client
  /\ active'.phase = "done" /\ active'.outcome \in outcomes
  /\ active'.todo = {} /\ active'.fresh = active.fresh /\ active'.skipped = active.skipped

LEMMA FinishEnds ==
  ASSUME TypeInv, Busy, NEW outcomes \in SUBSET Outcomes,
         \E outcome \in outcomes : Finish(outcome)
  PROVE  Ended(outcomes)
<1>1. PICK outcome \in outcomes : Finish(outcome)
  OBVIOUS
<1>2. outcome \in Outcomes /\ TypeOK
  BY DEF TypeInv
<1> QED BY <1>1, <1>2, FinishTyped DEF Ended, SameBatch, Busy

LEMMA WorkerEnds ==
  ASSUME TypeInv
  PROVE  /\ ReconcileCompletes => Ended({"completed", "changed"})
         /\ ReconcileFails => Ended({"failed", "panic"})
         /\ SyncEnds => Ended({"clean", "blocked"})
         /\ SyncFails => Ended({"failed", "panic"})
         /\ EmbeddingsEnd => Ended({"completed", "failed", "panic"})
<1> DEFINE done == {"completed", "changed"}
           bad == {"failed", "panic"}
           synced == {"clean", "blocked"}
           built == {"completed", "failed", "panic"}
<1>1. {done, bad, synced, built} \subseteq SUBSET Outcomes
  BY DEF Outcomes
<1>2. /\ ReconcileCompletes => Busy /\ \E outcome \in done : Finish(outcome)
      /\ ReconcileFails => Busy /\ \E outcome \in bad : Finish(outcome)
      /\ SyncEnds => Busy /\ \E outcome \in synced : Finish(outcome)
      /\ SyncFails => Busy /\ \E outcome \in bad : Finish(outcome)
      /\ EmbeddingsEnd => Busy /\ \E outcome \in built : Finish(outcome)
  <2>1. ReconcileCompletes => Busy /\ \E outcome \in done : Finish(outcome)
    BY DEF ReconcileCompletes, Running
  <2>2. ReconcileFails => Busy /\ \E outcome \in bad : Finish(outcome)
    BY DEF ReconcileFails, Running
  <2>3. SyncEnds => Busy /\ \E outcome \in synced : Finish(outcome)
    BY DEF SyncEnds, Syncing
  <2>4. SyncFails => Busy /\ \E outcome \in bad : Finish(outcome)
    BY DEF SyncFails, Syncing
  <2>5. EmbeddingsEnd => Busy /\ \E outcome \in built : Finish(outcome)
    BY DEF EmbeddingsEnd, Running
  <2> QED BY <2>1, <2>2, <2>3, <2>4, <2>5
<1> HIDE DEF done, bad, synced, built
<1>3. /\ ReconcileCompletes => Ended(done)
      /\ ReconcileFails => Ended(bad)
      /\ SyncEnds => Ended(synced)
      /\ SyncFails => Ended(bad)
      /\ EmbeddingsEnd => Ended(built)
  BY <1>1, <1>2, FinishEnds
<1> QED BY <1>3 DEF done, bad, synced, built

(* Everything else leaves it alone. *)
Aside == \/ UNCHANGED vars
         \/ AttachWatches \/ NothingToReap \/ NothingToStart \/ ReceiveSuppress \/ Drain
         \/ Deliver
         \/ \E p \in Path : Unmute(p)
         \/ \E c \in Client : GiveUp(c) \/ \E ask \in Requests : Request(c, ask)
         \/ \E on \in BOOLEAN : SetAutoSync(on)
         \/ \E w \in Windows : WindowEnds(w)
         \/ RequestStop \/ DropVectors
         \/ ReceiveRequest /\ Busy

LEMMA AsideStep ==
  ASSUME TypeInv, Aside
  PROVE  /\ UNCHANGED <<active, stale>> /\ emb'.stale = emb.stale
         /\ vecs' = "outdated" => vecs = "outdated"
<1> USE DEF files, counters, vectors
<1>1. CASE \E w \in Windows : WindowEnds(w)
  <2>1. emb \in [stale : BOOLEAN, until : SUBSET Windows]
    BY DEF TypeInv, TypeOK
  <2> QED BY <1>1, <2>1 DEF WindowEnds
<1>2. CASE ~\E w \in Windows : WindowEnds(w)
  <2>1. UNCHANGED <<active, stale, emb>> /\ (vecs' = vecs \/ vecs' = "absent")
    BY <1>2 DEF Aside, vars, AttachWatches, NothingToReap, NothingToStart, ReceiveSuppress,
       Drain, Deliver, Unmute, GiveUp, Request, SetAutoSync, RequestStop, DropVectors,
       ReceiveRequest
  <2> QED BY <2>1
<1> QED BY <1>1, <1>2

-----------------------------------------------------------------------------
(* What an operation's phase and outcome say of it: a reconcile that counts *)
(* as completed has read its batch, and what it read and nobody touched     *)
(* since is indexed.                                                        *)
OperationStands == Busy =>
  /\ active.phase \in {"run", "hung"} => active.outcome = "none"
  /\ active.phase = "syncing" => active.kind = "autoSync" /\ active.outcome = "none"
  /\ active.phase = "done" /\ active.kind \in Reconciles =>
       active.outcome \in {"completed", "changed", "failed", "panic"}
  /\ Indexed(active) => active.todo = {} /\ active.fresh \cap stale = {}

LEMMA OperationInvariant == Spec => []OperationStands
<1>1. Init => OperationStands
  BY DEF Init, OperationStands, Busy
<1>2. TypeInv /\ OperationStands /\ [Next]_vars => OperationStands'
  <2> SUFFICES ASSUME TypeInv, OperationStands, [Next]_vars PROVE OperationStands'
    OBVIOUS
  <2> USE DEF OperationStands, Indexed
  <2>1. CASE Aside
    BY <2>1, AsideStep DEF Busy
  <2>2. ASSUME Busy', active'.phase = "run", active'.outcome = "none" PROVE OperationStands'
    BY <2>2
  <2>3. CASE StartStartup \/ StartAutoSync \/ StartRefresh \/ StartKeepalive
    BY <2>2, <2>3, Started
  <2>4. ASSUME NEW moved \in BOOLEAN, StartWatchReconcile(moved) PROVE OperationStands'
    <3>1. ~Busy /\ stale' = stale
          /\ (active' = active \/ (Busy' /\ active'.phase = "run" /\ active'.outcome = "none"))
      BY <2>4, WatchStarted DEF files
    <3> QED BY <2>2, <3>1 DEF Busy
  <2>5. CASE ReceiveRequest /\ ~Busy
    BY <2>2, <2>5, RequestStarted
  <2>6. CASE HandleCompletion \/ Shutdown
    BY <2>6 DEF HandleCompletion, Shutdown, Busy
  <2>7. CASE Leave
    BY <2>7, LeaveStep DEF Leave, SameBatch, files
  <2>8. ASSUME NEW p \in Path, ReadFile(p) \/ SkipFile(p) PROVE OperationStands'
    BY <2>2, <2>8, ReadStep
  <2>9. ASSUME NEW p \in Path, Edit(p) PROVE OperationStands'
    <3>1. stale' = stale \cup {p}
      BY <2>9 DEF Edit
    <3> QED BY <2>9, <3>1, EditStep DEF SameBatch
  <2>10. CASE SyncStarts
    BY <2>10, SyncStep DEF SameBatch, Reconciles
  <2>a. CASE Hang
    BY <2>a, HangStep
  <2>11. CASE ReconcileCompletes
    <3>1. Ended({"completed", "changed"}) /\ stale' = stale \ active.fresh
      BY <2>11, WorkerEnds DEF ReconcileCompletes
    <3> QED BY <3>1 DEF Ended
  <2>12. CASE ReconcileFails
    <3>1. Ended({"failed", "panic"})
      BY <2>12, WorkerEnds
    <3> QED BY <3>1 DEF Ended
  <2>13. CASE SyncEnds \/ SyncFails \/ EmbeddingsEnd
    <3>1. active.kind \notin Reconciles
      BY <2>13 DEF SyncEnds, SyncFails, Syncing, EmbeddingsEnd, Running, Embeddings, Reconciles
    <3>2. Busy' /\ active'.phase = "done" /\ active'.kind = active.kind
      BY <2>13, WorkerEnds DEF Ended, SameBatch
    <3> QED BY <3>1, <3>2
  <2> QED BY <2>1, <2>3, <2>4, <2>5, <2>6, <2>7, <2>8, <2>9, <2>10, <2>a, <2>11, <2>12,
             <2>13 DEF Next, Loop, Worker, Outside, Aside
<1> QED BY <1>1, <1>2, TypeInvariant, PTL DEF Spec

-----------------------------------------------------------------------------
(* No reported edit is lost: at any time while the service watches, a file *)
(* whose change was reported and that is not indexed is with the           *)
(* debouncer, is pending, or is in a watch batch that has yet to index it  *)
(* or to be filed again; only what a pass finds unreadable is dropped.     *)
(* Nothing is reported before the watches are attached, which is why all   *)
(* that is stale is lost until then; and what a batch was given and has    *)
(* neither to read nor read as it is was reported again since.             *)
StillDue(p) ==
  /\ Busy /\ active.kind = "watch" /\ active.phase # "done"
  /\ p \in active.paths \/ active.force
  => p \in Reads(active) \/ p \in events \/ Covers(pending, p)

EditsStand ==
  /\ Watching => \A p \in stale \ lost : OnItsWay(p) /\ StillDue(p)
  /\ pc = "attach" => lost = stale

LEMMA EditsStay ==
  ASSUME Aside, ~Deliver
  PROVE  /\ UNCHANGED <<stale, lost, events, pending, active>>
         /\ Watching' => Watching \/ pc = "attach"
         /\ pc' = "attach" => pc = "attach"
BY DEF Aside, vars, AttachWatches, NothingToReap, NothingToStart, ReceiveSuppress, Drain,
   Unmute, GiveUp, Request, SetAutoSync, WindowEnds, RequestStop, DropVectors, ReceiveRequest,
   files, Watching

THEOREM NoReportedEditIsLost == Spec => []NoEditLost
<1>1. Init => EditsStand
  BY DEF Init, EditsStand, Watching
<1>2. TypeInv /\ OperationStands /\ EditsStand /\ [Next]_vars => EditsStand'
  <2> SUFFICES ASSUME TypeInv, OperationStands, EditsStand, [Next]_vars PROVE EditsStand'
    OBVIOUS
  <2> USE DEF EditsStand
  <2>0. pending \in [paths : SUBSET Path, full : BOOLEAN, some : BOOLEAN]
    BY DEF TypeInv, TypeOK
  <2>1. CASE Aside /\ ~Deliver
    <3>1. UNCHANGED <<stale, lost, events, pending, active>>
      BY <2>1, EditsStay
    <3>2. ASSUME NEW q PROVE OnItsWay(q) /\ StillDue(q) => OnItsWay(q)' /\ StillDue(q)'
      BY <3>1 DEF OnItsWay, StillDue, Reads, Covers, Busy
    <3> QED BY <2>1, <3>1, <3>2, EditsStay
  <2>2. CASE Deliver
    <3>1. PICK burst \in SUBSET events :
            /\ events' = events \ burst
            /\ \/ burst \subseteq muted /\ pending' = pending
               \/ pending' \in record(pending, burst \ muted) \cup {record_full(pending)}
            /\ lost' = lost \cup {p \in stale \cap burst \cap muted : ~Covers(pending', p)}
      BY <2>2 DEF Deliver
    <3>2. burst \ muted \in SUBSET Path
      BY DEF TypeInv, TypeOK
    <3>3. /\ pending.full => pending'.full
          /\ pending.paths \subseteq pending'.paths
          /\ pending'.full \/ burst \ muted \subseteq pending'.paths
      BY <2>0, <3>1, <3>2, RecordKeeps
    <3>4. UNCHANGED <<pc, stale, active>> /\ Watching
      BY <2>2 DEF Deliver
    <3>5. ASSUME NEW q \in stale \ lost, q \notin lost' PROVE OnItsWay(q)' /\ StillDue(q)'
      <4>1. OnItsWay(q) /\ StillDue(q)
        BY <3>4, <3>5
      <4>2. CASE q \in burst
        BY <3>1, <3>3, <3>5, <4>2 DEF OnItsWay, StillDue, Reads, Covers
      <4>3. CASE q \notin burst
        BY <3>1, <3>3, <3>4, <4>1, <4>3 DEF OnItsWay, StillDue, Reads, Covers, Busy
      <4> QED BY <4>2, <4>3
    <3> QED BY <3>1, <3>4, <3>5 DEF Watching
  <2>3. CASE StartStartup \/ StartAutoSync \/ StartRefresh \/ StartKeepalive
    <3>1. ~Busy /\ UNCHANGED <<stale, lost, events, pending>> /\ pc' = "top"
      BY <2>3, Started DEF files
    <3>2. Watching
      BY <2>3 DEF StartStartup, StartAutoSync, StartRefresh, StartKeepalive, Tick, Watching
    <3>3. ASSUME NEW q \in stale \ lost PROVE OnItsWay(q)' /\ StillDue(q)'
      BY <3>1, <3>2 DEF OnItsWay, StillDue, Reads, Covers
    <3> QED BY <3>1, <3>3
  <2>4. ASSUME NEW moved \in BOOLEAN, StartWatchReconcile(moved) PROVE EditsStand'
    <3>1. ~Busy /\ UNCHANGED <<stale, lost, events>> /\ pc' = "top"
      BY <2>4, WatchStarted DEF files
    <3>2. Watching
      BY <2>4 DEF StartWatchReconcile, Tick, Watching
    <3>3. ASSUME NEW q \in stale \ lost PROVE OnItsWay(q)' /\ StillDue(q)'
      <4>1. q \in events \/ Covers(pending, q)
        BY <3>1, <3>2 DEF OnItsWay, StillDue, Reads
      <4>2. CASE pending' = record_full(NothingPending)
        <5>1. pending'.full
          BY <4>2 DEF record_full, NothingPending
        <5> QED BY <5>1 DEF OnItsWay, StillDue, Reads, Covers
      <4>3. CASE pending' = NothingPending
        <5>1. pending' # record_full(NothingPending)
          BY <4>3 DEF record_full, NothingPending
        <5>2. /\ Busy' /\ active'.kind = "watch" /\ active'.paths = pending.paths
              /\ pending.full => active'.force
              /\ active'.phase = "run"
              /\ active'.todo = Path \/ (active'.todo = active'.paths /\ ~active'.force)
          BY <2>4, <5>1, WatchStarted
        <5>3. q \in Path
          BY DEF TypeInv, TypeOK
        <5> QED BY <3>1, <4>1, <5>2, <5>3 DEF OnItsWay, StillDue, Reads, Covers
      <4> QED BY <2>4, <4>2, <4>3, WatchStarted
    <3> QED BY <3>1, <3>3
  <2>5. CASE ReceiveRequest /\ ~Busy
    <3>1. UNCHANGED <<stale, lost, events, pending>> /\ Watching /\ pc' = "top"
      BY <2>5 DEF ReceiveRequest, files, Watching
    <3>2. ASSUME NEW q \in stale \ lost PROVE OnItsWay(q)' /\ StillDue(q)'
      BY <2>5, <3>1 DEF OnItsWay, StillDue, Reads, Covers
    <3> QED BY <3>1, <3>2
  <2>6. CASE HandleCompletion
    <3>1. /\ UNCHANGED <<stale, lost, events>> /\ Watching /\ pc' = "recv"
          /\ Busy /\ active.phase = "done" /\ pending' = Refile(active)
      BY <2>6 DEF HandleCompletion, files, Watching, Reapable
    <3>2. ASSUME NEW q \in stale \ lost PROVE OnItsWay(q)' /\ StillDue(q)'
      <4>1. OnItsWay(q) /\ StillDue(q)
        BY <3>1
      <4>2. Covers(pending, q) => Covers(pending', q)
        BY <2>0, <3>1 DEF Refile, record_full, requeue_failed, Covers
      <4>3. ASSUME active.kind = "watch", active.outcome = "panic" PROVE Covers(pending', q)
        <5>1. pending' = record_full(pending)
          BY <3>1, <4>3 DEF Refile, Reconciles
        <5> QED BY <2>0, <5>1 DEF record_full, Covers
      <4>4. ASSUME active.kind = "watch", active.outcome = "failed",
                   q \in active.paths \/ active.force
            PROVE  Covers(pending', q)
        <5>1. pending' = requeue_failed(pending, active.paths, active.force)
          BY <3>1, <4>4 DEF Refile, Reconciles
        <5> QED BY <4>4, <5>1 DEF requeue_failed, Covers
      <4> QED BY <3>1, <4>1, <4>2, <4>3, <4>4 DEF OnItsWay, StillDue, Reads
    <3> QED BY <3>1, <3>2
  <2>7. CASE Leave \/ Shutdown
    BY <2>7 DEF Leave, Shutdown, Watching
  <2>8. ASSUME NEW p \in Path, ReadFile(p) \/ SkipFile(p) PROVE EditsStand'
    <3>1. UNCHANGED <<pc, stale, lost, events, pending>>
      BY <2>8 DEF ReadFile, SkipFile, files
    <3>2. ASSUME NEW q PROVE OnItsWay(q) /\ StillDue(q) => OnItsWay(q)' /\ StillDue(q)'
      BY <2>8, <3>1, ReadStep DEF OnItsWay, StillDue, Reads, Covers, SameBatch
    <3> QED BY <3>1, <3>2 DEF Watching
  <2>9. ASSUME NEW p \in Path, Edit(p) PROVE EditsStand'
    <3>1. CASE pc = "attach"
      BY <2>9, <3>1 DEF Edit, Watching
    <3>2. CASE Watching
      <4>1. /\ stale' = stale \cup {p} /\ events' = events \cup {p} /\ lost' = lost \ {p}
            /\ UNCHANGED <<pc, pending>>
        BY <2>9, <3>2 DEF Edit
      <4>2. ASSUME NEW q \in stale' \ lost' PROVE OnItsWay(q)' /\ StillDue(q)'
        <5>1. CASE q = p
          BY <4>1, <5>1 DEF OnItsWay, StillDue, Reads
        <5>2. CASE q # p
          <6>1. OnItsWay(q) /\ StillDue(q)
            BY <3>2, <4>1, <4>2, <5>2
          <6> QED BY <2>9, <4>1, <5>2, <6>1, EditStep DEF OnItsWay, StillDue, Reads, Covers, SameBatch
        <5> QED BY <5>1, <5>2
      <4> QED BY <3>2, <4>1, <4>2 DEF Watching
    <3> QED BY <2>9, <3>1, <3>2 DEF Edit
  <2>10. CASE ReconcileCompletes
    <3>1. /\ stale' = stale \ active.fresh
          /\ lost' = (lost \ active.fresh) \cup
               {p \in stale' \cap active.skipped : p \notin events /\ ~Covers(pending, p)}
          /\ UNCHANGED <<pc, events, pending>>
          /\ active.todo = {} /\ Busy /\ active.phase = "run" /\ active.kind \in Reconciles
      BY <2>10 DEF ReconcileCompletes, Running
    <3>2. active.outcome = "none"
      BY <3>1 DEF OperationStands
    <3>3. ASSUME Watching, NEW q \in stale' \ lost' PROVE OnItsWay(q)' /\ StillDue(q)'
      <4>1. OnItsWay(q) /\ StillDue(q) /\ q \notin active.fresh
        BY <3>1, <3>3
      <4>2. q \in active.skipped => q \in events \/ Covers(pending, q)
        BY <3>1, <3>3
      <4>3. q \in events \/ Covers(pending, q)
        BY <3>1, <3>2, <4>1, <4>2 DEF OnItsWay, StillDue, Reads
      <4> QED BY <3>1, <4>3 DEF OnItsWay, StillDue, Covers
    <3>4. pc = "attach" => FALSE
      BY <3>1 DEF TypeInv, TypeOK, Busy
    <3> QED BY <3>1, <3>3, <3>4 DEF Watching
  <2>11. CASE ReconcileFails
    <3>1. Ended({"failed", "panic"}) /\ UNCHANGED <<pc, stale, lost, events, pending>>
      BY <2>11, WorkerEnds DEF ReconcileFails, files
    <3>2. ASSUME NEW q PROVE OnItsWay(q) /\ StillDue(q) => OnItsWay(q)' /\ StillDue(q)'
      BY <3>1 DEF OnItsWay, StillDue, Reads, Covers, Ended, SameBatch
    <3> QED BY <3>1, <3>2 DEF Watching
  <2>12. CASE SyncStarts \/ SyncEnds \/ SyncFails \/ EmbeddingsEnd
    <3>1. Busy /\ active.kind # "watch" /\ UNCHANGED <<pc, stale, lost, events, pending>>
      BY <2>12 DEF SyncStarts, SyncEnds, SyncFails, Syncing, EmbeddingsEnd, Running,
         Embeddings, OperationStands, files
    <3>2. ASSUME NEW q PROVE OnItsWay(q) /\ StillDue(q) => OnItsWay(q)' /\ StillDue(q)'
      BY <3>1 DEF OnItsWay, StillDue, Reads, Covers
    <3> QED BY <3>1, <3>2 DEF Watching
  <2>13. CASE Hang
    <3>1. UNCHANGED <<pc, stale, lost, events, pending>> 
          /\ Reads(active') = Reads(active)
      BY <2>13, HangStep DEF Hang, files
    <3>2. ASSUME NEW q PROVE OnItsWay(q) /\ StillDue(q) => OnItsWay(q)' /\ StillDue(q)'
      BY <2>13, <3>1, HangStep DEF OnItsWay, StillDue, Covers, SameBatch
    <3> QED BY <3>1, <3>2 DEF Watching
  <2> QED BY <2>1, <2>2, <2>3, <2>4, <2>5, <2>6, <2>7, <2>8, <2>9, <2>10, <2>11, <2>12, <2>13
          DEF Next, Loop, Worker, Outside, Aside
<1>3. EditsStand => NoEditLost
  BY DEF EditsStand, NoEditLost
<1> QED BY <1>1, <1>2, <1>3, TypeInvariant, OperationInvariant, PTL DEF Spec

-----------------------------------------------------------------------------
(* The debt of the vectors is remembered: what a reconcile brings into the *)
(* graph, and the scheduler is to hear of, is marked stale, or is with an  *)
(* operation that is bound to mark it or to be filed as a watch batch, or  *)
(* with that batch.  A finished build left nothing outdated.               *)
Carried(op) == op.phase = "done" /\ op.kind \in Reconciles /\ Told(op.kind, op.outcome)

DebtStands ==
  /\ vecs = "outdated" /\ pc # "exited" =>
       \/ emb.stale \/ pending.some
       \/ Busy /\ (active.kind = "watch" \/ Carried(active))
  /\ Busy /\ active.kind \in Embeddings /\ active.outcome = "completed" => vecs # "outdated"

LEMMA SomeStays ==
  ASSUME TypeInv, Aside
  PROVE  pending.some => pending'.some
<1>1. CASE Deliver
  <2>1. PICK burst \in SUBSET events :
          pending' = pending \/ pending' \in record(pending, burst \ muted) \cup {record_full(pending)}
    BY <1>1 DEF Deliver
  <2>2. burst \ muted \in SUBSET Path
        /\ pending \in [paths : SUBSET Path, full : BOOLEAN, some : BOOLEAN]
    BY DEF TypeInv, TypeOK
  <2>3. CASE pending' \in record(pending, burst \ muted) \cup {record_full(pending)}
    BY <2>2, <2>3, RecordKeeps
  <2> QED BY <2>1, <2>3
<1>2. CASE ~Deliver
  BY <1>2 DEF Aside, vars, AttachWatches, NothingToReap, NothingToStart, ReceiveSuppress,
     Drain, Unmute, GiveUp, Request, SetAutoSync, WindowEnds, RequestStop, DropVectors,
     ReceiveRequest
<1> QED BY <1>1, <1>2

(* What a reconcile commits makes the vectors outdated only if the         *)
(* scheduler is to hear of it.                                             *)
LEMMA ReconcileOutdates ==
  ASSUME TypeInv, ReconcileCompletes \/ ReconcileFails
  PROVE  /\ Busy /\ Busy' /\ active.phase = "run" /\ active'.phase = "done"
         /\ active.kind \in Reconciles /\ active'.kind = active.kind
         /\ UNCHANGED <<pc, pending, emb>>
         /\ vecs' = "outdated" => vecs = "outdated" \/ Told(active'.kind, active'.outcome)
<1>1. /\ Busy /\ active.phase = "run" /\ active.kind \in Reconciles
      /\ UNCHANGED <<pc, pending, emb>>
  BY DEF ReconcileCompletes, ReconcileFails, Running
<1>2. /\ Busy' /\ active'.phase = "done" /\ active'.kind = active.kind
  BY WorkerEnds DEF Ended, SameBatch
<1>3. PICK outcome \in {"completed", "changed", "failed", "panic"}, told \in BOOLEAN :
        /\ Finish(outcome) /\ vecs' = VectorsAfter(told)
        /\ told => Told(active.kind, outcome)
  <2>1. CASE ReconcileCompletes
    <3>1. PICK counted \in BOOLEAN :
            LET outcome == IF counted /\ active.kind = "manual" THEN "changed" ELSE "completed"
            IN  Finish(outcome) /\ vecs' = VectorsAfter(Told(active.kind, outcome))
      BY <2>1 DEF ReconcileCompletes
    <3> DEFINE outcome == IF counted /\ active.kind = "manual" THEN "changed" ELSE "completed"
    <3>2. Finish(outcome) /\ vecs' = VectorsAfter(Told(active.kind, outcome))
          /\ outcome \in {"completed", "changed", "failed", "panic"}
      BY <3>1
    <3>3. Told(active.kind, outcome) \in BOOLEAN
      BY DEF Told
    <3> HIDE DEF outcome
    <3> QED BY <3>2, <3>3
  <2>2. CASE ReconcileFails
    <3>1. PICK outcome \in {"failed", "panic"}, committed \in BOOLEAN :
            Finish(outcome) /\ vecs' = VectorsAfter(committed /\ Told(active.kind, outcome))
      BY <2>2 DEF ReconcileFails
    <3>2. (committed /\ Told(active.kind, outcome)) \in BOOLEAN
      OBVIOUS
    <3> QED BY <3>1, <3>2
  <2> QED BY <2>1, <2>2
<1>4. outcome \in Outcomes /\ TypeOK
  BY DEF Outcomes, TypeInv
<1>5. active'.outcome = outcome
  BY <1>1, <1>3, <1>4, FinishTyped
<1>6. vecs' = "outdated" => vecs = "outdated" \/ told
  BY <1>3 DEF VectorsAfter
<1> QED BY <1>1, <1>2, <1>3, <1>5, <1>6

THEOREM DebtIsRemembered == Spec => []OutdatedIsRemembered
<1>1. Init => DebtStands
  BY DEF Init, DebtStands, Busy
<1>2. TypeInv /\ OperationStands /\ DebtStands /\ [Next]_vars => DebtStands'
  <2> SUFFICES ASSUME TypeInv, OperationStands, DebtStands, [Next]_vars PROVE DebtStands'
    OBVIOUS
  <2> USE DEF DebtStands
  <2>0. pending \in [paths : SUBSET Path, full : BOOLEAN, some : BOOLEAN]
    BY DEF TypeInv, TypeOK
  <2>1. CASE Aside
    <3>1. active' = active /\ emb'.stale = emb.stale
          /\ (vecs' = "outdated" => vecs = "outdated")
      BY <2>1, AsideStep
    <3>2. pc # "exited" \/ pc' = "exited"
      BY <2>1 DEF Aside, vars, AttachWatches, NothingToReap, NothingToStart, ReceiveSuppress,
         Drain, Deliver, Unmute, GiveUp, Request, SetAutoSync, WindowEnds, RequestStop,
         DropVectors, ReceiveRequest
    <3> QED BY <2>1, <3>1, <3>2, SomeStays DEF Busy, Carried
  <2>2. ASSUME ~Busy, pc # "exited", UNCHANGED <<vecs, emb, pending>>,
               active' = active \/ active'.outcome = "none"
        PROVE  DebtStands'
    BY <2>2 DEF Busy
  <2>3. CASE StartStartup \/ StartAutoSync \/ StartRefresh \/ StartKeepalive
    <3>1. pc # "exited"
      BY <2>3 DEF StartStartup, StartAutoSync, StartRefresh, StartKeepalive, Tick
    <3> QED BY <2>2, <2>3, <3>1, Started DEF vectors
  <2>4. ASSUME NEW moved \in BOOLEAN, StartWatchReconcile(moved) PROVE DebtStands'
    <3>1. ~Busy /\ UNCHANGED <<vecs, emb>>
      BY <2>4, WatchStarted DEF vectors
    <3>2. record_full(NothingPending).some
      BY DEF record_full, NothingPending
    <3>3. CASE Busy' /\ active'.kind = "watch" /\ active'.outcome = "none"
      BY <3>3
    <3>4. CASE active' = active /\ pending' = record_full(NothingPending)
      BY <3>1, <3>2, <3>4 DEF Busy
    <3> QED BY <2>4, <3>3, <3>4, WatchStarted
  <2>5. CASE ReceiveRequest /\ ~Busy
    <3>1. pc # "exited" /\ UNCHANGED <<vecs, emb, pending>>
      BY <2>5 DEF ReceiveRequest, vectors
    <3> QED BY <2>2, <2>5, <3>1, RequestStarted
  <2>6. CASE HandleCompletion
    <3>1. /\ Busy /\ ~Busy' /\ vecs' = vecs /\ pc # "exited" /\ active.phase = "done"
          /\ emb' = NoteEmbeddings(active) /\ pending' = Refile(active)
      BY <2>6 DEF HandleCompletion, Reapable, Busy
    <3>2. ASSUME vecs = "outdated" PROVE emb'.stale \/ pending'.some
      <4>1. emb \in [stale : BOOLEAN, until : SUBSET Windows]
        BY DEF TypeInv, TypeOK
      <4>2. pending.some => pending'.some
        BY <2>0, <3>1 DEF Refile, record_full, requeue_failed
      <4>3. emb.stale => emb'.stale
        <5>1. ~(active.kind \in Embeddings /\ active.outcome = "completed")
          BY <3>1, <3>2
        <5>2. \/ emb' = [stale |-> TRUE, until |-> emb.until \cup {"quiet"}]
              \/ emb' = [emb EXCEPT !.until = emb.until \cup {"backoff"}]
              \/ emb' = emb
          BY <3>1, <5>1 DEF NoteEmbeddings
        <5> QED BY <4>1, <5>2
      <4>4. CASE active.kind \in Reconciles /\ Told(active.kind, active.outcome)
        <5>1. CASE Indexed(active)
          <6>1. emb' = [stale |-> TRUE, until |-> emb.until \cup {"quiet"}]
            BY <3>1, <3>2, <4>4, <5>1 DEF NoteEmbeddings, Indexed, Reconciles, Embeddings
          <6> QED BY <6>1
        <5>2. CASE active.outcome = "panic"
          <6>1. pending' = record_full(pending)
            BY <3>1, <4>4, <5>2 DEF Refile
          <6> QED BY <2>0, <6>1 DEF record_full
        <5>3. CASE active.outcome = "failed"
          <6>1. active.kind \in {"watch", "keepalive"}
            BY <4>4, <5>3 DEF Told
          <6>2. pending' = requeue_failed(pending, active.paths, active.force)
            BY <3>1, <5>3, <6>1 DEF Refile
          <6> QED BY <6>2 DEF requeue_failed
        <5> QED BY <3>1, <4>4, <5>1, <5>2, <5>3 DEF OperationStands, Indexed
      <4>5. CASE ~(active.kind \in Reconciles /\ Told(active.kind, active.outcome))
        <5>1. active.kind # "watch" /\ ~Carried(active)
          BY <4>5 DEF Carried, Told, Reconciles
        <5> QED BY <3>1, <3>2, <4>2, <4>3, <5>1
      <4> QED BY <4>4, <4>5
    <3> QED BY <3>1, <3>2
  <2>7. CASE Leave
    <3>1. UNCHANGED <<vecs, emb, pending>> /\ pc # "exited"
      BY <2>7 DEF Leave, vectors
    <3> QED BY <2>7, <3>1, LeaveStep DEF SameBatch, Carried
  <2>8. CASE Shutdown
    BY <2>8 DEF Shutdown, Busy
  <2>9. ASSUME NEW p \in Path, ReadFile(p) \/ SkipFile(p) PROVE DebtStands'
    <3>1. UNCHANGED <<vecs, emb, pending, pc>>
      BY <2>9 DEF ReadFile, SkipFile, vectors
    <3>2. /\ Busy /\ Busy' /\ active.phase = "run" /\ active'.outcome = "none"
          /\ active'.kind = active.kind
      BY <2>9, ReadStep DEF OperationStands, SameBatch
    <3> QED BY <3>1, <3>2 DEF Carried
  <2>10. ASSUME NEW p \in Path, Edit(p) PROVE DebtStands'
    <3>1. UNCHANGED <<vecs, emb, pending, pc>>
      BY <2>10 DEF Edit, vectors
    <3> QED BY <2>10, <3>1, EditStep DEF SameBatch, Carried
  <2>11. CASE SyncStarts
    <3>1. UNCHANGED <<vecs, emb, pending, pc>>
      BY <2>11 DEF SyncStarts, vectors
    <3>2. /\ Busy /\ Busy' /\ active.phase = "run" /\ active'.outcome = "none"
          /\ active'.kind = active.kind
      BY <2>11, SyncStep DEF OperationStands, SameBatch
    <3> QED BY <3>1, <3>2 DEF Carried
  <2>12. CASE Hang
    <3>1. UNCHANGED <<vecs, emb, pending, pc>>
      BY <2>12 DEF Hang, vectors
    <3>2. /\ Busy /\ Busy' /\ active.phase # "done" /\ active'.outcome = "none"
          /\ active'.kind = active.kind
      BY <2>12, HangStep DEF OperationStands, SameBatch
    <3> QED BY <3>1, <3>2 DEF Carried
  <2>13. CASE ReconcileCompletes \/ ReconcileFails
    <3>1. active.kind \notin Embeddings
      BY <2>13, ReconcileOutdates DEF Reconciles, Embeddings
    <3> QED BY <2>13, <3>1, ReconcileOutdates DEF Carried
  <2>14. CASE SyncEnds \/ SyncFails
    <3>1. /\ Busy /\ ~Carried(active) /\ active.kind \notin Embeddings
          /\ UNCHANGED <<pc, vecs, emb, pending>>
      BY <2>14 DEF SyncEnds, SyncFails, Syncing, Running, Embeddings, OperationStands,
         Carried, vectors
    <3>2. active'.kind = active.kind /\ Busy'
      BY <2>14, WorkerEnds DEF Ended, SameBatch
    <3> QED BY <3>1, <3>2
  <2>15. CASE EmbeddingsEnd
    <3>1. /\ Busy /\ active.phase = "run" /\ active.kind \in Embeddings
          /\ UNCHANGED <<pc, emb, pending>>
      BY <2>15 DEF EmbeddingsEnd, Running
    <3>2. Busy' /\ active'.kind = active.kind
      BY <2>15, WorkerEnds DEF Ended, SameBatch
    <3>3. active.kind # "watch" /\ ~Carried(active)
      BY <3>1 DEF Embeddings, Carried
    <3>4. \/ vecs' # "outdated"
          \/ vecs' = vecs /\ \E outcome \in {"failed", "panic"} : Finish(outcome)
      BY <2>15 DEF EmbeddingsEnd
    <3>5. CASE vecs' # "outdated"
      BY <3>5
    <3>6. CASE vecs' = vecs /\ \E outcome \in {"failed", "panic"} : Finish(outcome)
      <4>1. {"failed", "panic"} \subseteq Outcomes
        BY DEF Outcomes
      <4>2. Ended({"failed", "panic"})
        BY <3>1, <3>6, <4>1, FinishEnds
      <4>3. active'.outcome # "completed"
        BY <4>2 DEF Ended
      <4> QED BY <3>1, <3>2, <3>3, <3>6, <4>3
    <3> QED BY <3>4, <3>5, <3>6
  <2> QED BY <2>1, <2>3, <2>4, <2>5, <2>6, <2>7, <2>8, <2>9, <2>10, <2>11, <2>12, <2>13, <2>14,
             <2>15 DEF Next, Loop, Worker, Outside, Aside
<1>3. DebtStands => OutdatedIsRemembered
  BY DEF DebtStands, Carried, OutdatedIsRemembered
<1> QED BY <1>1, <1>2, <1>3, TypeInvariant, OperationInvariant, PTL DEF Spec

-----------------------------------------------------------------------------
(* A completed answer covers what was stale at the request: the operation  *)
(* made for a request reads everything after it, and a request met by an   *)
(* operation under way is turned down, never served by it.                 *)
Served(c) ==
  /\ active.kind # "manual" => owed[c] = {}
  /\ active.phase = "run" => owed[c] \subseteq Reads(active)
  /\ Succeeded(active) => owed[c] = {}

Serves == Busy => \A c \in Client : active.client = c =>
                    client[c] # "new" /\ (client[c] = "waiting" => Served(c))

Queued(m) == client[m.client] # "new"
             /\ (client[m.client] = "waiting" /\ m.ask # "reconcile" => owed[m.client] = {})

AnswersStand == /\ CompletedAnswerCoversEdits
                /\ Serves
                /\ \A i \in 1 .. Len(inbox) : Queued(inbox[i])

(* A step that makes no request keeps the queue's part of it. *)
LEMMA AnswersCarryOver ==
  ASSUME TypeInv, TypeInv', AnswersStand, Serves',
         \A i \in 1 .. Len(inbox') : \E j \in 1 .. Len(inbox) : inbox'[i] = inbox[j],
         \A c \in Client : owed'[c] \subseteq owed[c],
         \A c \in Client : \/ client'[c] = client[c] \/ client'[c] = "error"
                           \/ client'[c] = "ok" /\ client[c] = "waiting" /\ owed[c] = {}
  PROVE  AnswersStand'
<1>1. CompletedAnswerCoversEdits'
  BY DEF AnswersStand, CompletedAnswerCoversEdits
<1>2. ASSUME NEW i \in 1 .. Len(inbox') PROVE Queued(inbox[i])'
  <2>1. PICK j \in 1 .. Len(inbox) : inbox'[i] = inbox[j]
    OBVIOUS
  <2>2. Queued(inbox[j]) /\ inbox[j].client \in Client
    BY DEF AnswersStand, TypeInv, TypeOK
  <2> QED BY <2>1, <2>2 DEF Queued
<1> QED BY <1>1, <1>2 DEF AnswersStand

LEMMA TailKeeps ==
  ASSUME TypeInv, inbox # <<>>, inbox' = Tail(inbox)
  PROVE  /\ \A i \in 1 .. Len(inbox') : \E j \in 1 .. Len(inbox) : inbox'[i] = inbox[j]
         /\ \E j \in 1 .. Len(inbox) : Head(inbox) = inbox[j]
<1>1. inbox \in Seq(Message)
  BY DEF TypeInv
<1>2. /\ Len(inbox') = Len(inbox) - 1 /\ Len(inbox) \in Nat \ {0}
      /\ \A i \in 1 .. Len(inbox') : inbox'[i] = inbox[i + 1]
      /\ Head(inbox) = inbox[1]
  BY <1>1
<1>3. ASSUME NEW i \in 1 .. Len(inbox')
      PROVE  \E j \in 1 .. Len(inbox) : inbox'[i] = inbox[j]
  <2>1. i + 1 \in 1 .. Len(inbox)
    BY <1>2
  <2> QED BY <1>2, <2>1
<1>4. 1 \in 1 .. Len(inbox)
  BY <1>2
<1> QED BY <1>2, <1>3, <1>4

THEOREM AnswersCoverEdits == Spec => []CompletedAnswerCoversEdits
<1>1. Init => AnswersStand
  <2> SUFFICES ASSUME Init PROVE AnswersStand
    OBVIOUS
  <2>1. CompletedAnswerCoversEdits /\ Serves
    BY DEF Init, CompletedAnswerCoversEdits, Serves, Busy
  <2>2. Len(inbox) = 0
    BY DEF Init
  <2> QED BY <2>1, <2>2 DEF AnswersStand
<1>2. TypeInv /\ TypeInv' /\ OperationStands /\ AnswersStand /\ [Next]_vars => AnswersStand'
  <2> SUFFICES ASSUME TypeInv, TypeInv', OperationStands, AnswersStand, [Next]_vars
               PROVE  AnswersStand'
    OBVIOUS
  <2>0. Serves /\ None \notin Client /\ client' \in [Client -> {"new", "waiting", "ok", "error"}]
    BY NoneAssumption DEF AnswersStand, TypeInv, TypeOK
  <2>k. \A i \in 1 .. Len(inbox) : \E j \in 1 .. Len(inbox) : inbox[i] = inbox[j]
    OBVIOUS
  <2> USE DEF requests, Serves, Served, Succeeded
  <2>1. CASE UNCHANGED <<active, requests>>
    BY <2>1, <2>0, <2>k, AnswersCarryOver DEF Busy
  <2>2. CASE Drain
    <3>1. Len(inbox') = 0 /\ UNCHANGED <<active, owed>>
      BY <2>2 DEF Drain
    <3>2. \A c \in Client : client'[c] = client[c] \/ client'[c] = "error"
      BY <2>2 DEF Drain
    <3>3. Serves'
      BY <2>0, <3>1, <3>2 DEF Busy
    <3>4. \A i \in 1 .. Len(inbox') : \E j \in 1 .. Len(inbox) : inbox'[i] = inbox[j]
      BY <3>1
    <3> QED BY <3>1, <3>2, <3>3, <3>4, AnswersCarryOver
  <2>3. ASSUME NEW c \in Client, GiveUp(c) PROVE AnswersStand'
    <3>1. UNCHANGED <<active, inbox, owed>>
      BY <2>3 DEF GiveUp
    <3>2. \A d \in Client : client'[d] = client[d] \/ client'[d] = "error"
      BY <2>3 DEF GiveUp, TypeInv, TypeOK
    <3>3. Serves'
      BY <2>0, <3>1, <3>2 DEF Busy
    <3> QED BY <2>k, <3>1, <3>2, <3>3, AnswersCarryOver
  <2>4. ASSUME NEW c \in Client, NEW ask \in Requests, Request(c, ask) PROVE AnswersStand'
    <3>1. PICK paths \in SUBSET Path :
            inbox' = Append(inbox, [client |-> c, ask |-> ask, paths |-> paths])
      <4>1. \E paths \in IF ask = "suppress" THEN {{p} : p \in Path} ELSE {{}} :
              inbox' = Append(inbox, [client |-> c, ask |-> ask, paths |-> paths])
        BY <2>4 DEF Request
      <4>2. \A paths \in IF ask = "suppress" THEN {{p} : p \in Path} ELSE {{}} : paths \in SUBSET Path
        OBVIOUS
      <4> QED BY <4>1, <4>2
    <3> DEFINE m == [client |-> c, ask |-> ask, paths |-> paths]
    <3>2. /\ client[c] = "new" /\ client' = [client EXCEPT ![c] = "waiting"]
          /\ active' = active
          /\ owed' = [owed EXCEPT ![c] = IF ask = "reconcile" THEN stale ELSE {}]
      BY <2>4 DEF Request
    <3>3. \A d \in Client : d # c => client'[d] = client[d] /\ owed'[d] = owed[d]
      BY <3>2 DEF TypeInv, TypeOK
    <3>4. client'[c] = "waiting" /\ (ask # "reconcile" => owed'[c] = {})
      BY <3>2 DEF TypeInv, TypeOK
    <3>5. Serves'
      BY <2>0, <3>2, <3>3, <3>4 DEF Busy
    <3>6. CompletedAnswerCoversEdits'
      BY <3>3, <3>4 DEF AnswersStand, CompletedAnswerCoversEdits
    <3>7. /\ Len(inbox') = Len(inbox) + 1 /\ inbox'[Len(inbox) + 1] = m /\ Len(inbox) \in Nat
          /\ \A i \in 1 .. Len(inbox) : inbox'[i] = inbox[i]
      <4> HIDE DEF m
      <4> QED BY <3>1 DEF TypeInv, m
    <3>8. ASSUME NEW i \in 1 .. Len(inbox') PROVE Queued(inbox[i])'
      <4>1. CASE i \in 1 .. Len(inbox)
        <5>1. Queued(inbox[i]) /\ inbox[i].client \in Client /\ inbox'[i] = inbox[i]
          BY <3>7, <4>1 DEF AnswersStand, TypeInv, TypeOK
        <5>2. inbox[i].client # c
          BY <3>2, <5>1 DEF Queued
        <5> QED BY <3>3, <5>1, <5>2 DEF Queued
      <4>2. CASE i = Len(inbox) + 1
        BY <3>4, <3>7, <4>2 DEF Queued
      <4> QED BY <3>7, <4>1, <4>2
    <3> QED BY <3>5, <3>6, <3>8 DEF AnswersStand
  <2>5. CASE ReceiveSuppress
    <3> DEFINE m == Head(inbox)
    <3>1. /\ inbox # <<>> /\ inbox' = Tail(inbox) /\ m.ask = "suppress"
          /\ Answer(m.client, "ok") /\ UNCHANGED <<active, owed>>
      BY <2>5 DEF ReceiveSuppress
    <3>2. PICK j \in 1 .. Len(inbox) : m = inbox[j]
      BY <3>1, TailKeeps
    <3>3. m \in Message /\ Queued(m)
      BY <3>1, <3>2, HeadTyped DEF AnswersStand
    <3> HIDE DEF m
    <3>4. \A c \in Client : \/ client'[c] = client[c]
                            \/ client'[c] = "ok" /\ client[c] = "waiting" /\ owed[c] = {}
      BY <3>1, <3>3 DEF Answer, Queued, Message
    <3>5. Serves'
      BY <2>0, <3>1, <3>4 DEF Busy
    <3> QED BY <3>1, <3>4, <3>5, TailKeeps, AnswersCarryOver
  <2>6. CASE ReceiveRequest /\ Busy
    <3>1. /\ inbox # <<>> /\ inbox' = Tail(inbox)
          /\ Answer(Head(inbox).client, "error") /\ UNCHANGED <<active, owed>>
      BY <2>6 DEF ReceiveRequest
    <3>2. \A c \in Client : client'[c] = client[c] \/ client'[c] = "error"
      BY <3>1 DEF Answer
    <3>3. Serves'
      BY <2>0, <3>1, <3>2 DEF Busy
    <3> QED BY <3>1, <3>2, <3>3, TailKeeps, AnswersCarryOver
  <2>7. CASE ReceiveRequest /\ ~Busy
    <3> DEFINE m == Head(inbox)
    <3>1. /\ inbox # <<>> /\ inbox' = Tail(inbox) /\ m.ask # "suppress"
          /\ UNCHANGED <<client, owed>>
      BY <2>7, RequestStarted DEF ReceiveRequest
    <3>2. PICK j \in 1 .. Len(inbox) : m = inbox[j]
      BY <3>1, TailKeeps
    <3>3. m \in Message /\ Queued(m)
      BY <3>1, <3>2, HeadTyped DEF AnswersStand
    <3>4. /\ active'.client = m.client /\ active'.kind = OperationOf[m.ask]
          /\ active'.outcome = "none"
          /\ active'.kind = "manual" => active'.todo = Path
      BY <2>7, RequestStarted
    <3> HIDE DEF m
    <3>5. m.ask \in {"reconcile", "sync", "embeddings"}
      BY <3>1, <3>3 DEF Message, Requests
    <3>6. active'.kind = "manual" \/ (active'.kind # "manual" /\ m.ask # "reconcile")
      BY <3>4, <3>5 DEF OperationOf
    <3>7. owed[m.client] \subseteq Path /\ m.client \in Client
      BY <3>3 DEF TypeInv, TypeOK, Message
    <3>8. active'.kind = "manual" => owed'[m.client] \subseteq Reads(active')
      BY <3>1, <3>4, <3>7 DEF Reads
    <3>9. Serves'
      BY <3>1, <3>3, <3>4, <3>6, <3>7, <3>8 DEF Queued
    <3> QED BY <3>1, <3>9, TailKeeps, AnswersCarryOver
  <2>8. ASSUME UNCHANGED requests, ~Busy' \/ active'.client = None PROVE AnswersStand'
    <3>1. Serves'
      BY <2>0, <2>8
    <3> QED BY <2>k, <2>8, <3>1, AnswersCarryOver
  <2>9. CASE StartStartup \/ StartAutoSync \/ StartRefresh \/ StartKeepalive
    BY <2>8, <2>9, Started
  <2>10. ASSUME NEW moved \in BOOLEAN, StartWatchReconcile(moved) PROVE AnswersStand'
    <3>1. UNCHANGED requests /\ ~Busy /\ (active' = active \/ active'.client = None)
      BY <2>10, WatchStarted
    <3> QED BY <2>8, <3>1 DEF Busy
  <2>11. CASE Shutdown
    BY <2>8, <2>11 DEF Shutdown, Busy
  <2>12. CASE HandleCompletion
    <3>1. /\ Busy /\ ~Busy' /\ UNCHANGED <<inbox, owed>>
          /\ Answer(active.client, IF Succeeded(active) THEN "ok" ELSE "error")
      BY <2>12 DEF HandleCompletion, Reapable, Busy
    <3>2. \A c \in Client : \/ client'[c] = client[c] \/ client'[c] = "error"
                            \/ client'[c] = "ok" /\ client[c] = "waiting" /\ owed[c] = {}
      <4>1. CASE Succeeded(active)
        <5>1. Answer(active.client, "ok")
          BY <3>1, <4>1
        <5> QED BY <2>0, <3>1, <4>1, <5>1 DEF Answer
      <4>2. CASE ~Succeeded(active)
        <5>1. Answer(active.client, "error")
          BY <3>1, <4>2
        <5> QED BY <5>1 DEF Answer
      <4> QED BY <4>1, <4>2
    <3>3. Serves'
      BY <3>1
    <3> QED BY <2>k, <3>1, <3>2, <3>3, AnswersCarryOver
  <2>13. CASE Leave
    <3>1. /\ UNCHANGED <<inbox, owed>>
          /\ \A c \in Client : client'[c] = client[c] \/ client'[c] = "error"
      BY <2>13 DEF Leave, Answer
    <3>2. Serves'
      BY <2>0, <2>13, LeaveStep
    <3> QED BY <2>k, <3>1, <3>2, AnswersCarryOver
  <2>14. ASSUME NEW p \in Path, ReadFile(p) \/ SkipFile(p) PROVE AnswersStand'
    <3>1. UNCHANGED requests
      BY <2>14 DEF ReadFile, SkipFile
    <3>2. Serves'
      BY <2>0, <2>14, <3>1, ReadStep DEF SameBatch
    <3> QED BY <2>k, <3>1, <3>2, AnswersCarryOver
  <2>15. ASSUME NEW p \in Path, Edit(p) PROVE AnswersStand'
    <3>1. UNCHANGED <<inbox, client>> /\ owed' = [c \in Client |-> owed[c] \ {p}]
      BY <2>15 DEF Edit
    <3>2. \A c \in Client : owed'[c] = owed[c] \ {p}
      BY <3>1
    <3>3. ASSUME Busy, NEW c \in Client, owed[c] \subseteq Reads(active)
          PROVE  owed'[c] \subseteq Reads(active')
      BY <2>15, <3>2, <3>3, EditStep DEF Reads
    <3>4. Serves'
      BY <2>0, <2>15, <3>1, <3>2, <3>3, EditStep DEF SameBatch
    <3> QED BY <2>k, <3>1, <3>2, <3>4, AnswersCarryOver
  <2>16. CASE SyncStarts
    <3>1. UNCHANGED requests
      BY <2>16 DEF SyncStarts
    <3>2. Serves'
      BY <2>0, <2>16, <3>1, SyncStep DEF SameBatch
    <3> QED BY <2>k, <3>1, <3>2, AnswersCarryOver
  <2>17. CASE ReconcileCompletes
    <3>1. /\ active.todo = {} /\ active.phase = "run" /\ Ended({"completed", "changed"})
          /\ UNCHANGED <<inbox, client>>
          /\ owed' = [c \in Client |->
               owed[c] \ (active.fresh \cup IF c = active.client THEN active.skipped ELSE {})]
      BY <2>17, WorkerEnds DEF ReconcileCompletes, Running
    <3>2. ASSUME NEW c \in Client
          PROVE  /\ owed'[c] \subseteq owed[c]
                 /\ c = active.client => owed'[c] = owed[c] \ (active.fresh \cup active.skipped)
      BY <3>1
    <3>3. Serves'
      <4>1. ASSUME NEW c \in Client, active.client = c, client[c] = "waiting"
            PROVE  owed'[c] = {}
        <5>1. active.kind = "manual" \/ owed[c] = {}
          BY <2>0, <3>1, <4>1 DEF Ended
        <5>2. owed[c] \subseteq Reads(active)
          BY <2>0, <3>1, <4>1 DEF Ended
        <5>3. owed'[c] = owed[c] \ (active.fresh \cup active.skipped)
          BY <3>2, <4>1
        <5> QED BY <3>1, <5>2, <5>3 DEF Reads
      <4> QED BY <2>0, <3>1, <3>2, <4>1 DEF Ended, SameBatch
    <3> QED BY <2>k, <3>1, <3>2, <3>3, AnswersCarryOver
  <2>18. CASE ReconcileFails
    <3>1. UNCHANGED requests /\ Ended({"failed", "panic"})
      BY <2>18, WorkerEnds DEF ReconcileFails
    <3>2. Serves'
      BY <2>0, <3>1 DEF Ended, SameBatch
    <3> QED BY <2>k, <3>1, <3>2, AnswersCarryOver
  <2>19. CASE SyncEnds \/ SyncFails \/ EmbeddingsEnd
    <3>1. UNCHANGED requests /\ Busy /\ active.kind # "manual"
      BY <2>19 DEF SyncEnds, SyncFails, Syncing, EmbeddingsEnd, Running, Embeddings,
         OperationStands
    <3>2. active'.kind = active.kind /\ active'.client = active.client
          /\ active'.phase = "done"
      BY <2>19, WorkerEnds DEF Ended, SameBatch
    <3>3. Serves'
      BY <2>0, <3>1, <3>2
    <3> QED BY <2>k, <3>1, <3>3, AnswersCarryOver
  <2>20. CASE \/ UNCHANGED vars \/ AttachWatches \/ NothingToReap \/ NothingToStart \/ Deliver
              \/ \E p \in Path : Unmute(p)
              \/ \E on \in BOOLEAN : SetAutoSync(on)
              \/ \E w \in Windows : WindowEnds(w)
              \/ RequestStop \/ DropVectors
    <3>1. UNCHANGED <<active, requests>>
      BY <2>20 DEF vars, AttachWatches, NothingToReap, NothingToStart, Deliver, Unmute,
         SetAutoSync, WindowEnds, RequestStop, DropVectors
    <3> QED BY <2>1, <3>1
  <2>21. CASE Hang
    <3>1. UNCHANGED requests
      BY <2>21 DEF Hang
    <3>2. Serves'
      BY <2>0, <2>21, <3>1, HangStep DEF SameBatch
    <3> QED BY <2>k, <3>1, <3>2, AnswersCarryOver
  <2> QED BY <2>2, <2>3, <2>4, <2>5, <2>6, <2>7, <2>9, <2>10, <2>11, <2>12, <2>13, <2>14,
             <2>15, <2>16, <2>17, <2>18, <2>19, <2>20, <2>21 DEF Next, Loop, Worker, Outside
<1>3. AnswersStand => CompletedAnswerCoversEdits
  BY DEF AnswersStand
<1> QED BY <1>1, <1>2, <1>3, TypeInvariant, OperationInvariant, PTL DEF Spec
=============================================================================
