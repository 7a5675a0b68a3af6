-------------------------- MODULE StoreMaintenance --------------------------
(***************************************************************************)
(* The stores under .synrepo/ and the commands that judge them: `init`     *)
(* (also --force), `upgrade --apply` and the maintenance of `sync`.  A     *)
(* snapshot file records the formats and the configuration the stores were *)
(* last brought in line with; each command compares it with its own binary *)
(* and its own configuration, clears what does not fit and builds it anew. *)
(* `reconcile`, `embeddings build` and the commands that write notes       *)
(* build without judging.                                                  *)
(*                                                                         *)
(* The user edits the configuration and installs other binaries between,   *)
(* and any process may die between two steps.  The writer lock is a file   *)
(* inside a store that may be cleared.                                     *)
(***************************************************************************)
EXTENDS Integers, Sequences, FiniteSets

CONSTANTS
  Process,      \* processes that run commands
  Value,        \* values of a group of configuration fields
  First,        \* the value a fresh configuration has
  Expected,     \* [Binary -> [Store -> format version]]
  MaxCommands,  \* commands started (bound for checking)
  MaxChanges,   \* configuration edits and installations (bound for checking)
  None          \* a store that is not materialized, no snapshot, no report

Binary == DOMAIN Expected

(* What is judged, what is built, and in which store it lies: the vectors    *)
(* are files of the index.  (The stores of embeddings and of responses are   *)
(* judged like the index; nothing is ever put into them.)                    *)
Store  == {"graph", "overlay", "index", "state"}
Data   == {"graph", "overlay", "index", "vectors"}
Holder == [graph |-> "graph", overlay |-> "overlay", index |-> "index", vectors |-> "index"]

(* The groups of configuration fields, as they are fingerprinted: which      *)
(* files are discovered, which of them are concepts, how much history.       *)
Input == {"index", "graph", "history"}

(* What the builders read.  A compile discovers files like the index does;   *)
(* the vectors are of the graph's symbols and concepts; notes are written    *)
(* into a database that is made empty.                                       *)
ReadsOf == [graph |-> Input, overlay |-> {}, index |-> {"index"}, vectors |-> {"index", "graph"}]

(* The groups over which the policy gives a store up.                        *)
Judged == [graph |-> {"graph", "history"}, overlay |-> {"graph", "history"},
           index |-> {"index"},            vectors |-> {"index"}]

Config  == [Input -> Value]
Content == [fmt : Nat, made : [Input -> Value \cup {None}]]
Unread  == [i \in Input |-> None]   \* of a graph that was opened and never compiled
Action  == {"continue", "rebuild", "invalidate", "recreate", "block"}

ASSUME ProcessAssumption  == IsFiniteSet(Process)
ASSUME ValueAssumption    == First \in Value
ASSUME ExpectedAssumption == \A b \in Binary : Expected[b] \in [Store -> Nat \ {0}]
ASSUME BoundAssumption    == MaxCommands \in Nat /\ MaxChanges \in Nat
ASSUME NoneAssumption     == None \notin Content \cup Value

VARIABLES
  config,    \* config.toml
  written,   \* config.toml exists
  binary,    \* the binary that is installed
  store,     \* [Data -> content, or None]
  snapshot,  \* storage-compat.json: [fmt, inputs], or None
  records,   \* other files of the state store exist
  sentinel,  \* the inode the lock's file name stands for, 0 for none
  proc,      \* [Process -> its command]
  commands, changes, \* counters of the bounds
  suspect    \* history: <<store, aspect>> that no snapshot accounts for

vars == <<config, written, binary, store, snapshot, records, sentinel, proc,
          commands, changes, suspect>>

disk == <<store, snapshot, records, sentinel>>

Idle == [pc |-> "idle", cmd |-> None, force |-> FALSE, bin |-> None, cfg |-> None,
         report |-> None, blind |-> FALSE, todo |-> {}, build |-> <<>>, ino |-> 0,
         stale |-> FALSE, made |-> {}]

Aspect == {"format", "inputs"}
Both(s) == {s} \X Aspect

Init ==
  /\ config = [i \in Input |-> First] /\ written = FALSE
  /\ binary \in Binary
  /\ store = [s \in Data |-> None]
  /\ snapshot = None /\ records = FALSE /\ sentinel = 0
  /\ proc = [p \in Process |-> Idle]
  /\ commands = 0 /\ changes = 0
  /\ suspect = {}

-----------------------------------------------------------------------------
(* evaluate_runtime *)

Materialized(s) ==
  IF s = "state" THEN snapshot # None \/ records \/ sentinel # 0 ELSE \E d \in Data : Holder[d] = s /\ store[d] # None

(* The default of a class, whether the format is unknown, older or newer.    *)
Default == [graph |-> "block", overlay |-> "invalidate", index |-> "rebuild",
            state |-> "recreate"]

FormatFits(s, b) == snapshot # None /\ snapshot.fmt[s] = Expected[b][s]

ByFormat(s, b) ==
  IF Materialized(s) /\ ~FormatFits(s, b) THEN Default[s] ELSE "continue"

Differs(i, c) == snapshot # None /\ snapshot.inputs[i] # c[i]

(* Mutant: notes and links are dropped over a change of the index's inputs.  *)
Verdict_OverlayDropped(s, b, c) ==
  CASE s = "graph" /\ Materialized(s) /\ Differs("history", c) -> "block"
    [] s = "graph" /\ Materialized(s) /\ Differs("graph", c) /\ ~Differs("history", c) -> "rebuild"
    [] s = "overlay" /\ Materialized(s) /\ (\E i \in Input : Differs(i, c)) -> "invalidate"
    [] s = "index"  /\ Differs("index", c) -> "rebuild"
    [] OTHER -> ByFormat(s, b)

(* A changed input replaces the action that the format called for.           *)
Verdict(s, b, c) ==
  CASE s = "graph" /\ Materialized(s) /\ Differs("history", c) -> "block"
    [] s = "graph" /\ Materialized(s) /\ Differs("graph", c) /\ ~Differs("history", c) -> "rebuild"
    [] s = "overlay" /\ Materialized(s) /\ (Differs("graph", c) \/ Differs("history", c)) -> "invalidate"
    [] s = "index"  /\ Differs("index", c) -> "rebuild"
    [] OTHER -> ByFormat(s, b)

Evaluate(b, c)  == [s \in Store |-> Verdict(s, b, c)]
Blocked(r)      == {s \in Store : r[s] = "block"}
ToClear(r)      == {s \in Store : r[s] \notin {"continue", "block"}}
Rebuilds(r)     == \E s \in Store : r[s] = "rebuild"

-----------------------------------------------------------------------------
(* The steps of a command.  What one process changes makes the evaluation of *)
(* every other stale; commands that evaluate nothing have none.              *)

Stamps(c)  == c.cmd \in {"init", "upgrade"}
Judging(c) == Stamps(c) \/ c.pc = "clear"

Keeps(p, new) == proc' = [proc EXCEPT ![p] = new]
Changes(p, new) ==
  proc' = [q \in Process |->
            IF q = p THEN new
            ELSE [proc[q] EXCEPT !.stale = @ \/ Judging(proc[q])]]

Command == {"init", "upgrade", "sync", "reconcile", "note", "embed"}

(* The configuration is loaded; init and upgrade judge the stores before     *)
(* they ask for the lock.  An upgrade that is blocked, or has nothing to do, *)
(* ends here, and so does a blocked init that is not forced.                 *)
Start(p, cmd) ==
  LET r == Evaluate(binary, config)
  IN  /\ proc[p].pc = "idle" /\ commands < MaxCommands
      /\ cmd # "init" => written
      /\ cmd = "upgrade" => Blocked(r) = {} /\ ToClear(r) # {}
      /\ commands' = commands + 1
      /\ Keeps(p, [Idle EXCEPT !.pc = "lock", !.cmd = cmd,
                   !.force = cmd = "init" /\ Blocked(r) # {},
                   !.bin = binary, !.cfg = config,
                   !.blind = cmd \in {"init", "upgrade"} /\ snapshot = None,
                   !.report = IF cmd \in {"init", "upgrade"} THEN r ELSE None])
      /\ UNCHANGED <<config, written, binary, disk, changes, suspect>>

(* The name is created when it is not there; its inode may be locked.        *)
Inode == IF sentinel # 0 THEN sentinel
         ELSE CHOOSE i \in 1..(Cardinality(Process) + 1) : \A p \in Process : proc[p].ino # i

LockBusy(p) ==
  /\ proc[p].pc = "lock" /\ \E q \in Process : proc[q].ino = Inode
  /\ Keeps(p, Idle)
  /\ UNCHANGED <<config, written, binary, disk, commands, changes, suspect>>

Builds == [reconcile |-> <<"graph", "index">>, note |-> <<"overlay">>,
           embed |-> <<"vectors">>]

(* sync judges the stores now; a forced init clears what blocks it and the   *)
(* state store, whatever else it finds there.                                *)
Lock(p) ==
  LET c == proc[p]
      r == IF c.cmd = "sync" THEN Evaluate(c.bin, c.cfg) ELSE c.report
      held == [c EXCEPT !.ino = Inode]
  IN  /\ c.pc = "lock" /\ \A q \in Process : proc[q].ino # Inode
      /\ sentinel' = Inode
      /\ Changes(p,
           CASE c.force ->
                  [held EXCEPT !.pc = "force", !.todo = Blocked(r) \cup {"state"}]
             [] c.cmd \in {"upgrade", "sync"} \/ (c.cmd = "init" /\ ~c.force) ->
                  [held EXCEPT !.pc = "clear", !.todo = ToClear(r), !.report = r,
                               !.blind = IF c.cmd = "sync" THEN snapshot = None ELSE @,
                               !.stale = IF c.cmd = "sync" THEN FALSE ELSE @]
             [] OTHER -> [held EXCEPT !.pc = "build", !.build = Builds[c.cmd], !.blind = FALSE])
      /\ UNCHANGED <<config, written, binary, store, snapshot, records, commands, changes, suspect>>

Rank == [graph |-> 1, overlay |-> 2, index |-> 3, state |-> 4]

(* clear_store_contents, in the order of the report.  The state store holds  *)
(* the snapshot and the file of the lock.                                    *)
Clear(p) ==
  LET c == proc[p]
      s == CHOOSE t \in c.todo : \A u \in c.todo : Rank[t] <= Rank[u]
  IN  /\ c.pc \in {"force", "clear"} /\ c.todo # {}
      /\ IF s = "state"
         THEN snapshot' = None /\ records' = FALSE /\ sentinel' = 0 /\ UNCHANGED store
         ELSE /\ store' = [d \in Data |-> IF Holder[d] = s THEN None ELSE store[d]]
              /\ UNCHANGED <<snapshot, records, sentinel>>
      /\ suspect' = {x \in suspect : Holder[x[1]] # s}
      /\ Changes(p, [c EXCEPT !.todo = @ \ {s}])
      /\ UNCHANGED <<config, written, binary, commands, changes>>

(* After a forced clearing the stores are judged again.                      *)
ForceCleared(p) ==
  LET c == proc[p]
      r == Evaluate(c.bin, c.cfg)
  IN  /\ c.pc = "force" /\ c.todo = {}
      /\ Keeps(p, IF Blocked(r) # {} THEN Idle
                  ELSE [c EXCEPT !.pc = "clear", !.todo = ToClear(r), !.report = r,
                                 !.blind = snapshot = None, !.stale = FALSE])
      /\ UNCHANGED <<config, written, binary, disk, commands, changes, suspect>>

(* Mutant: an upgrade builds what the report says, and nothing else.         *)
Cleared_IndexOnly(p) ==
  LET c == proc[p]
      b == IF c.cmd = "init" THEN <<"overlay", "index", "graph">>
           ELSE IF c.cmd = "upgrade" /\ c.report["graph"] = "rebuild" THEN <<"graph", "index">>
           ELSE IF c.cmd = "upgrade" /\ Rebuilds(c.report) THEN <<"index">> ELSE <<>>
  IN  /\ c.pc = "clear" /\ c.todo = {}
      /\ Keeps(p, IF b = <<>> /\ c.cmd = "sync" THEN Idle
                  ELSE [c EXCEPT !.pc = IF b = <<>> THEN "stamp" ELSE "build",
                                 !.build = b, !.report = None, !.blind = FALSE,
                                 !.force = FALSE, !.stale = @ /\ Stamps(c)])
      /\ UNCHANGED <<config, written, binary, disk, commands, changes, suspect>>

(* init builds everything, upgrade the graph and the index when one of them  *)
(* is to be rebuilt; sync goes by the age and outcome of the last reconcile. *)
Cleared(p) ==
  LET c == proc[p]
  IN  /\ c.pc = "clear" /\ c.todo = {}
      /\ \E b \in {<<>>, <<"graph", "index">>, <<"overlay", "index", "graph">>} :
           /\ c.cmd = "init"    => b = <<"overlay", "index", "graph">>
           /\ c.cmd = "upgrade" => b = IF Rebuilds(c.report) THEN <<"graph", "index">> ELSE <<>>
           /\ c.cmd = "sync"    => b # <<"overlay", "index", "graph">>
           /\ Keeps(p, IF b = <<>> /\ c.cmd = "sync" THEN Idle
                       ELSE [c EXCEPT !.pc = IF b = <<>> THEN "stamp" ELSE "build",
                                      !.build = b, !.report = None, !.blind = FALSE,
                                      !.force = FALSE, !.stale = @ /\ Stamps(c)])
      /\ UNCHANGED <<config, written, binary, disk, commands, changes, suspect>>

(* A graph is opened, and made empty, before the compile or the embedding.   *)
OpenGraph(p) ==
  LET c == proc[p]
  IN  /\ c.pc = "build" /\ Head(c.build) \in {"graph", "vectors"} /\ store["graph"] = None
      /\ store' = [store EXCEPT !["graph"] = [fmt |-> Expected[c.bin]["graph"], made |-> Unread]]
      /\ suspect' = suspect \cup Both("graph")
      /\ Changes(p, [c EXCEPT !.made = IF Stamps(c) THEN (@ \ Both("graph")) \cup {<<"graph", "format">>}
                                       ELSE @])
      /\ UNCHANGED <<config, written, binary, snapshot, records, sentinel, commands, changes>>

(* What a step of building makes of s, and which aspects of it no snapshot   *)
(* accounts for then.  The index and the vectors are made anew, the graph is *)
(* compiled in place, notes are added to what there is.  The snapshot speaks *)
(* for vectors as far as it does for the graph they are of.                  *)
Built(c, s) ==
  CASE s = "graph"   -> [store[s] EXCEPT !.made = c.cfg]
    [] s = "vectors" -> [fmt |-> Expected[c.bin]["index"], made |-> store["graph"].made]
    [] s = "overlay" /\ store[s] # None -> store[s]
    [] OTHER         -> [fmt |-> Expected[c.bin][s], made |-> c.cfg]

Unaccounted(c, s) ==
  CASE s = "graph"   -> {<<s, "inputs">>}
    [] s = "vectors" -> {<<s, "format">> : x \in IF FormatFits("index", c.bin) THEN {} ELSE {s}}
                        \cup {<<s, x[2]>> : x \in suspect \cap {<<"graph", "inputs">>}}
    [] s = "overlay" /\ store[s] # None -> {}
    [] OTHER         -> Both(s)

(* One step of building.  init writes its configuration after it opened the  *)
(* overlay.                                                                  *)
Build(p) ==
  LET c == proc[p]
      s == Head(c.build)
      aspects == Unaccounted(c, s)
      rest == Tail(c.build)
  IN  /\ c.pc = "build"
      /\ s \in {"graph", "vectors"} => store["graph"] # None
      /\ store' = [store EXCEPT ![s] = Built(c, s)]
      /\ suspect' = (IF s = "vectors" THEN suspect \ Both(s) ELSE suspect) \cup aspects
      /\ IF c.cmd = "init" /\ s = "overlay" THEN config' = c.cfg /\ written' = TRUE
         ELSE UNCHANGED <<config, written>>
      /\ records' = (records \/ (rest = <<>> /\ c.cmd \notin {"note", "embed"}))
      /\ Changes(p, IF rest = <<>> /\ ~Stamps(c) THEN Idle
                    ELSE [c EXCEPT !.build = rest,
                                   !.pc = IF rest = <<>> THEN "stamp" ELSE "build",
                                   !.made = IF Stamps(c) THEN @ \cup aspects ELSE @])
      /\ UNCHANGED <<binary, snapshot, sentinel, commands, changes>>

(* Mutant: an error leaves the lock with a process that goes on living. *)
BuildFails_KeepsLock(p) ==
  /\ proc[p].pc = "build"
  /\ Keeps(p, [Idle EXCEPT !.ino = proc[p].ino])
  /\ UNCHANGED <<config, written, binary, disk, commands, changes, suspect>>

(* Any error ends the command without a snapshot; a graph it opened is there. *)
BuildFails(p) ==
  /\ proc[p].pc = "build"
  /\ Keeps(p, Idle)
  /\ UNCHANGED <<config, written, binary, disk, commands, changes, suspect>>

(* write_runtime_snapshot: the formats and inputs of this command.  It       *)
(* accounts for what was built, and for nothing if others were at work.  The *)
(* lock is released with the last step of a command.                         *)
Stamp(p) ==
  LET c == proc[p]
  IN  /\ c.pc = "stamp"
      /\ snapshot' = [fmt |-> Expected[c.bin], inputs |-> c.cfg]
      /\ suspect' = IF c.stale THEN Data \X Aspect ELSE suspect \ c.made
      /\ Changes(p, Idle)
      /\ UNCHANGED <<config, written, binary, store, records, sentinel, commands, changes>>

Crash(p) ==
  /\ proc[p].pc \notin {"idle", "lock"}
  /\ Keeps(p, Idle)
  /\ UNCHANGED <<config, written, binary, disk, commands, changes, suspect>>

(* The user. *)
EditConfig(i, v) ==
  /\ written /\ changes < MaxChanges /\ config[i] # v
  /\ config' = [config EXCEPT ![i] = v]
  /\ changes' = changes + 1
  /\ UNCHANGED <<written, binary, disk, proc, commands, suspect>>

Install(b) ==
  /\ changes < MaxChanges /\ binary # b
  /\ binary' = b
  /\ changes' = changes + 1
  /\ UNCHANGED <<config, written, disk, proc, commands, suspect>>

Next ==
  \/ \E p \in Process :
       \/ \E cmd \in Command : Start(p, cmd)
       \/ LockBusy(p) \/ Lock(p) \/ Clear(p) \/ ForceCleared(p) \/ Cleared(p)
       \/ OpenGraph(p) \/ Build(p) \/ BuildFails(p) \/ Stamp(p) \/ Crash(p)
  \/ \E i \in Input, v \in Value : EditConfig(i, v)
  \/ \E b \in Binary : Install(b)

Spec == Init /\ [][Next]_vars

-----------------------------------------------------------------------------
(* Properties *)

Working(p) == proc[p].ino # 0

(* Types, and: no two processes hold the lock on one inode, and a command    *)
(* clears, builds and stamps only while it holds one (acquire_writer_lock).  *)
TypeOK ==
  /\ config \in Config /\ written \in BOOLEAN /\ binary \in Binary
  /\ store \in [Data -> Content \cup {None}]
  /\ snapshot \in {None} \cup [fmt : [Store -> Nat], inputs : Config]
  /\ suspect \subseteq Data \X Aspect
  /\ \A p \in Process :
       /\ proc[p].pc \in {"idle", "lock", "force", "clear", "build", "stamp"}
       /\ Working(p) <=> proc[p].pc \notin {"idle", "lock"}
       /\ proc[p].pc = "build" => proc[p].build # <<>>
       /\ \A q \in Process \ {p} : Working(p) => proc[p].ino # proc[q].ino

(* Which store's verdict tells of a change of a group.                       *)
JudgeOf == [index |-> "index", graph |-> "graph", history |-> "graph"]

(* Nothing tells that the concepts among the vectors are of other directories *)
(* (README, "Where the documentation and the code differ").                  *)
Unjudged == {<<"vectors", "graph">>}

(* A store that is taken for compatible (check_store_ready) has the format   *)
(* this binary expects, and as far as the stores judged over what its builder *)
(* read are taken for compatible too (all are when an upgrade has nothing to *)
(* do), it was made from the configuration as it is: an upgrade that clears  *)
(* the index for other roots has compiled the graph for them before it       *)
(* records them, whatever was interrupted, failed, installed or taken back.  *)
(* Not covered: what commands without a snapshot made, until one with a      *)
(* snapshot makes it anew, and what was judged before others were at work.   *)
ReadyIsCurrent ==
  \A s \in Data : store[s] # None /\ Verdict(Holder[s], binary, config) = "continue" =>
    /\ <<s, "format">> \in suspect \/ store[s].fmt = Expected[binary][Holder[s]]
    /\ \A i \in ReadsOf[s] :
         Verdict(JudgeOf[i], binary, config) = "continue" /\ <<s, i>> \notin Unjudged =>
           <<s, "inputs">> \in suspect \/ store[s].made[i] = config[i]

(* What fits the clearing command's binary and configuration is not cleared: *)
(* no notes, links or vectors are dropped that a snapshot accounts for, over *)
(* a group that the policy does not give them up for.  Without a snapshot at *)
(* the time of the evaluation everything goes.                               *)
ClearsOnlyStale ==
  [][\A s \in Data, p \in Process :
       store[s] # None /\ store'[s] = None /\ proc'[p].todo # proc[p].todo =>
         \/ proc[p].stale \/ proc[p].blind \/ suspect \cap Both(s) # {}
         \/ store[s].fmt # Expected[proc[p].bin][Holder[s]]
         \/ \E i \in Judged[s] : store[s].made[i] # proc[p].cfg[i]]_vars

(* "synrepo init blocks when on-disk version exceeds the runtime constant":  *)
(* only a forced init does away with a graph of a newer format.              *)
NewerGraphBlocks ==
  [][\A p \in Process :
       /\ store["graph"] # None /\ store'["graph"] = None
       /\ proc'[p].todo # proc[p].todo /\ proc[p].cmd = "init" /\ ~proc[p].force
       => store["graph"].fmt <= Expected[proc[p].bin]["graph"]]_vars
=============================================================================
