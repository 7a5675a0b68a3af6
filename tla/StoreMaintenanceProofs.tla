----------------------- MODULE StoreMaintenanceProofs -----------------------
(***************************************************************************)
(* What the commands that judge the stores never get wrong, for any number *)
(* of processes, any binaries and formats and any values of the inputs.    *)
(***************************************************************************)
EXTENDS StoreMaintenance, FiniteSetTheorems, TLAPS

-----------------------------------------------------------------------------
(* The state of a command, and what its place says of the rest of it.      *)

CommandState ==
  [pc : {"idle", "lock", "force", "clear", "build", "stamp"}, cmd : Command \cup {None},
   force : BOOLEAN, bin : Binary \cup {None}, cfg : Config \cup {None},
   report : [Store -> Action] \cup {None}, blind : BOOLEAN, todo : SUBSET Store,
   build : Seq(Data), ino : Nat, stale : BOOLEAN, made : SUBSET (Data \X Aspect)]

(* What init and upgrade have yet to build.                                *)
Queues == {<<"overlay", "index", "graph">>, <<"index", "graph">>, <<"graph">>,
           <<"graph", "index">>, <<"index">>}

Coherent(c) ==
  /\ c.ino # 0 <=> c.pc \notin {"idle", "lock"}
  /\ c.pc # "idle" => c.cmd \in Command /\ c.bin \in Binary /\ c.cfg \in Config
  /\ c.pc = "lock" /\ Stamps(c) => c.report \in [Store -> Action]
                                   /\ (~c.force => Blocked(c.report) = {})
  /\ c.force => c.cmd = "init"
  /\ c.pc = "force" => c.cmd = "init"
  /\ c.pc = "clear" => c.cmd \in {"init", "upgrade", "sync"}
  /\ c.pc = "build" => c.build # <<>>
  /\ c.pc = "build" /\ Stamps(c) => c.build \in Queues
  /\ c.pc = "stamp" => Stamps(c)
  /\ c.pc \notin {"force", "clear"} => c.todo = {}
  /\ c.pc \notin {"build", "stamp"} => c.made = {}

OneHolder == \A p, q \in Process : p # q /\ proc[p].ino # 0 => proc[p].ino # proc[q].ino

Disk == /\ config \in Config /\ written \in BOOLEAN /\ binary \in Binary
        /\ store \in [Data -> Content \cup {None}]
        /\ snapshot \in {None} \cup [fmt : [Store -> Nat], inputs : Config]
        /\ records \in BOOLEAN /\ sentinel \in Nat
        /\ suspect \subseteq Data \X Aspect

TypeInv == /\ Disk
           /\ proc \in [Process -> CommandState]
           /\ \A p \in Process : Coherent(proc[p])
           /\ OneHolder

LEMMA TypeImplied == TypeInv => TypeOK
BY DEF TypeInv, Disk, TypeOK, CommandState, Coherent, OneHolder, Working

LEMMA QueueShrinks ==
  ASSUME NEW b \in Queues
  PROVE  /\ Head(b) \in {"graph", "index", "overlay"}
         /\ Tail(b) # <<>> => Tail(b) \in Queues
         /\ Head(b) # "graph" /\ b # <<"index">> => Tail(b) \in Queues \ {<<"index">>}
<1>1. CASE b = <<"overlay", "index", "graph">>
  <2>1. Head(b) = "overlay" /\ Tail(b) = <<"index", "graph">>
    BY <1>1
  <2>2. <<"index", "graph">> # <<"index">> /\ <<"index", "graph">> # <<>>
    OBVIOUS
  <2> QED BY <2>1, <2>2 DEF Queues
<1>2. CASE b = <<"index", "graph">>
  <2>1. Head(b) = "index" /\ Tail(b) = <<"graph">>
    BY <1>2
  <2>2. <<"graph">> # <<"index">> /\ <<"graph">> # <<>>
    OBVIOUS
  <2> QED BY <2>1, <2>2 DEF Queues
<1>3. CASE b = <<"graph">>
  BY <1>3 DEF Queues
<1>4. CASE b = <<"graph", "index">>
  <2>1. Head(b) = "graph" /\ Tail(b) = <<"index">>
    BY <1>4
  <2> QED BY <2>1 DEF Queues
<1>5. CASE b = <<"index">>
  BY <1>5 DEF Queues
<1> QED BY <1>1, <1>2, <1>3, <1>4, <1>5 DEF Queues

(* There is always an inode that no process has locked. *)
LEMMA FreshInode ==
  ASSUME TypeInv
  PROVE  \E i \in 1 .. (Cardinality(Process) + 1) : \A p \in Process : proc[p].ino # i
<1> DEFINE n == Cardinality(Process)
           holder(i) == CHOOSE p \in Process : proc[p].ino = i
           f == [i \in 1 .. (n + 1) |-> holder(i)]
<1> SUFFICES ASSUME \A i \in 1 .. (n + 1) : \E p \in Process : proc[p].ino = i
             PROVE  FALSE
  OBVIOUS
<1>1. n \in Nat /\ IsFiniteSet(Process)
  BY ProcessAssumption, FS_CardinalityType
<1>2. \A i \in 1 .. (n + 1) : holder(i) \in Process /\ proc[holder(i)].ino = i
  OBVIOUS
<1>3. f \in [1 .. (n + 1) -> Process]
  BY <1>2
<1>4. IsFiniteSet(1 .. (n + 1)) /\ Cardinality(1 .. (n + 1)) = n + 1
  <2> HIDE DEF n
  <2>1. 1 \in Int /\ n + 1 \in Int /\ ~(1 > n + 1) /\ (n + 1) - 1 + 1 = n + 1
    BY <1>1
  <2> QED BY <2>1, FS_Interval
<1>5. n < n + 1
  BY <1>1
<1> HIDE DEF f
<1>6. \E i, j \in 1 .. (n + 1) : i # j /\ f[i] = f[j]
  BY <1>1, <1>3, <1>4, <1>5, FS_PigeonHole
<1>7. \A i \in 1 .. (n + 1) : f[i] = holder(i)
  BY DEF f
<1> HIDE DEF holder
<1> QED BY <1>2, <1>6, <1>7

LEMMA InodeTyped ==
  ASSUME TypeInv
  PROVE  Inode \in Nat
<1>1. sentinel \in Nat
  BY DEF TypeInv, Disk
<1>2. Cardinality(Process) \in Nat
  BY ProcessAssumption, FS_CardinalityType
<1>3. (CHOOSE i \in 1 .. (Cardinality(Process) + 1) : \A p \in Process : proc[p].ino # i)
        \in 1 .. (Cardinality(Process) + 1)
  BY FreshInode
<1> QED BY <1>1, <1>2, <1>3 DEF Inode

(* A step of one process leaves the others' commands as they are, or marks *)
(* them stale.                                                             *)
Same(d, c) == /\ d.pc = c.pc /\ d.cmd = c.cmd /\ d.force = c.force /\ d.bin = c.bin
              /\ d.cfg = c.cfg /\ d.report = c.report /\ d.blind = c.blind /\ d.todo = c.todo
              /\ d.build = c.build /\ d.ino = c.ino /\ d.made = c.made

LEMMA Others ==
  ASSUME TypeInv, NEW p \in Process, NEW new \in CommandState,
         Keeps(p, new) \/ Changes(p, new)
  PROVE  /\ proc' \in [Process -> CommandState]
         /\ proc'[p] = new
         /\ \A q \in Process \ {p} : Same(proc'[q], proc[q])
         /\ Keeps(p, new) => \A q \in Process \ {p} : proc'[q] = proc[q]
         /\ Changes(p, new) => \A q \in Process \ {p} : Judging(proc[q]) => proc'[q].stale
<1>0. proc \in [Process -> CommandState]
  BY DEF TypeInv
<1>1. CASE Keeps(p, new)
  <2>1. /\ proc' \in [Process -> CommandState] /\ proc'[p] = new
        /\ \A q \in Process \ {p} : proc'[q] = proc[q]
    BY <1>0, <1>1 DEF Keeps
  <2>2. \A q \in Process \ {p} : Same(proc'[q], proc[q])
    BY <2>1 DEF Same
  <2> HIDE <1>1
  <2>3. ASSUME Changes(p, new), NEW q \in Process \ {p}, Judging(proc[q])
        PROVE  proc'[q].stale
    <3>1. proc'[q] = [proc[q] EXCEPT !.stale = proc[q].stale \/ Judging(proc[q])]
      BY <2>3 DEF Changes
    <3>2. proc[q] \in CommandState
      BY <1>0
    <3> QED BY <2>3, <3>1, <3>2 DEF CommandState
  <2> QED BY <2>1, <2>2, <2>3
<1>2. CASE Changes(p, new)
  <2>1. proc'[p] = new
    BY <1>2 DEF Changes
  <2>2. ASSUME NEW q \in Process \ {p}
        PROVE  /\ proc'[q] \in CommandState /\ Same(proc'[q], proc[q])
               /\ Judging(proc[q]) => proc'[q].stale
    <3>1. proc'[q] = [proc[q] EXCEPT !.stale = proc[q].stale \/ Judging(proc[q])]
      BY <1>2, <2>2 DEF Changes
    <3>2. proc[q] \in CommandState
      BY <1>0
    <3>3. proc[q].stale \/ Judging(proc[q]) \in BOOLEAN
      BY <3>2 DEF CommandState, Judging, Stamps
    <3> QED BY <3>1, <3>2, <3>3 DEF CommandState, Same
  <2>3. proc' \in [Process -> CommandState]
    <3>1. \A q \in Process : proc'[q] \in CommandState
      BY <2>1, <2>2
    <3>2. proc' = [q \in Process |-> proc'[q]]
      BY <1>2 DEF Changes
    <3> QED BY <3>1, <3>2
  <2>4. Keeps(p, new) => \A q \in Process \ {p} : proc'[q] = proc[q]
    BY <1>0 DEF Keeps
  <2> QED BY <2>1, <2>2, <2>3, <2>4
<1> QED BY <1>1, <1>2

LEMMA ProcessesKept ==
  ASSUME TypeInv, NEW p \in Process, NEW new \in CommandState, Coherent(new),
         Keeps(p, new) \/ Changes(p, new),
         \/ new.ino = 0 \/ new.ino = proc[p].ino
         \/ \A q \in Process : proc[q].ino # new.ino
  PROVE  /\ proc' \in [Process -> CommandState]
         /\ \A q \in Process : Coherent(proc'[q])
         /\ OneHolder'
<1>1. /\ proc' \in [Process -> CommandState] /\ proc'[p] = new
      /\ \A q \in Process \ {p} : Same(proc'[q], proc[q])
  BY Others
<1>2. ASSUME NEW q \in Process PROVE Coherent(proc'[q])
  <2>1. CASE q = p
    BY <1>1, <2>1
  <2>2. CASE q # p
    <3>1. Coherent(proc[q]) /\ Same(proc'[q], proc[q])
      BY <1>1, <2>2 DEF TypeInv
    <3> QED BY <3>1 DEF Coherent, Same, Stamps
  <2> QED BY <2>1, <2>2
<1>3. \A q \in Process \ {p} : proc'[q].ino = proc[q].ino
  BY <1>1 DEF Same
<1>4. OneHolder
  BY DEF TypeInv
<1> QED BY <1>1, <1>2, <1>3, <1>4 DEF OneHolder

LEMMA IdleTyped == Idle \in CommandState /\ Coherent(Idle) /\ Idle.ino = 0 /\ Idle.pc = "idle"
BY DEF Idle, CommandState, Coherent

LEMMA EvaluationTyped ==
  ASSUME NEW b, NEW c
  PROVE  /\ Evaluate(b, c) \in [Store -> Action]
         /\ \A s \in Store : Evaluate(b, c)[s] = Verdict(s, b, c)
<1>1. \A s \in Store : ByFormat(s, b) \in Action
  BY DEF ByFormat, Default, Action, Store
<1>2. \A s \in Store : Verdict(s, b, c) \in Action
  BY <1>1 DEF Verdict, Action, Store
<1> QED BY <1>2 DEF Evaluate

(* What a step of building leaves in the store s it works on: a store made *)
(* anew, a graph compiled in place, notes that were there and stay, or     *)
(* vectors of the graph.                                                   *)
BuildOf(p, s, aspects, new) ==
  /\ Changes(p, new) /\ Coherent(new)
  /\ proc[p].pc = "build" /\ s = Head(proc[p].build)
  /\ new.ino = 0 \/ new.ino = proc[p].ino
  /\ new.pc = "idle" \/ (/\ new.pc = (IF Tail(proc[p].build) = <<>> THEN "stamp" ELSE "build")
                         /\ new.build = Tail(proc[p].build)
                         /\ new.cmd = proc[p].cmd
                         /\ new.bin = proc[p].bin /\ new.cfg = proc[p].cfg
                         /\ new.stale = proc[p].stale /\ new.todo = {}
                         /\ Stamps(new) => new.made = proc[p].made \cup aspects)
  /\ aspects \subseteq Both(s)
  /\ suspect' = (IF s = "vectors" THEN suspect \ Both(s) ELSE suspect) \cup aspects
  /\ store' \in [Data -> Content \cup {None}] /\ store'[s] # None
  /\ \A t \in Data \ {s} : store'[t] = store[t]
  /\ \/ /\ s \in {"overlay", "index"} /\ aspects = Both(s)
        /\ store'[s].fmt = Expected[proc[p].bin][s] /\ store'[s].made = proc[p].cfg
     \/ /\ s = "graph" /\ store[s] # None /\ aspects = {<<s, "inputs">>}
        /\ store'[s].fmt = store[s].fmt /\ store'[s].made = proc[p].cfg
     \/ s = "overlay" /\ store[s] # None /\ aspects = {} /\ store'[s] = store[s]
     \/ /\ s = "vectors" /\ store["graph"] # None /\ ~Stamps(proc[p])
        /\ store'[s].fmt = Expected[proc[p].bin]["index"] /\ store'[s].made = store["graph"].made
        /\ <<s, "inputs">> \in aspects <=> <<"graph", "inputs">> \in suspect
        /\ <<s, "format">> \in aspects <=> ~FormatFits("index", proc[p].bin)
  /\ UNCHANGED <<snapshot, sentinel, binary>>
  /\ records' \in BOOLEAN
  /\ \/ UNCHANGED <<config, written>>
     \/ config' = proc[p].cfg /\ written' = TRUE

LEMMA ConfigContent ==
  ASSUME NEW n \in Nat, NEW m \in [Input -> Value \cup {None}]
  PROVE  [fmt |-> n, made |-> m] \in Content /\ [fmt |-> n, made |-> m] # None
BY NoneAssumption DEF Content

LEMMA ConfigReads == Config \subseteq [Input -> Value \cup {None}] /\ Unread \in [Input -> Value \cup {None}]
BY DEF Config, Unread

LEMMA UnaccountedShape ==
  ASSUME NEW c, NEW s \in Data
  PROVE  /\ Unaccounted(c, s) \subseteq Both(s)
         /\ s = "graph" => Unaccounted(c, s) = {<<s, "inputs">>}
         /\ s = "overlay" /\ store[s] # None => Unaccounted(c, s) = {}
         /\ s = "index" \/ (s = "overlay" /\ store[s] = None) => Unaccounted(c, s) = Both(s)
         /\ s = "vectors" =>
              /\ <<s, "inputs">> \in Unaccounted(c, s) <=> <<"graph", "inputs">> \in suspect
              /\ <<s, "format">> \in Unaccounted(c, s) <=> ~FormatFits("index", c.bin)
<1>1. CASE s = "vectors"
  <2> DEFINE odd == ~FormatFits("index", c.bin)
             worn == <<"graph", "inputs">> \in suspect
             format == <<s, "format">>
             inputs == <<s, "inputs">>
             formats == {<<s, "format">> : x \in IF FormatFits("index", c.bin) THEN {} ELSE {s}}
             inherited == {<<s, x[2]>> : x \in suspect \cap {<<"graph", "inputs">>}}
             un == Unaccounted(c, s)
  <2>1. un = formats \cup inherited
    BY <1>1 DEF Unaccounted
  <2>2. \A y \in formats : odd /\ y = format
    OBVIOUS
  <2>3. odd => format \in formats
    OBVIOUS
  <2>4. \A x \in suspect \cap {<<"graph", "inputs">>} : worn /\ <<s, x[2]>> = inputs
    OBVIOUS
  <2>5. \A y \in inherited : worn /\ y = inputs
    BY <2>4
  <2>6. worn => inputs \in inherited
    OBVIOUS
  <2>7. format # inputs /\ Both(s) = {format, inputs}
    BY DEF Both, Aspect
  <2> HIDE DEF odd, worn, format, inputs, formats, inherited, un
  <2>8. un \subseteq {format, inputs}
    BY <2>1, <2>2, <2>5
  <2>9. (format \in un) <=> odd
    BY <2>1, <2>2, <2>3, <2>5, <2>7
  <2>10. (inputs \in un) <=> worn
    BY <2>1, <2>2, <2>5, <2>6, <2>7
  <2>11. /\ <<s, "inputs">> \in Unaccounted(c, s) <=> <<"graph", "inputs">> \in suspect
         /\ <<s, "format">> \in Unaccounted(c, s) <=> ~FormatFits("index", c.bin)
    BY <2>9, <2>10 DEF format, inputs, odd, worn, un
  <2>12. Unaccounted(c, s) \subseteq Both(s)
    BY <2>7, <2>8 DEF un
  <2> QED BY <1>1, <2>11, <2>12
<1>2. CASE s # "vectors"
  BY <1>2 DEF Unaccounted, Both, Aspect, Data
<1> QED BY <1>1, <1>2

LEMMA BuildStep ==
  ASSUME TypeInv, NEW p \in Process, Build(p)
  PROVE  \E s \in Data, aspects \in SUBSET (Data \X Aspect), new \in CommandState :
           BuildOf(p, s, aspects, new)
<1> DEFINE c == proc[p]
           s == Head(c.build)
           rest == Tail(c.build)
           aspects == Unaccounted(c, s)
           new == IF rest = <<>> /\ ~Stamps(c) THEN Idle
                  ELSE [c EXCEPT !.build = rest,
                                 !.pc = IF rest = <<>> THEN "stamp" ELSE "build",
                                 !.made = IF Stamps(c) THEN c.made \cup aspects ELSE c.made]
<1>1. /\ c.pc = "build" /\ Changes(p, new)
      /\ s \in {"graph", "vectors"} => store["graph"] # None
      /\ suspect' = (IF s = "vectors" THEN suspect \ Both(s) ELSE suspect) \cup aspects
      /\ store' = [store EXCEPT ![s] = Built(c, s)]
      /\ UNCHANGED <<snapshot, sentinel, binary>>
      /\ \/ UNCHANGED <<config, written>>
         \/ config' = proc[p].cfg /\ written' = TRUE
  BY DEF Build
<1>2. c \in CommandState /\ Coherent(c) /\ store \in [Data -> Content \cup {None}]
      /\ suspect \subseteq Data \X Aspect
  BY DEF TypeInv, Disk
<1>3. s \in Data /\ rest \in Seq(Data)
  BY <1>1, <1>2 DEF Coherent, CommandState
<1>4. c.bin \in Binary /\ c.cfg \in Config
  BY <1>1, <1>2 DEF Coherent
<1>5. Expected[c.bin][Holder[s]] \in Nat
  BY <1>3, <1>4, ExpectedAssumption DEF Data, Holder, Store
<1>6. aspects \subseteq Both(s) /\ Both(s) \subseteq Data \X Aspect
  BY <1>3, UnaccountedShape DEF Both, Aspect
<1>7. records' \in BOOLEAN
  BY DEF Build, TypeInv, Disk
<1>12. Stamps(c) => s # "vectors" /\ (rest # <<>> => rest \in Queues)
  BY <1>1, <1>2, QueueShrinks DEF Coherent
<1> HIDE DEF c, s, rest, aspects
<1>8. new \in CommandState /\ Coherent(new) /\ (new.ino = 0 \/ new.ino = c.ino)
      /\ (new.pc = "idle" \/ (/\ new.pc = (IF rest = <<>> THEN "stamp" ELSE "build")
                              /\ new.build = rest /\ new.cmd = c.cmd
                              /\ new.bin = c.bin /\ new.cfg = c.cfg
                              /\ new.stale = c.stale /\ new.todo = {}
                              /\ Stamps(new) => new.made = c.made \cup aspects))
  <2>1. CASE rest = <<>> /\ ~Stamps(c)
    <3>1. new = Idle
      BY <2>1
    <3> HIDE DEF new
    <3> QED BY <3>1, IdleTyped
  <2>2. CASE ~(rest = <<>> /\ ~Stamps(c))
    <3> DEFINE pc == IF rest = <<>> THEN "stamp" ELSE "build"
               made == IF Stamps(c) THEN c.made \cup aspects ELSE c.made
    <3>1. /\ pc \in {"stamp", "build"} /\ made \in SUBSET (Data \X Aspect)
          /\ pc = "stamp" => Stamps(c)
          /\ pc = "build" => rest # <<>>
      BY <1>2, <1>6, <2>2 DEF CommandState
    <3>2. Stamps(c) => made = c.made \cup aspects
      OBVIOUS
    <3>3. new = [c EXCEPT !.build = rest, !.pc = pc, !.made = made]
      BY <2>2
    <3>7. pc = IF rest = <<>> THEN "stamp" ELSE "build"
      OBVIOUS
    <3> HIDE DEF new, pc, made
    <3>4. new \in CommandState
      BY <1>2, <1>3, <3>1, <3>3 DEF CommandState
    <3>5. /\ new.pc = pc /\ new.cmd = c.cmd /\ new.bin = c.bin /\ new.cfg = c.cfg
          /\ new.stale = c.stale /\ new.todo = c.todo /\ new.made = made /\ new.build = rest
          /\ new.ino = c.ino /\ new.force = c.force
      BY <1>2, <3>3 DEF CommandState
    <3>6. Coherent(new)
      BY <1>1, <1>2, <1>12, <3>1, <3>5 DEF Coherent, Stamps
    <3>8. c.todo = {}
      BY <1>1, <1>2 DEF Coherent
    <3> QED BY <3>2, <3>4, <3>5, <3>6, <3>7, <3>8 DEF Stamps
  <2> QED BY <2>1, <2>2
<1>9. /\ store' \in [Data -> Content \cup {None}] /\ store'[s] # None
      /\ \A t \in Data \ {s} : store'[t] = store[t]
      /\ \/ /\ s \in {"overlay", "index"} /\ aspects = Both(s)
            /\ store'[s].fmt = Expected[c.bin][s] /\ store'[s].made = c.cfg
         \/ /\ s = "graph" /\ store[s] # None /\ aspects = {<<s, "inputs">>}
            /\ store'[s].fmt = store[s].fmt /\ store'[s].made = c.cfg
         \/ s = "overlay" /\ store[s] # None /\ aspects = {} /\ store'[s] = store[s]
         \/ /\ s = "vectors" /\ store["graph"] # None /\ ~Stamps(c)
            /\ store'[s].fmt = Expected[c.bin]["index"] /\ store'[s].made = store["graph"].made
            /\ <<s, "inputs">> \in aspects <=> <<"graph", "inputs">> \in suspect
            /\ <<s, "format">> \in aspects <=> ~FormatFits("index", c.bin)
  <2> HIDE DEF new
  <2>0. "graph" \in Data
    BY DEF Data
  <2>1. CASE s = "index" \/ (s = "overlay" /\ store[s] = None)
    <3> DEFINE content == [fmt |-> Expected[c.bin][s], made |-> c.cfg]
    <3>1. content \in Content /\ content # None
      BY <1>4, <1>5, <2>1, ConfigContent, ConfigReads DEF Holder
    <3>2. store' = [store EXCEPT ![s] = content]
      BY <1>1, <2>1 DEF Built
    <3>3. content.fmt = Expected[c.bin][s] /\ content.made = c.cfg
      OBVIOUS
    <3>4. aspects = Both(s)
      BY <1>3, <2>1, UnaccountedShape DEF aspects
    <3> HIDE DEF content
    <3> QED BY <1>2, <1>3, <2>1, <3>1, <3>2, <3>3, <3>4
  <2>2. CASE s = "graph"
    <3> DEFINE content == [store[s] EXCEPT !.made = c.cfg]
    <3>0. store[s] \in Content /\ store[s] # None
      BY <1>1, <1>2, <1>3, <2>2
    <3>1. content = [fmt |-> store[s].fmt, made |-> c.cfg] /\ store[s].fmt \in Nat
      BY <3>0 DEF Content
    <3>2. store' = [store EXCEPT ![s] = content]
      BY <1>1, <2>2 DEF Built
    <3>3. aspects = {<<s, "inputs">>}
      BY <1>3, <2>2, UnaccountedShape DEF aspects
    <3> HIDE DEF content
    <3>4. content \in Content /\ content # None
      BY <1>4, <3>1, ConfigContent, ConfigReads
    <3>5. content.fmt = store[s].fmt /\ content.made = c.cfg
      BY <3>1
    <3> QED BY <1>2, <1>3, <2>2, <3>0, <3>2, <3>3, <3>4, <3>5
  <2>3. CASE s = "overlay" /\ store[s] # None
    <3>1. store' = [store EXCEPT ![s] = store[s]]
      BY <1>1, <2>3 DEF Built
    <3>2. aspects = {}
      BY <1>3, <2>3, UnaccountedShape DEF aspects
    <3> QED BY <1>2, <1>3, <2>3, <3>1, <3>2
  <2>4. CASE s = "vectors"
    <3> DEFINE content == [fmt |-> Expected[c.bin]["index"], made |-> store["graph"].made]
    <3>0. store["graph"] \in Content /\ store["graph"] # None
      BY <1>1, <1>2, <2>0, <2>4
    <3>1. content \in Content /\ content # None
      BY <1>5, <2>4, <3>0, ConfigContent DEF Content, Holder
    <3>2. store' = [store EXCEPT ![s] = content]
      BY <1>1, <2>4 DEF Built
    <3>3. content.fmt = Expected[c.bin]["index"] /\ content.made = store["graph"].made
      OBVIOUS
    <3>4. /\ <<s, "inputs">> \in aspects <=> <<"graph", "inputs">> \in suspect
          /\ <<s, "format">> \in aspects <=> ~FormatFits("index", c.bin)
      BY <1>3, <2>4, UnaccountedShape DEF aspects
    <3> HIDE DEF content
    <3> QED BY <1>2, <1>3, <1>12, <2>4, <3>0, <3>1, <3>2, <3>3, <3>4
  <2> QED BY <1>3, <2>1, <2>2, <2>3, <2>4 DEF Data
<1> HIDE DEF new
<1>10. aspects \in SUBSET (Data \X Aspect)
  BY <1>6
<1>11. BuildOf(p, s, aspects, new)
  BY <1>1, <1>6, <1>7, <1>8, <1>9 DEF BuildOf, c, s, rest
<1> QED BY <1>3, <1>8, <1>10, <1>11

(* A graph that is opened and not yet compiled.                            *)
Opening(p, new) ==
  /\ Changes(p, new) /\ Coherent(new) /\ proc[p].pc = "build"
  /\ Stamps(proc[p]) => proc[p].build # <<"index">>
  /\ new.pc = "build" /\ new.cmd = proc[p].cmd /\ new.bin = proc[p].bin /\ new.cfg = proc[p].cfg
  /\ new.ino = proc[p].ino /\ new.stale = proc[p].stale /\ new.todo = {} /\ new.build = proc[p].build
  /\ Stamps(new) => new.made = (proc[p].made \ Both("graph")) \cup {<<"graph", "format">>}
  /\ store["graph"] = None /\ suspect' = suspect \cup Both("graph")
  /\ store' \in [Data -> Content \cup {None}] /\ store'["graph"] # None
  /\ store'["graph"].fmt = Expected[proc[p].bin]["graph"]
  /\ \A t \in Data \ {"graph"} : store'[t] = store[t]
  /\ UNCHANGED <<config, written, binary, snapshot, records, sentinel>>

LEMMA OpenStep ==
  ASSUME TypeInv, NEW p \in Process, OpenGraph(p)
  PROVE  \E new \in CommandState : Opening(p, new)
<1> DEFINE c == proc[p]
           made == IF Stamps(c) THEN (c.made \ Both("graph")) \cup {<<"graph", "format">>} ELSE c.made
           new == [c EXCEPT !.made = made]
           content == [fmt |-> Expected[c.bin]["graph"], made |-> Unread]
<1>1. /\ c.pc = "build" /\ Head(c.build) \in {"graph", "vectors"} /\ store["graph"] = None
      /\ Changes(p, new) /\ store' = [store EXCEPT !["graph"] = content]
      /\ suspect' = suspect \cup Both("graph")
      /\ UNCHANGED <<config, written, binary, snapshot, records, sentinel>>
  BY DEF OpenGraph
<1>2. c \in CommandState /\ Coherent(c) /\ store \in [Data -> Content \cup {None}]
  BY DEF TypeInv, Disk
<1>3. c.bin \in Binary /\ "graph" \in Data
  BY <1>1, <1>2 DEF Coherent, Data
<1>4. Expected[c.bin]["graph"] \in Nat
  BY <1>3, ExpectedAssumption DEF Store
<1>5. content \in Content /\ content # None /\ content.fmt = Expected[c.bin]["graph"]
  BY <1>4, ConfigContent, ConfigReads
<1>6. made \in SUBSET (Data \X Aspect)
  BY <1>2, <1>3 DEF CommandState, Aspect
<1>7. Stamps(c) => c.build # <<"index">>
  BY <1>1
<1>8. Stamps(c) => made = (c.made \ Both("graph")) \cup {<<"graph", "format">>}
  OBVIOUS
<1> HIDE DEF made, content, c
<1>9. /\ new \in CommandState /\ new.pc = c.pc /\ new.cmd = c.cmd /\ new.bin = c.bin
      /\ new.cfg = c.cfg /\ new.ino = c.ino /\ new.stale = c.stale /\ new.todo = c.todo
      /\ new.build = c.build /\ new.made = made /\ new.force = c.force
  BY <1>2, <1>6 DEF CommandState
<1> HIDE DEF new
<1>10. Coherent(new) /\ new.todo = {}
  BY <1>1, <1>2, <1>9 DEF Coherent, Stamps
<1>11. Opening(p, new)
  BY <1>1, <1>2, <1>3, <1>5, <1>7, <1>8, <1>9, <1>10 DEF Opening, c, Stamps
<1> QED BY <1>9, <1>11

LEMMA TypeInvariant == Spec => []TypeInv
<1>1. Init => TypeInv
  <2> SUFFICES ASSUME Init PROVE TypeInv
    OBVIOUS
  <2>1. \A p \in Process : proc[p] = Idle
    BY DEF Init
  <2>2. Disk
    BY ValueAssumption DEF Init, Disk, Config
  <2>3. proc \in [Process -> CommandState]
    BY IdleTyped DEF Init
  <2> QED BY <2>1, <2>2, <2>3, IdleTyped DEF TypeInv, OneHolder
<1>2. TypeInv /\ [Next]_vars => TypeInv'
  <2> SUFFICES ASSUME TypeInv, [Next]_vars PROVE TypeInv'
    OBVIOUS
  <2>0. Disk /\ proc \in [Process -> CommandState]
    BY DEF TypeInv
  <2>u. ASSUME UNCHANGED proc, Disk' PROVE TypeInv'
    BY <2>u DEF TypeInv, OneHolder
  <2>p. ASSUME NEW p \in Process, NEW new \in CommandState, Coherent(new),
               Keeps(p, new) \/ Changes(p, new), new.ino = 0 \/ new.ino = proc[p].ino, Disk'
        PROVE  TypeInv'
    BY <2>p, ProcessesKept DEF TypeInv
  <2>1. CASE UNCHANGED vars
    <3>1. Disk'
      BY <2>0, <2>1 DEF vars, Disk
    <3> QED BY <2>1, <3>1, <2>u DEF vars
  <2>2. ASSUME NEW p \in Process, NEW cmd \in Command, Start(p, cmd) PROVE TypeInv'
    <3> DEFINE r == Evaluate(binary, config)
               new == [Idle EXCEPT !.pc = "lock", !.cmd = cmd,
                         !.force = cmd = "init" /\ Blocked(r) # {},
                         !.bin = binary, !.cfg = config,
                         !.blind = cmd \in {"init", "upgrade"} /\ snapshot = None,
                         !.report = IF cmd \in {"init", "upgrade"} THEN r ELSE None]
    <3>1. Keeps(p, new) /\ (cmd = "upgrade" => Blocked(r) = {})
      BY <2>2 DEF Start
    <3>2. r \in [Store -> Action]
      BY EvaluationTyped
    <3> HIDE DEF r
    <3>3. binary \in Binary /\ config \in Config
      BY <2>0 DEF Disk
    <3>4. new \in CommandState
      <4> DEFINE force == cmd = "init" /\ Blocked(r) # {}
                 blind == cmd \in {"init", "upgrade"} /\ snapshot = None
                 report == IF cmd \in {"init", "upgrade"} THEN r ELSE None
      <4>1. force \in BOOLEAN /\ blind \in BOOLEAN /\ report \in [Store -> Action] \cup {None}
        BY <3>2
      <4> HIDE DEF force, blind, report
      <4>2. [Idle EXCEPT !.pc = "lock", !.cmd = cmd, !.force = force, !.bin = binary,
                         !.cfg = config, !.blind = blind, !.report = report] \in CommandState
        BY <3>3, <4>1, IdleTyped DEF CommandState
      <4> QED BY <4>2 DEF force, blind, report
    <3>5. Coherent(new) /\ new.ino = 0
      BY <3>1, <3>2, <3>3 DEF Idle, Coherent, Stamps
    <3>6. Disk'
      BY <2>0, <2>2 DEF Start, Disk, disk
    <3> HIDE DEF new
    <3> QED BY <2>p, <3>1, <3>4, <3>5, <3>6
  <2>3. ASSUME NEW p \in Process, Keeps(p, Idle),
               UNCHANGED <<config, written, binary, disk, commands, changes, suspect>>
        PROVE  TypeInv'
    <3>1. Disk'
      BY <2>0, <2>3 DEF Disk, disk
    <3> QED BY <2>p, <2>3, <3>1, IdleTyped
  <2>4. ASSUME NEW p \in Process, Lock(p) PROVE TypeInv'
    <3> DEFINE c == proc[p]
               r == IF c.cmd = "sync" THEN Evaluate(c.bin, c.cfg) ELSE c.report
               held == [c EXCEPT !.ino = Inode]
               new == CASE c.force ->
                        [held EXCEPT !.pc = "force", !.todo = Blocked(r) \cup {"state"}]
                   [] c.cmd \in {"upgrade", "sync"} \/ (c.cmd = "init" /\ ~c.force) ->
                        [held EXCEPT !.pc = "clear", !.todo = ToClear(r), !.report = r,
                                     !.blind = IF c.cmd = "sync" THEN snapshot = None ELSE held.blind,
                                     !.stale = IF c.cmd = "sync" THEN FALSE ELSE held.stale]
                   [] OTHER -> [held EXCEPT !.pc = "build", !.build = Builds[c.cmd], !.blind = FALSE]
    <3>1. /\ Changes(p, new) /\ c.pc = "lock" /\ sentinel' = Inode
          /\ \A q \in Process : proc[q].ino # Inode
          /\ UNCHANGED <<config, written, binary, store, snapshot, records, suspect>>
      BY <2>4 DEF Lock
    <3>2. c \in CommandState /\ Coherent(c)
      BY <2>0 DEF TypeInv
    <3>3. Inode \in Nat \ {0}
      BY <3>1, <3>2, InodeTyped DEF Coherent
    <3>4. Disk'
      BY <2>0, <3>1, <3>3 DEF Disk
    <3> DEFINE ino == Inode
    <3> HIDE DEF ino
    <3>5. r \in [Store -> Action] \/ (~Stamps(c) /\ c.cmd # "sync")
      BY <3>1, <3>2, EvaluationTyped DEF Coherent
    <3> HIDE DEF r
    <3>6. new \in CommandState /\ Coherent(new) /\ new.ino = Inode
      <4> HIDE DEF c
      <4>1. CASE c.force
        <5>1. new = [held EXCEPT !.pc = "force", !.todo = Blocked(r) \cup {"state"}]
          BY <3>2, <4>1 DEF Coherent
        <5>2. Blocked(r) \cup {"state"} \subseteq Store
          BY DEF Blocked, Store
        <5> HIDE DEF new
        <5>3. new \in CommandState
          BY <3>2, <3>3, <5>1, <5>2 DEF CommandState
        <5> QED BY <3>1, <3>2, <3>3, <4>1, <5>1, <5>3 DEF CommandState, Coherent
      <4>2. CASE c.cmd \in {"upgrade", "sync"} \/ (c.cmd = "init" /\ ~c.force)
        <5>1. new = [held EXCEPT !.pc = "clear", !.todo = ToClear(r), !.report = r,
                                 !.blind = IF c.cmd = "sync" THEN snapshot = None ELSE held.blind,
                                 !.stale = IF c.cmd = "sync" THEN FALSE ELSE held.stale]
          BY <3>2, <4>2 DEF Coherent
        <5>2. ToClear(r) \subseteq Store /\ r \in [Store -> Action]
          BY <3>5, <4>2 DEF ToClear, Stamps
        <5> HIDE DEF new
        <5> DEFINE blind == IF c.cmd = "sync" THEN snapshot = None ELSE c.blind
                   stale == IF c.cmd = "sync" THEN FALSE ELSE c.stale
        <5>4. blind \in BOOLEAN /\ stale \in BOOLEAN
          BY <3>2 DEF CommandState
        <5>5. held.blind = c.blind /\ held.stale = c.stale
          BY <3>2 DEF CommandState
        <5>6. new = [held EXCEPT !.pc = "clear", !.todo = ToClear(r), !.report = r,
                                 !.blind = blind, !.stale = stale]
          BY <5>1, <5>5
        <5> HIDE DEF blind, stale
        <5>3. new \in CommandState
          BY <3>2, <3>3, <5>2, <5>4, <5>6 DEF CommandState
        <5> QED BY <3>1, <3>2, <3>3, <4>2, <5>1, <5>3 DEF CommandState, Coherent
      <4>3. CASE c.cmd \in {"reconcile", "note", "embed"}
        <5>1. new = [held EXCEPT !.pc = "build", !.build = Builds[c.cmd], !.blind = FALSE]
          BY <3>2, <4>3 DEF Coherent
        <5>2. Builds[c.cmd] \in Seq(Data) /\ Builds[c.cmd] # <<>>
          <6>1. {"graph", "index", "overlay", "vectors"} \subseteq Data
            BY DEF Data
          <6>2. <<"graph", "index">> \in Seq(Data) /\ <<"overlay">> \in Seq(Data) /\ <<"vectors">> \in Seq(Data)
            BY <6>1
          <6>3. Builds[c.cmd] \in {<<"graph", "index">>, <<"overlay">>, <<"vectors">>}
            BY <4>3 DEF Builds
          <6>4. <<"graph", "index">> # <<>> /\ <<"overlay">> # <<>> /\ <<"vectors">> # <<>>
            OBVIOUS
          <6> QED BY <6>2, <6>3, <6>4, Zenon
        <5> HIDE DEF new
        <5>3. new \in CommandState
          BY <3>2, <3>3, <5>1, <5>2 DEF CommandState
        <5>4. /\ new.pc = "build" /\ new.cmd = c.cmd /\ new.bin = c.bin /\ new.cfg = c.cfg
              /\ new.force = c.force /\ new.todo = c.todo /\ new.made = c.made
              /\ new.ino = Inode /\ new.build = Builds[c.cmd]
          BY <3>2, <3>3, <5>1, <5>2 DEF CommandState
        <5> QED BY <3>1, <3>2, <3>3, <4>3, <5>2, <5>3, <5>4 DEF Coherent, Stamps
      <4> QED BY <3>1, <3>2, <4>1, <4>2, <4>3 DEF Coherent, Command
    <3> HIDE DEF new
    <3> QED BY <3>1, <3>4, <3>6, ProcessesKept DEF TypeInv
  <2>5. ASSUME NEW p \in Process, Clear(p) PROVE TypeInv'
    <3> DEFINE c == proc[p]
               s == CHOOSE t \in c.todo : \A u \in c.todo : Rank[t] <= Rank[u]
               new == [c EXCEPT !.todo = c.todo \ {s}]
    <3>1. /\ Changes(p, new) /\ c.pc \in {"force", "clear"}
          /\ \/ snapshot' = None /\ records' = FALSE /\ sentinel' = 0 /\ store' = store
             \/ /\ store' = [d \in Data |-> IF Holder[d] = s THEN None ELSE store[d]]
                /\ UNCHANGED <<snapshot, records, sentinel>>
          /\ suspect' \subseteq suspect
          /\ UNCHANGED <<config, written, binary>>
      BY <2>5 DEF Clear
    <3>2. c \in CommandState /\ Coherent(c)
      BY <2>0 DEF TypeInv
    <3> HIDE DEF c, s
    <3>3. new \in CommandState /\ Coherent(new) /\ new.ino = c.ino
      BY <3>1, <3>2 DEF CommandState, Coherent, Stamps
    <3> HIDE DEF new
    <3>4. /\ store' \in [Data -> Content \cup {None}]
          /\ snapshot' \in {None} \cup [fmt : [Store -> Nat], inputs : Config]
          /\ records' \in BOOLEAN /\ sentinel' \in Nat
      <4>1. CASE snapshot' = None /\ records' = FALSE /\ sentinel' = 0 /\ store' = store
        BY <2>0, <4>1 DEF Disk
      <4>2. CASE /\ store' = [d \in Data |-> IF Holder[d] = s THEN None ELSE store[d]]
                 /\ UNCHANGED <<snapshot, records, sentinel>>
        BY <2>0, <4>2 DEF Disk
      <4> QED BY <3>1, <4>1, <4>2
    <3>5. Disk'
      BY <2>0, <3>1, <3>4 DEF Disk
    <3> QED BY <2>p, <3>1, <3>3, <3>5 DEF c
  <2>6. ASSUME NEW p \in Process, ForceCleared(p) PROVE TypeInv'
    <3> DEFINE c == proc[p]
               r == Evaluate(c.bin, c.cfg)
               none == snapshot = None
               new == [c EXCEPT !.pc = "clear", !.todo = ToClear(r), !.report = r,
                                !.blind = none, !.stale = FALSE]
    <3>1. /\ Keeps(p, Idle) \/ Keeps(p, new)
          /\ c.pc = "force"
          /\ UNCHANGED <<config, written, binary, disk, commands, changes, suspect>>
      BY <2>6 DEF ForceCleared
    <3>2. c \in CommandState /\ Coherent(c)
      BY <2>0 DEF TypeInv
    <3>3. r \in [Store -> Action] /\ ToClear(r) \subseteq Store /\ none \in BOOLEAN
      BY EvaluationTyped DEF ToClear
    <3> HIDE DEF c, r, none
    <3>4. new \in CommandState /\ Coherent(new) /\ new.ino = c.ino
      BY <3>1, <3>2, <3>3 DEF CommandState, Coherent, Stamps
    <3> HIDE DEF new
    <3>5. Disk'
      BY <2>0, <3>1 DEF Disk, disk
    <3> QED BY <2>3, <2>p, <3>1, <3>4, <3>5 DEF c
  <2>7. ASSUME NEW p \in Process, Cleared(p) PROVE TypeInv'
    <3> DEFINE c == proc[p]
               new(b) == [c EXCEPT !.pc = IF b = <<>> THEN "stamp" ELSE "build",
                                   !.build = b, !.report = None, !.blind = FALSE,
                                   !.force = FALSE, !.stale = c.stale /\ Stamps(c)]
    <3>1. PICK b \in {<<>>, <<"graph", "index">>, <<"overlay", "index", "graph">>} :
            /\ c.pc = "clear" /\ c.todo = {}
            /\ c.cmd = "init" => b = <<"overlay", "index", "graph">>
            /\ c.cmd = "upgrade" => b \in {<<>>, <<"graph", "index">>}
            /\ Keeps(p, IF b = <<>> /\ c.cmd = "sync" THEN Idle ELSE new(b))
            /\ UNCHANGED <<config, written, binary, disk, commands, changes, suspect>>
      BY <2>7 DEF Cleared
    <3>2. c \in CommandState /\ Coherent(c)
      BY <2>0 DEF TypeInv
    <3>3. b \in Seq(Data)
      <4>1. "graph" \in Data /\ "index" \in Data /\ "overlay" \in Data
        BY DEF Data
      <4>2. /\ <<>> \in Seq(Data) /\ <<"graph", "index">> \in Seq(Data)
            /\ <<"overlay", "index", "graph">> \in Seq(Data)
        BY <4>1
      <4> QED BY <3>1, <4>2, Zenon
    <3> HIDE DEF c
    <3>4. CASE b = <<>> /\ c.cmd = "sync"
      BY <2>3, <3>1, <3>4
    <3>5. CASE ~(b = <<>> /\ c.cmd = "sync")
      <4> DEFINE pc == IF b = <<>> THEN "stamp" ELSE "build"
                 stale == c.stale /\ Stamps(c)
                 next == [c EXCEPT !.pc = pc, !.build = b, !.report = None, !.blind = FALSE,
                                   !.force = FALSE, !.stale = stale]
      <4>1. pc \in {"stamp", "build"} /\ (pc = "stamp" => c.cmd # "sync") /\ (pc = "build" => b # <<>>)
        BY <3>5
      <4>2. Keeps(p, next)
        BY <3>1, <3>5
      <4>5. stale \in BOOLEAN
        BY <3>2 DEF CommandState
      <4>6. c.cmd \in {"init", "upgrade"} /\ b # <<>> => b \in Queues
        BY <3>1 DEF Queues
      <4> HIDE DEF pc, stale
      <4>7. /\ next \in CommandState /\ next.pc = pc /\ next.cmd = c.cmd /\ next.build = b
            /\ next.bin = c.bin /\ next.cfg = c.cfg /\ next.force = FALSE /\ next.todo = c.todo
            /\ next.made = c.made /\ next.ino = c.ino
        BY <3>2, <3>3, <4>1, <4>5 DEF CommandState
      <4> HIDE DEF next
      <4>3. next \in CommandState /\ Coherent(next) /\ next.ino = c.ino
        BY <3>1, <3>2, <4>1, <4>6, <4>7 DEF Coherent, Stamps
      <4>4. Disk'
        BY <2>0, <3>1 DEF Disk, disk
      <4> QED BY <2>p, <4>2, <4>3, <4>4 DEF c
    <3> QED BY <3>4, <3>5
  <2>8. ASSUME NEW p \in Process, Build(p) PROVE TypeInv'
    <3>1. PICK s \in Data, aspects \in SUBSET (Data \X Aspect), new \in CommandState :
            BuildOf(p, s, aspects, new)
      BY <2>8, BuildStep
    <3>2. proc[p].cfg \in Config
      BY <3>1 DEF BuildOf, TypeInv, Coherent
    <3>3. Disk'
      BY <2>0, <3>1, <3>2 DEF BuildOf, Disk
    <3> QED BY <2>p, <3>1, <3>3 DEF BuildOf
  <2>13. ASSUME NEW p \in Process, OpenGraph(p) PROVE TypeInv'
    <3>1. PICK new \in CommandState : Opening(p, new)
      BY <2>13, OpenStep
    <3>2. Both("graph") \subseteq Data \X Aspect
      BY DEF Both, Data
    <3>3. Disk'
      BY <2>0, <3>1, <3>2 DEF Opening, Disk
    <3> QED BY <2>p, <3>1, <3>3 DEF Opening
  <2>9. ASSUME NEW p \in Process, Stamp(p) PROVE TypeInv'
    <3>1. /\ Changes(p, Idle) /\ proc[p].pc = "stamp"
          /\ snapshot' = [fmt |-> Expected[proc[p].bin], inputs |-> proc[p].cfg]
          /\ suspect' = IF proc[p].stale THEN Data \X Aspect ELSE suspect \ proc[p].made
          /\ UNCHANGED <<config, written, binary, store, records, sentinel, commands, changes>>
      BY <2>9 DEF Stamp
    <3>2. proc[p].cfg \in Config /\ proc[p].bin \in Binary
      BY <3>1 DEF TypeInv, Coherent
    <3>3. snapshot' \in [fmt : [Store -> Nat], inputs : Config]
      <4>1. Expected[proc[p].bin] \in [Store -> Nat]
        BY <3>2, ExpectedAssumption
      <4> QED BY <3>1, <3>2, <4>1
    <3>4. suspect' \subseteq Data \X Aspect
      BY <2>0, <3>1 DEF Disk
    <3>5. Disk'
      BY <2>0, <3>1, <3>3, <3>4 DEF Disk
    <3> QED BY <2>p, <3>1, <3>5, IdleTyped
  <2>10. ASSUME NEW i \in Input, NEW v \in Value, EditConfig(i, v) PROVE TypeInv'
    <3>1. Disk'
      BY <2>0, <2>10 DEF EditConfig, Disk, disk, Config
    <3> QED BY <2>10, <3>1, <2>u DEF EditConfig
  <2>11. ASSUME NEW b \in Binary, Install(b) PROVE TypeInv'
    <3>1. Disk'
      BY <2>0, <2>11 DEF Install, Disk, disk
    <3> QED BY <2>11, <3>1, <2>u DEF Install
  <2>12. ASSUME NEW p \in Process, LockBusy(p) \/ BuildFails(p) \/ Crash(p) PROVE TypeInv'
    BY <2>3, <2>12 DEF LockBusy, BuildFails, Crash
  <2> QED BY <2>1, <2>2, <2>4, <2>5, <2>6, <2>7, <2>8, <2>9, <2>10, <2>11, <2>12, <2>13 DEF Next
<1> QED BY <1>1, <1>2, PTL DEF Spec

(* Every command holds the lock on an inode of its own while it clears,    *)
(* builds and stamps, whichever store the lock's file was cleared with.    *)
THEOREM TypeCorrect == Spec => []TypeOK
BY TypeImplied, TypeInvariant, PTL

-----------------------------------------------------------------------------
(* The graph and the settings that files are discovered by.  Only the index  *)
(* is judged over them, so this is about two stores at once.                 *)

Discovered(cfg, excused) == store["graph"] # None =>
  <<"graph", "inputs">> \in excused \/ store["graph"].made["index"] = cfg["index"]

(* The snapshot speaks for the graph too, and while nobody else was at work  *)
(* since a command judged the stores: where it found neither graph nor index *)
(* to be rebuilt the graph is of its settings; where it did, the graph is    *)
(* still to be compiled or has been.                                         *)
Tells(c) == ~c.stale /\ Stamps(c) =>
  /\ c.pc = "lock" => /\ c.report["graph"] \in {"block", "rebuild", "continue"}
                      /\ c.report["index"] \in {"rebuild", "continue"}
                      /\ c.report["graph"] = "continue" /\ c.report["index"] = "continue" =>
                           Discovered(c.cfg, suspect)
  /\ c.pc = "clear" /\ c.cmd = "upgrade" /\ ~Rebuilds(c.report) => Discovered(c.cfg, suspect \ c.made)
  /\ c.pc = "stamp" \/ (c.pc = "build" /\ c.build = <<"index">>) => Discovered(c.cfg, suspect \ c.made)

DiscoveryStands == /\ snapshot # None => Discovered(snapshot.inputs, suspect)
                   /\ \A p \in Process : Tells(proc[p])

LEMMA GraphAndIndexContinue ==
  ASSUME snapshot # None => Discovered(snapshot.inputs, suspect), NEW b, NEW cfg
  PROVE  /\ Verdict("graph", b, cfg) \in {"block", "rebuild", "continue"}
         /\ Verdict("index", b, cfg) \in {"rebuild", "continue"}
         /\ Verdict("graph", b, cfg) = "continue" /\ Verdict("index", b, cfg) = "continue" =>
              Discovered(cfg, suspect)
<1>1. /\ Verdict("graph", b, cfg) \in {"block", "rebuild", "continue"}
      /\ Verdict("index", b, cfg) \in {"rebuild", "continue"}
  BY DEF Verdict, ByFormat, Default
<1>2. ASSUME Verdict("graph", b, cfg) = "continue", Verdict("index", b, cfg) = "continue",
             store["graph"] # None
      PROVE  snapshot # None /\ snapshot.inputs["index"] = cfg["index"]
  <2>1. Materialized("graph")
    BY <1>2 DEF Materialized, Data, Holder
  <2>2. FormatFits("graph", b)
    BY <1>2, <2>1 DEF Verdict, ByFormat, Default
  <2>3. ~Differs("index", cfg)
    BY <1>2 DEF Verdict
  <2> QED BY <2>2, <2>3 DEF FormatFits, Differs
<1> QED BY <1>1, <1>2 DEF Discovered

LEMMA Actor ==
  ASSUME TypeInv, NEW p \in Process, NEW new, Keeps(p, new) \/ Changes(p, new)
  PROVE  proc'[p] = new
BY DEF TypeInv, Keeps, Changes

LEMMA TellsCarries ==
  ASSUME TypeInv, TypeInv', DiscoveryStands, NEW p \in Process, NEW new,
         \/ Keeps(p, new) /\ UNCHANGED <<store, suspect>>
         \/ Changes(p, new),
         Tells(proc[p])'
  PROVE  \A q \in Process : Tells(proc[q])'
<1> SUFFICES ASSUME NEW q \in Process \ {p} PROVE Tells(proc[q])'
  OBVIOUS
<1>0. new \in CommandState
  BY Actor DEF TypeInv
<1>1. Tells(proc[q])
  BY DEF DiscoveryStands
<1>2. CASE Keeps(p, new) /\ UNCHANGED <<store, suspect>>
  <2>1. proc'[q] = proc[q]
    BY <1>0, <1>2, Others
  <2> QED BY <1>1, <1>2, <2>1 DEF Tells, Discovered
<1>3. CASE Changes(p, new)
  <2>1. Same(proc'[q], proc[q]) /\ (Judging(proc[q]) => proc'[q].stale)
    BY <1>0, <1>3, Others
  <2> QED BY <2>1 DEF Tells, Same, Judging, Stamps
<1> QED BY <1>2, <1>3

LEMMA DiscoveryInvariant == Spec => []DiscoveryStands
<1>1. Init => DiscoveryStands
  <2> SUFFICES ASSUME Init PROVE DiscoveryStands
    OBVIOUS
  <2>1. \A p \in Process : proc[p] = Idle
    BY DEF Init
  <2> QED BY <2>1, IdleTyped DEF Init, DiscoveryStands, Tells
<1>2. TypeInv /\ TypeInv' /\ DiscoveryStands /\ [Next]_vars => DiscoveryStands'
  <2> SUFFICES ASSUME TypeInv, TypeInv', DiscoveryStands, [Next]_vars PROVE DiscoveryStands'
    OBVIOUS
  <2>0. /\ snapshot # None => Discovered(snapshot.inputs, suspect)
        /\ \A p \in Process : Tells(proc[p]) /\ Coherent(proc[p]) /\ proc[p] \in CommandState
    BY DEF DiscoveryStands, TypeInv
  <2>a. ASSUME UNCHANGED <<store, snapshot, suspect>>
        PROVE  (snapshot # None => Discovered(snapshot.inputs, suspect))'
    BY <2>0, <2>a DEF Discovered
  <2>k. ASSUME NEW p \in Process, NEW new, Keeps(p, new), Tells(proc[p])',
               UNCHANGED <<store, snapshot, suspect>>
        PROVE  DiscoveryStands'
    BY <2>a, <2>k, TellsCarries DEF DiscoveryStands
  <2>c. ASSUME NEW p \in Process, NEW new, Changes(p, new), Tells(proc[p])',
               (snapshot # None => Discovered(snapshot.inputs, suspect))'
        PROVE  DiscoveryStands'
    BY <2>c, TellsCarries DEF DiscoveryStands
  <2>i. ASSUME NEW p \in Process, Keeps(p, Idle), UNCHANGED <<store, snapshot, suspect>>
        PROVE  DiscoveryStands'
    <3>1. Tells(proc[p])'
      BY <2>i, Actor, IdleTyped DEF Tells
    <3> QED BY <2>i, <2>k, <3>1
  <2>1. CASE UNCHANGED <<proc, store, snapshot, suspect>>
    BY <2>0, <2>1, <2>a DEF DiscoveryStands, Tells, Discovered
  <2>2. ASSUME NEW p \in Process, NEW cmd \in Command, Start(p, cmd) PROVE DiscoveryStands'
    <3> DEFINE r == Evaluate(binary, config)
               c == proc'[p]
    <3>1. PICK new :
            /\ Keeps(p, new)
            /\ new = [Idle EXCEPT !.pc = "lock", !.cmd = cmd,
                        !.force = cmd = "init" /\ Blocked(r) # {},
                        !.bin = binary, !.cfg = config,
                        !.blind = cmd \in {"init", "upgrade"} /\ snapshot = None,
                        !.report = IF cmd \in {"init", "upgrade"} THEN r ELSE None]
      BY <2>2 DEF Start
    <3>2. UNCHANGED <<store, snapshot, suspect>>
      BY <2>2 DEF Start, disk
    <3>3. /\ c.pc = "lock" /\ c.cfg = config /\ c.cmd = cmd
          /\ cmd \in {"init", "upgrade"} => c.report = r
      <4>1. c = new
        BY <3>1, Actor
      <4> HIDE DEF c
      <4> QED BY <3>1, <4>1 DEF Idle
    <3>4. r["graph"] = Verdict("graph", binary, config) /\ r["index"] = Verdict("index", binary, config)
      BY EvaluationTyped DEF Store
    <3>5. /\ r["graph"] \in {"block", "rebuild", "continue"}
          /\ r["index"] \in {"rebuild", "continue"}
          /\ r["graph"] = "continue" /\ r["index"] = "continue" => Discovered(config, suspect)
      BY <2>0, <3>4, GraphAndIndexContinue
    <3> HIDE DEF r, c
    <3>6. Tells(proc[p])'
      BY <3>2, <3>3, <3>5 DEF Tells, Stamps, Discovered, c
    <3> QED BY <2>k, <3>1, <3>2, <3>6
  <2>3. ASSUME NEW p \in Process, LockBusy(p) \/ BuildFails(p) \/ Crash(p) PROVE DiscoveryStands'
    BY <2>3, <2>i DEF LockBusy, BuildFails, Crash, disk
  <2>4. ASSUME NEW p \in Process, Lock(p) PROVE DiscoveryStands'
    <3> DEFINE c == proc[p]
               d == proc'[p]
               held == [c EXCEPT !.ino = Inode]
    <3>1. PICK new : Changes(p, new)
      BY <2>4 DEF Lock
    <3>2. c.pc = "lock" /\ UNCHANGED <<store, snapshot, suspect>>
      BY <2>4 DEF Lock
    <3>3. c \in CommandState /\ Coherent(c) /\ Tells(c)
      BY <2>0
    <3>4. CASE c.cmd = "upgrade"
      <4>1. ~c.force /\ Stamps(c) /\ c.report \in [Store -> Action] /\ Blocked(c.report) = {} /\ c.made = {}
        BY <3>2, <3>3, <3>4 DEF Coherent, Stamps
      <4>2. PICK upd : /\ Changes(p, upd)
                       /\ upd = [held EXCEPT !.pc = "clear", !.todo = ToClear(c.report),
                                             !.report = c.report, !.blind = c.blind, !.stale = c.stale]
        <5>1. held.blind = c.blind /\ held.stale = c.stale
          BY <3>3 DEF CommandState
        <5> QED BY <2>4, <3>4, <4>1, <5>1 DEF Lock
      <4>3. d = upd
        BY <4>2, Actor
      <4> HIDE DEF c, d
      <4>4. /\ d.pc = "clear" /\ d.report = c.report /\ d.cfg = c.cfg /\ d.made = c.made
            /\ d.stale = c.stale /\ d.cmd = c.cmd
        BY <3>3, <4>2, <4>3 DEF CommandState
      <4>5. ~Rebuilds(c.report) => c.report["graph"] # "rebuild" /\ c.report["index"] # "rebuild"
        BY DEF Rebuilds, Store
      <4>6. c.report["graph"] # "block"
        BY <4>1 DEF Blocked, Store
      <4>7. suspect \ d.made = suspect
        BY <4>1, <4>4
      <4>8. ~c.stale /\ ~Rebuilds(c.report) => Discovered(c.cfg, suspect)
        BY <3>2, <3>3, <4>1, <4>5, <4>6 DEF Tells
      <4>9. Tells(proc[p])'
        BY <3>2, <4>4, <4>7, <4>8 DEF Tells, Discovered, d
      <4> QED BY <2>a, <2>c, <3>1, <3>2, <4>9
    <3>5. CASE c.cmd # "upgrade"
      <4> DEFINE r == IF c.cmd = "sync" THEN Evaluate(c.bin, c.cfg) ELSE c.report
      <4>1. PICK upd :
              /\ Changes(p, upd)
              /\ upd = CASE c.force ->
                              [held EXCEPT !.pc = "force", !.todo = Blocked(r) \cup {"state"}]
                         [] c.cmd \in {"upgrade", "sync"} \/ (c.cmd = "init" /\ ~c.force) ->
                              [held EXCEPT !.pc = "clear", !.todo = ToClear(r), !.report = r,
                                           !.blind = IF c.cmd = "sync" THEN snapshot = None ELSE held.blind,
                                           !.stale = IF c.cmd = "sync" THEN FALSE ELSE held.stale]
                         [] OTHER -> [held EXCEPT !.pc = "build", !.build = Builds[c.cmd], !.blind = FALSE]
        BY <2>4 DEF Lock
      <4>0. d = upd
        BY <4>1, Actor
      <4> HIDE DEF c, d, r
      <4>4. c.force => d.cmd = c.cmd /\ d.pc = "force"
        <5> SUFFICES ASSUME c.force PROVE d.cmd = c.cmd /\ d.pc = "force"
          OBVIOUS
        <5>1. d = [held EXCEPT !.pc = "force", !.todo = Blocked(r) \cup {"state"}]
          BY <3>3, <4>0, <4>1 DEF Coherent
        <5> QED BY <3>3, <5>1 DEF CommandState
      <4>5. ~c.force /\ c.cmd \in {"sync", "init"} => d.cmd = c.cmd /\ d.pc = "clear"
        <5> SUFFICES ASSUME ~c.force /\ c.cmd \in {"sync", "init"} PROVE d.cmd = c.cmd /\ d.pc = "clear"
          OBVIOUS
        <5> DEFINE blind == IF c.cmd = "sync" THEN snapshot = None ELSE held.blind
                   stale == IF c.cmd = "sync" THEN FALSE ELSE held.stale
        <5>1. d = [held EXCEPT !.pc = "clear", !.todo = ToClear(r), !.report = r,
                               !.blind = blind, !.stale = stale]
          BY <4>0, <4>1
        <5> HIDE DEF blind, stale
        <5> QED BY <3>3, <5>1 DEF CommandState
      <4>6. ~c.force /\ c.cmd \in {"reconcile", "note", "embed"} =>
              d.cmd = c.cmd /\ d.pc = "build" /\ ~Stamps(d)
        <5> SUFFICES ASSUME ~c.force /\ c.cmd \in {"reconcile", "note", "embed"}
                     PROVE  d.cmd = c.cmd /\ d.pc = "build" /\ ~Stamps(d)
          OBVIOUS
        <5>1. d = [held EXCEPT !.pc = "build", !.build = Builds[c.cmd], !.blind = FALSE]
          BY <4>0, <4>1
        <5>2. d.pc = "build" /\ d.cmd = c.cmd
          BY <3>3, <5>1 DEF CommandState
        <5> QED BY <5>2 DEF Stamps
      <4>2. d.cmd = c.cmd /\ d.pc \in {"force", "clear", "build"} /\ (d.pc = "build" => ~Stamps(d))
        BY <3>2, <3>3, <3>5, <4>4, <4>5, <4>6 DEF Coherent, Command
      <4>3. Tells(proc[p])'
        BY <3>5, <4>2 DEF Tells, d
      <4> QED BY <2>a, <2>c, <3>1, <3>2, <4>3
    <3> QED BY <3>4, <3>5
  <2>5. ASSUME NEW p \in Process, Clear(p) PROVE DiscoveryStands'
    <3> DEFINE c == proc[p]
               d == proc'[p]
               s == CHOOSE t \in c.todo : \A u \in c.todo : Rank[t] <= Rank[u]
    <3>1. /\ Changes(p, [c EXCEPT !.todo = c.todo \ {s}]) /\ c.pc \in {"force", "clear"}
          /\ suspect' = {x \in suspect : Holder[x[1]] # s}
          /\ snapshot' \in {snapshot, None}
          /\ store' = store \/ store' = [t \in Data |-> IF Holder[t] = s THEN None ELSE store[t]]
      BY <2>5 DEF Clear
    <3>2. c \in CommandState /\ Coherent(c) /\ Tells(c)
      BY <2>0
    <3>3. d = [c EXCEPT !.todo = c.todo \ {s}]
      BY <3>1, Actor
    <3>s. s = "state" => store' = store
      BY <2>5 DEF Clear
    <3> HIDE DEF c, d, s
    <3>4. /\ d.pc = c.pc /\ d.cmd = c.cmd /\ d.cfg = c.cfg /\ d.stale = c.stale /\ d.made = c.made
          /\ d.report = c.report
      BY <3>2, <3>3 DEF CommandState
    <3>5. \A cfg, made : Discovered(cfg, suspect \ made) => Discovered(cfg, suspect \ made)'
      <4>1. "graph" \in Data /\ Holder["graph"] = "graph"
        BY DEF Data, Holder
      <4>2. CASE s = "graph" /\ store' # store
        <5>1. store'["graph"] = None
          BY <3>1, <4>1, <4>2
        <5> QED BY <5>1 DEF Discovered
      <4>3. CASE s # "graph"
        <5>1. store'["graph"] = store["graph"]
          BY <3>1, <4>1, <4>3
        <5>2. <<"graph", "inputs">> \in suspect => <<"graph", "inputs">> \in suspect'
          BY <3>1, <4>1, <4>3
        <5> QED BY <5>1, <5>2 DEF Discovered
      <4>4. CASE s = "graph" /\ store' = store
        <5>1. store' = [t \in Data |-> IF Holder[t] = s THEN None ELSE store[t]]
          BY <2>5, <4>4 DEF Clear, s, c
        <5>2. store'["graph"] = None
          BY <4>1, <4>4, <5>1
        <5> QED BY <5>2 DEF Discovered
      <4> QED BY <4>2, <4>3, <4>4
    <3>6. (snapshot # None => Discovered(snapshot.inputs, suspect))'
      <4>1. CASE snapshot' = None
        BY <4>1
      <4>2. CASE snapshot' = snapshot /\ snapshot # None
        <5> DEFINE none == suspect \ suspect
                   before == snapshot.inputs
        <5>1. suspect \ none = suspect /\ suspect' \ none = suspect'
          OBVIOUS
        <5>2. Discovered(before, suspect \ none)
          BY <2>0, <4>2, <5>1
        <5>3. snapshot'.inputs = before
          BY <4>2
        <5> HIDE DEF none, before
        <5>4. store'["graph"] # None => <<"graph", "inputs">> \in suspect' \/ store'["graph"].made["index"] = before["index"]
          BY <3>5, <5>1, <5>2 DEF Discovered
        <5> QED BY <4>2, <5>3, <5>4 DEF Discovered
      <4> QED BY <3>1, <4>1, <4>2
    <3>7. Tells(proc[p])'
      BY <3>1, <3>2, <3>4, <3>5 DEF Tells, Stamps, Discovered, d
    <3> QED BY <2>c, <3>1, <3>6, <3>7 DEF c
  <2>6. ASSUME NEW p \in Process, ForceCleared(p) PROVE DiscoveryStands'
    <3> DEFINE c == proc[p]
               d == proc'[p]
               r == Evaluate(c.bin, c.cfg)
    <3>1. PICK new :
            /\ Keeps(p, new)
            /\ \/ new = Idle
               \/ new = [c EXCEPT !.pc = "clear", !.todo = ToClear(r), !.report = r,
                                  !.blind = snapshot = None, !.stale = FALSE]
      BY <2>6 DEF ForceCleared
    <3>2. c.pc = "force" /\ UNCHANGED <<store, snapshot, suspect>>
      BY <2>6 DEF ForceCleared, disk
    <3>3. c \in CommandState /\ c.cmd = "init"
      BY <2>0, <3>2 DEF Coherent
    <3>6. d = new
      BY <3>1, Actor
    <3> HIDE DEF c, d, r
    <3>7. d = Idle \/ (d.pc = "clear" /\ d.cmd = "init")
      BY <3>1, <3>3, <3>6 DEF CommandState
    <3>4. proc'[p] = Idle \/ (proc'[p].pc = "clear" /\ proc'[p].cmd = "init")
      BY <3>7 DEF d
    <3>5. Tells(proc[p])'
      BY <3>4, IdleTyped DEF Tells
    <3> QED BY <2>k, <3>1, <3>2, <3>5
  <2>7. ASSUME NEW p \in Process, Cleared(p) PROVE DiscoveryStands'
    <3> DEFINE c == proc[p]
               d == proc'[p]
    <3>1. PICK b \in {<<>>, <<"graph", "index">>, <<"overlay", "index", "graph">>} :
            /\ c.cmd = "init" => b = <<"overlay", "index", "graph">>
            /\ c.cmd = "upgrade" => b = IF Rebuilds(c.report) THEN <<"graph", "index">> ELSE <<>>
            /\ Keeps(p, IF b = <<>> /\ c.cmd = "sync" THEN Idle
                        ELSE [c EXCEPT !.pc = IF b = <<>> THEN "stamp" ELSE "build",
                                       !.build = b, !.report = None, !.blind = FALSE,
                                       !.force = FALSE, !.stale = c.stale /\ Stamps(c)])
      BY <2>7 DEF Cleared
    <3>2. c.pc = "clear" /\ c.todo = {} /\ UNCHANGED <<store, snapshot, suspect>>
      BY <2>7 DEF Cleared, disk
    <3>3. c \in CommandState /\ Coherent(c) /\ Tells(c)
      BY <2>0
    <3>4. CASE b = <<>> /\ c.cmd = "sync"
      BY <2>i, <3>1, <3>2, <3>4
    <3>5. CASE ~(b = <<>> /\ c.cmd = "sync")
      <4>1. PICK new : /\ Keeps(p, new)
                       /\ new = [c EXCEPT !.pc = IF b = <<>> THEN "stamp" ELSE "build",
                                          !.build = b, !.report = None, !.blind = FALSE,
                                          !.force = FALSE, !.stale = c.stale /\ Stamps(c)]
        BY <3>1, <3>5
      <4>2. d = new
        BY <4>1, Actor
      <4> HIDE DEF c, d
      <4>3. /\ d.pc = (IF b = <<>> THEN "stamp" ELSE "build") /\ d.build = b /\ d.cfg = c.cfg
            /\ d.made = c.made /\ d.stale = (c.stale /\ Stamps(c)) /\ d.cmd = c.cmd
        BY <3>3, <4>1, <4>2 DEF CommandState
      <4>4. b # <<"index">>
        BY <3>1
      <4>5. Stamps(d) /\ ~d.stale => ~c.stale /\ Stamps(c)
        BY <3>3, <4>3 DEF Stamps, CommandState
      <4>6. Stamps(c) /\ b = <<>> => c.cmd = "upgrade" /\ ~Rebuilds(c.report)
        BY <3>1 DEF Stamps
      <4>7. Tells(proc[p])'
        BY <3>2, <3>3, <4>3, <4>4, <4>5, <4>6 DEF Tells, Discovered, d
      <4> QED BY <2>k, <3>2, <4>1, <4>7
    <3> QED BY <3>4, <3>5
  <2>8. ASSUME NEW p \in Process, Build(p) PROVE DiscoveryStands'
    <3> DEFINE c == proc[p]
               d == proc'[p]
    <3>1. PICK s \in Data, aspects \in SUBSET (Data \X Aspect), new \in CommandState :
            BuildOf(p, s, aspects, new)
      BY <2>8, BuildStep
    <3>2. /\ Changes(p, new) /\ snapshot' = snapshot /\ s = Head(c.build) /\ c.pc = "build"
          /\ aspects \subseteq Both(s)
          /\ suspect' = (IF s = "vectors" THEN suspect \ Both(s) ELSE suspect) \cup aspects
          /\ \A t \in Data \ {s} : store'[t] = store[t]
          /\ s = "graph" => aspects = {<<s, "inputs">>} /\ store'[s].made = c.cfg
      BY <3>1 DEF BuildOf
    <3>3. \/ new.pc = "idle"
          \/ /\ new.pc = (IF Tail(c.build) = <<>> THEN "stamp" ELSE "build")
             /\ new.build = Tail(c.build) /\ new.cmd = c.cmd
             /\ new.cfg = c.cfg /\ new.stale = c.stale
             /\ Stamps(new) => new.made = c.made \cup aspects
      BY <3>1 DEF BuildOf
    <3>4. d = new
      BY <3>2, Actor
    <3>5. c \in CommandState /\ Coherent(c) /\ Tells(c)
      BY <2>0
    <3>6. Stamps(c) => c.build \in Queues
      BY <3>2, <3>5 DEF Coherent
    <3> HIDE DEF c, d
    <3>7. "graph" \in Data /\ \A t : <<"graph", "inputs">> \in Both(t) <=> t = "graph"
      BY DEF Data, Both, Aspect
    <3>8. s # "graph" => /\ store'["graph"] = store["graph"] /\ <<"graph", "inputs">> \notin aspects
                         /\ <<"graph", "inputs">> \in suspect' <=> <<"graph", "inputs">> \in suspect
      BY <3>2, <3>7
    <3>9. (snapshot # None => Discovered(snapshot.inputs, suspect))'
      <4>1. CASE s = "graph"
        BY <3>2, <4>1 DEF Discovered
      <4>2. CASE s # "graph"
        BY <2>0, <3>2, <3>8, <4>2 DEF Discovered
      <4> QED BY <4>1, <4>2
    <3>10. Tells(proc[p])'
      <4> SUFFICES ASSUME ~d.stale, Stamps(d),
                          d.pc = "stamp" \/ (d.pc = "build" /\ d.build = <<"index">>)
                   PROVE  Discovered(proc[p].cfg, suspect \ proc[p].made)'
        BY <3>3, <3>4 DEF Tells, d
      <4>1. /\ d.cmd = c.cmd /\ d.cfg = c.cfg /\ d.stale = c.stale /\ d.made = c.made \cup aspects
            /\ d.build = Tail(c.build) /\ (d.pc = "stamp" => Tail(c.build) = <<>>)
        BY <3>3, <3>4
      <4>2. Stamps(c) /\ c.build \in Queues
        BY <3>6, <4>1 DEF Stamps
      <4>3. CASE s = "graph"
        <5>1. store'["graph"].made["index"] = c.cfg["index"]
          BY <3>2, <4>3
        <5> QED BY <4>1, <5>1 DEF Discovered, d
      <4>4. CASE s # "graph"
        <5>0. <<>> \notin Queues
          <6>1. /\ <<"overlay", "index", "graph">> # <<>> /\ <<"index", "graph">> # <<>>
                /\ <<"graph">> # <<>> /\ <<"graph", "index">> # <<>> /\ <<"index">> # <<>>
            OBVIOUS
          <6> QED BY <6>1, Zenon DEF Queues
        <5>3. Head(c.build) # "graph"
          BY <3>2, <4>4
        <5>4. c.build # <<"index">> => Tail(c.build) \in Queues \ {<<"index">>}
          BY <4>2, <5>3, QueueShrinks
        <5>1. c.build = <<"index">>
          BY <4>1, <5>0, <5>4
        <5>2. Discovered(c.cfg, suspect \ c.made)
          BY <3>2, <3>5, <4>1, <4>2, <5>1 DEF Tells
        <5> QED BY <3>8, <4>1, <4>4, <5>2 DEF Discovered, d
      <4> QED BY <4>3, <4>4
    <3> QED BY <2>c, <3>2, <3>9, <3>10
  <2>13. ASSUME NEW p \in Process, OpenGraph(p) PROVE DiscoveryStands'
    <3> DEFINE c == proc[p]
               d == proc'[p]
    <3>1. PICK new \in CommandState : Opening(p, new)
      BY <2>13, OpenStep
    <3>2. /\ Changes(p, new) /\ suspect' = suspect \cup Both("graph")
          /\ new.pc = "build" /\ new.cmd = c.cmd /\ new.build = c.build
          /\ Stamps(c) => c.build # <<"index">>
      BY <3>1 DEF Opening
    <3>3. d = new
      BY <3>2, Actor
    <3>4. (snapshot # None => Discovered(snapshot.inputs, suspect))'
      BY <3>2 DEF Discovered, Both, Aspect
    <3> HIDE DEF c, d
    <3>5. Tells(proc[p])'
      BY <3>2, <3>3 DEF Tells, Stamps, d
    <3> QED BY <2>c, <3>2, <3>4, <3>5
  <2>9. ASSUME NEW p \in Process, Stamp(p) PROVE DiscoveryStands'
    <3> DEFINE c == proc[p]
    <3>1. /\ Changes(p, Idle) /\ c.pc = "stamp" /\ store' = store
          /\ snapshot' = [fmt |-> Expected[c.bin], inputs |-> c.cfg]
          /\ suspect' = IF c.stale THEN Data \X Aspect ELSE suspect \ c.made
      BY <2>9 DEF Stamp
    <3>2. Coherent(c) /\ Tells(c)
      BY <2>0
    <3> HIDE DEF c
    <3>5. (snapshot # None => Discovered(snapshot.inputs, suspect))'
      <4>1. CASE c.stale
        <5>1. <<"graph", "inputs">> \in suspect'
          BY <3>1, <4>1 DEF Data, Aspect
        <5> QED BY <5>1 DEF Discovered
      <4>2. CASE ~c.stale
        <5>1. Discovered(c.cfg, suspect \ c.made)
          BY <3>1, <3>2, <4>2 DEF Tells, Coherent
        <5>2. snapshot'.inputs = c.cfg /\ suspect' = suspect \ c.made
          BY <3>1, <4>2
        <5> QED BY <3>1, <5>1, <5>2 DEF Discovered
      <4> QED BY <4>1, <4>2
    <3>6. Tells(proc[p])'
      BY <3>1, Actor, IdleTyped DEF Tells
    <3> QED BY <2>c, <3>1, <3>5, <3>6
  <2>10. ASSUME NEW i \in Input, NEW v \in Value, EditConfig(i, v) PROVE DiscoveryStands'
    BY <2>1, <2>10 DEF EditConfig, disk
  <2>11. ASSUME NEW b \in Binary, Install(b) PROVE DiscoveryStands'
    BY <2>1, <2>11 DEF Install, disk
  <2>12. CASE UNCHANGED vars
    BY <2>1, <2>12 DEF vars
  <2> QED BY <2>2, <2>3, <2>4, <2>5, <2>6, <2>7, <2>8, <2>9, <2>10, <2>11, <2>12, <2>13 DEF Next
<1> QED BY <1>1, <1>2, TypeInvariant, PTL DEF Spec

-----------------------------------------------------------------------------
(* What the snapshot and a command's judgement are worth.  A store is sound *)
(* for a binary and a configuration if it has the format and was made from *)
(* the inputs, as far as no aspect is excused; it is unsound if the        *)
(* opposite is certain.                                                    *)

Sound(s, b, cfg, excused) == store[s] # None =>
  /\ <<s, "format">> \in excused \/ store[s].fmt = Expected[b][Holder[s]]
  /\ <<s, "inputs">> \in excused \/ \A i \in Judged[s] : store[s].made[i] = cfg[i]

Unsound(s, b, cfg) == store[s] # None =>
  \/ suspect \cap Both(s) # {}
  \/ store[s].fmt # Expected[b][Holder[s]]
  \/ \E i \in Judged[s] : store[s].made[i] # cfg[i]

(* The snapshot speaks for everything that is not suspect.                 *)
Accounted == snapshot # None => \A s \in Data : store[s] # None =>
  /\ <<s, "format">> \in suspect \/ store[s].fmt = snapshot.fmt[Holder[s]]
  /\ <<s, "inputs">> \in suspect \/ \A i \in Judged[s] : store[s].made[i] = snapshot.inputs[i]

(* While nobody else was at work since a command judged the stores, what   *)
(* it found sound still is, what it goes on to clear is not, and what it   *)
(* has made itself is sound for its own binary and configuration.          *)
Within(stores) == {s \in Data : Holder[s] \in stores}

Stands(c) == ~c.stale =>
  /\ c.pc = "lock" /\ Stamps(c) => \A s \in Data :
       /\ c.report[Holder[s]] = "continue" => Sound(s, c.bin, c.cfg, suspect)
       /\ c.report[Holder[s]] # "continue" /\ ~c.blind => Unsound(s, c.bin, c.cfg)
  /\ c.pc \in {"force", "clear"} /\ ~c.blind =>
       \A s \in Within(c.todo) : Unsound(s, c.bin, c.cfg)
  /\ c.pc \in {"clear", "build", "stamp"} /\ Stamps(c) =>
       \A s \in Data \ Within(c.todo) : Sound(s, c.bin, c.cfg, suspect \ c.made)

JudgementStands == Accounted /\ \A p \in Process : Stands(proc[p])

LEMMA HolderTyped == \A s \in Data : Holder[s] \in Store /\ Holder[s] # "state"
BY DEF Data, Holder, Store

(* The decision table is right about everything the snapshot speaks for.   *)
LEMMA VerdictIsRight ==
  ASSUME TypeInv, Accounted, NEW b \in Binary, NEW cfg \in Config, NEW s \in Data
  PROVE  /\ Verdict(Holder[s], b, cfg) = "continue" => Sound(s, b, cfg, suspect)
         /\ Verdict(Holder[s], b, cfg) # "continue" /\ snapshot # None => Unsound(s, b, cfg)
<1>1. CASE store[s] = None
  BY <1>1 DEF Sound, Unsound
<1>2. CASE store[s] # None
  <2> DEFINE h == Holder[s]
  <2>0. /\ \/ h = "graph" /\ Judged[s] = {"graph", "history"}
           \/ h = "overlay" /\ Judged[s] = {"graph", "history"}
           \/ h = "index" /\ Judged[s] = {"index"}
        /\ h \in Store
    BY DEF Data, Holder, Judged, Store
  <2>1. Materialized(h)
    BY <1>2, HolderTyped DEF Materialized
  <2> HIDE DEF h
  <2>2. Verdict(h, b, cfg) = "continue" =>
          FormatFits(h, b) /\ \A i \in Judged[s] : ~Differs(i, cfg)
    BY <2>0, <2>1 DEF Verdict, ByFormat, Default
  <2>3. Verdict(h, b, cfg) # "continue" =>
          ~FormatFits(h, b) \/ \E i \in Judged[s] : Differs(i, cfg)
    BY <2>0, <2>1 DEF Verdict, ByFormat
  <2>4. ASSUME FormatFits(h, b), \A i \in Judged[s] : ~Differs(i, cfg)
        PROVE  Sound(s, b, cfg, suspect)
    BY <1>2, <2>4 DEF Sound, FormatFits, Differs, Accounted, h
  <2>5. ASSUME snapshot # None, ~FormatFits(h, b) \/ \E i \in Judged[s] : Differs(i, cfg)
        PROVE  Unsound(s, b, cfg)
    <3> SUFFICES ASSUME suspect \cap Both(s) = {},
                        store[s].fmt = Expected[b][h],
                        \A i \in Judged[s] : store[s].made[i] = cfg[i]
                 PROVE  FALSE
      BY DEF Unsound, h
    <3>1. <<s, "format">> \notin suspect /\ <<s, "inputs">> \notin suspect
      BY DEF Both, Aspect
    <3> QED BY <1>2, <2>5, <3>1 DEF FormatFits, Differs, Accounted, h
  <2>6. Verdict(h, b, cfg) = "continue" => Sound(s, b, cfg, suspect)
    BY <2>2, <2>4
  <2>7. Verdict(h, b, cfg) # "continue" /\ snapshot # None => Unsound(s, b, cfg)
    BY <2>3, <2>5
  <2> QED BY <2>6, <2>7 DEF h
<1> QED BY <1>1, <1>2

LEMMA StandsCarries ==
  ASSUME TypeInv, TypeInv', JudgementStands, NEW p \in Process, NEW new,
         \/ Keeps(p, new) /\ UNCHANGED <<store, suspect>>
         \/ Changes(p, new),
         Stands(proc[p])'
  PROVE  \A q \in Process : Stands(proc[q])'
<1> SUFFICES ASSUME NEW q \in Process \ {p} PROVE Stands(proc[q])'
  OBVIOUS
<1>0. new \in CommandState
  BY Actor DEF TypeInv
<1>1. Stands(proc[q])
  BY DEF JudgementStands
<1>2. CASE Keeps(p, new) /\ UNCHANGED <<store, suspect>>
  <2>1. proc'[q] = proc[q]
    BY <1>0, <1>2, Others
  <2> QED BY <1>1, <1>2, <2>1 DEF Stands, Sound, Unsound
<1>3. CASE Changes(p, new)
  <2>1. Same(proc'[q], proc[q]) /\ (Judging(proc[q]) => proc'[q].stale)
    BY <1>0, <1>3, Others
  <2>2. proc[q].pc = "force" => Stamps(proc[q])
    BY DEF TypeInv, Coherent, Stamps
  <2>3. CASE Judging(proc[q])
    BY <2>1, <2>3 DEF Stands
  <2>4. CASE ~Judging(proc[q])
    <3>1. ~Stamps(proc'[q]) /\ proc'[q].pc \notin {"force", "clear"}
      BY <2>1, <2>2, <2>4 DEF Judging, Same, Stamps
    <3> QED BY <3>1 DEF Stands, Stamps
  <2> QED BY <2>3, <2>4
<1> QED BY <1>2, <1>3

LEMMA IdleStands ==
  ASSUME NEW p, proc'[p] = Idle PROVE Stands(proc[p])'
BY IdleTyped DEF Stands

LEMMA JudgementInvariant == Spec => []JudgementStands
<1>1. Init => JudgementStands
  <2> SUFFICES ASSUME Init PROVE JudgementStands
    OBVIOUS
  <2>1. \A p \in Process : proc[p] = Idle
    BY DEF Init
  <2> QED BY <2>1, IdleTyped DEF Init, JudgementStands, Accounted, Stands
<1>2. TypeInv /\ TypeInv' /\ DiscoveryStands /\ JudgementStands /\ [Next]_vars => JudgementStands'
  <2> SUFFICES ASSUME TypeInv, TypeInv', DiscoveryStands, JudgementStands, [Next]_vars
               PROVE  JudgementStands'
    OBVIOUS
  <2>0. /\ Accounted /\ Disk
        /\ \A p \in Process : Stands(proc[p]) /\ Coherent(proc[p]) /\ proc[p] \in CommandState
    BY DEF JudgementStands, TypeInv
  <2>a. ASSUME UNCHANGED <<store, snapshot, suspect>> PROVE Accounted'
    BY <2>0, <2>a DEF Accounted
  <2>k. ASSUME NEW p \in Process, NEW new, Keeps(p, new), Stands(proc[p])',
               UNCHANGED <<store, snapshot, suspect>>
        PROVE  JudgementStands'
    BY <2>a, <2>k, StandsCarries DEF JudgementStands
  <2>c. ASSUME NEW p \in Process, NEW new, Changes(p, new), Stands(proc[p])', Accounted'
        PROVE  JudgementStands'
    BY <2>c, StandsCarries DEF JudgementStands
  <2>i. ASSUME NEW p \in Process, Keeps(p, Idle), UNCHANGED <<store, snapshot, suspect>>
        PROVE  JudgementStands'
    BY <2>i, <2>k, Actor, IdleStands
  <2>1. CASE UNCHANGED <<proc, store, snapshot, suspect>>
    BY <2>0, <2>1, <2>a DEF JudgementStands, Stands, Sound, Unsound
  <2>2. ASSUME NEW p \in Process, NEW cmd \in Command, Start(p, cmd) PROVE JudgementStands'
    <3> DEFINE r == Evaluate(binary, config)
               c == proc'[p]
    <3>1. PICK new :
            /\ Keeps(p, new)
            /\ new = [Idle EXCEPT !.pc = "lock", !.cmd = cmd,
                        !.force = cmd = "init" /\ Blocked(r) # {},
                        !.bin = binary, !.cfg = config,
                        !.blind = cmd \in {"init", "upgrade"} /\ snapshot = None,
                        !.report = IF cmd \in {"init", "upgrade"} THEN r ELSE None]
      BY <2>2 DEF Start
    <3>2. UNCHANGED <<store, snapshot, suspect>>
      BY <2>2 DEF Start, disk
    <3>3. /\ c.pc = "lock" /\ c.bin = binary /\ c.cfg = config /\ c.cmd = cmd
          /\ cmd \in {"init", "upgrade"} => c.report = r /\ (~c.blind => snapshot # None)
      <4>1. c = new
        BY <3>1, Actor
      <4> HIDE DEF c
      <4> QED BY <3>1, <4>1 DEF Idle
    <3>4. binary \in Binary /\ config \in Config
      BY <2>0 DEF Disk
    <3>5. \A s \in Data :
            /\ r[Holder[s]] = "continue" => Sound(s, binary, config, suspect)
            /\ r[Holder[s]] # "continue" /\ snapshot # None => Unsound(s, binary, config)
      BY <2>0, <3>4, EvaluationTyped, VerdictIsRight, HolderTyped
    <3> HIDE DEF r, c
    <3>6. Stands(proc[p])'
      BY <3>2, <3>3, <3>5 DEF Stands, Stamps, Sound, Unsound, c
    <3> QED BY <2>k, <3>1, <3>2, <3>6
  <2>3. ASSUME NEW p \in Process, LockBusy(p) \/ BuildFails(p) \/ Crash(p) PROVE JudgementStands'
    BY <2>3, <2>i DEF LockBusy, BuildFails, Crash, disk
  <2>4. ASSUME NEW p \in Process, Lock(p) PROVE JudgementStands'
    <3> DEFINE c == proc[p]
               d == proc'[p]
               r == IF c.cmd = "sync" THEN Evaluate(c.bin, c.cfg) ELSE c.report
               held == [c EXCEPT !.ino = Inode]
    <3>1. PICK new :
            /\ Changes(p, new)
            /\ new = CASE c.force ->
                            [held EXCEPT !.pc = "force", !.todo = Blocked(r) \cup {"state"}]
                       [] c.cmd \in {"upgrade", "sync"} \/ (c.cmd = "init" /\ ~c.force) ->
                            [held EXCEPT !.pc = "clear", !.todo = ToClear(r), !.report = r,
                                         !.blind = IF c.cmd = "sync" THEN snapshot = None ELSE held.blind,
                                         !.stale = IF c.cmd = "sync" THEN FALSE ELSE held.stale]
                       [] OTHER -> [held EXCEPT !.pc = "build", !.build = Builds[c.cmd], !.blind = FALSE]
      BY <2>4 DEF Lock
    <3>2. c.pc = "lock" /\ UNCHANGED <<store, snapshot, suspect>>
      BY <2>4 DEF Lock
    <3>3. c \in CommandState /\ Coherent(c) /\ Stands(c)
      BY <2>0
    <3>4. d = new
      BY <3>1, Actor
    <3> HIDE DEF c, d, r
    <3>5. CASE c.force
      <4>1. d = [held EXCEPT !.pc = "force", !.todo = Blocked(r) \cup {"state"}]
        BY <3>1, <3>3, <3>4, <3>5 DEF Coherent
      <4>2. /\ d.pc = "force" /\ d.todo = Blocked(r) \cup {"state"} /\ d.bin = c.bin
            /\ d.cfg = c.cfg /\ d.blind = c.blind /\ d.stale = c.stale
        BY <3>3, <4>1 DEF CommandState
      <4>3. r = c.report /\ Stamps(c)
        BY <3>3, <3>5 DEF Coherent, Stamps, r
      <4>4. \A s \in Within(d.todo) : c.report[Holder[s]] # "continue"
        BY <4>2, <4>3, HolderTyped DEF Within, Blocked
      <4>5. Stands(proc[p])'
        BY <3>2, <3>3, <4>2, <4>3, <4>4 DEF Stands, Unsound, Within, d
      <4> QED BY <2>a, <2>c, <3>1, <3>2, <4>5
    <3>6. CASE c.cmd \in {"upgrade", "init"} /\ ~c.force
      <4>1. d = [held EXCEPT !.pc = "clear", !.todo = ToClear(r), !.report = r,
                             !.blind = held.blind, !.stale = held.stale]
        BY <3>1, <3>4, <3>6
      <4>2. /\ d.pc = "clear" /\ d.todo = ToClear(r) /\ d.bin = c.bin /\ d.cmd = c.cmd
            /\ d.cfg = c.cfg /\ d.blind = c.blind /\ d.stale = c.stale /\ d.made = c.made
        BY <3>3, <4>1 DEF CommandState
      <4>3. r = c.report /\ Stamps(c) /\ Blocked(r) = {} /\ r \in [Store -> Action] /\ c.made = {}
        BY <3>2, <3>3, <3>6 DEF Coherent, Stamps, r
      <4>4. /\ \A s \in Within(d.todo) : c.report[Holder[s]] # "continue"
            /\ \A s \in Data \ Within(d.todo) : c.report[Holder[s]] = "continue"
        BY <4>2, <4>3, HolderTyped DEF Within, Blocked, ToClear
      <4>5. suspect \ d.made = suspect
        BY <4>2, <4>3
      <4>7. ~c.stale => /\ \A s \in Data \ Within(d.todo) : Sound(s, c.bin, c.cfg, suspect)
                        /\ ~c.blind => \A s \in Within(d.todo) : Unsound(s, c.bin, c.cfg)
        BY <3>2, <3>3, <4>3, <4>4 DEF Stands, Within
      <4>8. /\ \A s \in Data \ Within(d.todo) : Sound(s, c.bin, c.cfg, suspect) =>
                 Sound(s, d.bin, d.cfg, suspect \ d.made)
            /\ \A s \in Data : Unsound(s, c.bin, c.cfg) => Unsound(s, d.bin, d.cfg)
        BY <4>2, <4>5 DEF Sound, Unsound
      <4>6. Stands(proc[p])'
        <5> USE DEF d
        <5>1. UNCHANGED <<store, suspect>>
          BY <3>2
        <5> SUFFICES ASSUME ~d.stale
                     PROVE  /\ ~d.blind => \A s \in Within(d.todo) : Unsound(s, proc[p].bin, proc[p].cfg)'
                            /\ \A s \in Data \ Within(d.todo) : Sound(s, proc[p].bin, proc[p].cfg, suspect \ proc[p].made)'
          BY <4>2 DEF Stands, Within
        <5> QED BY <5>1, <4>2, <4>7, <4>8 DEF Sound, Unsound, Within
      <4> QED BY <2>a, <2>c, <3>1, <3>2, <4>6
    <3>7. CASE c.cmd = "sync"
      <4>0. ~c.force
        BY <3>3, <3>7 DEF Coherent
      <4>1. d = [held EXCEPT !.pc = "clear", !.todo = ToClear(r), !.report = r,
                             !.blind = snapshot = None, !.stale = FALSE]
        BY <3>1, <3>4, <3>7, <4>0
      <4>2. /\ d.pc = "clear" /\ d.todo = ToClear(r) /\ d.bin = c.bin /\ d.cmd = c.cmd
            /\ d.cfg = c.cfg /\ (d.blind <=> snapshot = None)
        BY <3>3, <4>1 DEF CommandState
      <4>3. r = Evaluate(c.bin, c.cfg) /\ c.bin \in Binary /\ c.cfg \in Config
        BY <3>2, <3>3, <3>7 DEF Coherent, r
      <4>4. \A s \in Within(d.todo) : Verdict(Holder[s], c.bin, c.cfg) # "continue"
        BY <4>2, <4>3, EvaluationTyped, HolderTyped DEF Within, ToClear
      <4>5. ~d.blind => \A s \in Within(d.todo) : Unsound(s, c.bin, c.cfg)
        BY <2>0, <4>2, <4>3, <4>4, VerdictIsRight DEF Within
      <4>6. Stands(proc[p])'
        BY <3>2, <3>7, <4>2, <4>5 DEF Stands, Unsound, Stamps, Within, d
      <4> QED BY <2>a, <2>c, <3>1, <3>2, <4>6
    <3>8. CASE c.cmd \in {"reconcile", "note", "embed"}
      <4>0. ~c.force
        BY <3>3, <3>8 DEF Coherent
      <4>1. d = [held EXCEPT !.pc = "build", !.build = Builds[c.cmd], !.blind = FALSE]
        BY <3>1, <3>4, <3>8, <4>0
      <4>2. d.pc = "build" /\ ~Stamps(d)
        BY <3>3, <3>8, <4>1 DEF CommandState, Stamps
      <4>3. Stands(proc[p])'
        BY <4>2 DEF Stands, d
      <4> QED BY <2>a, <2>c, <3>1, <3>2, <4>3
    <3> QED BY <3>2, <3>3, <3>5, <3>6, <3>7, <3>8 DEF Coherent, Command
  <2>5. ASSUME NEW p \in Process, Clear(p) PROVE JudgementStands'
    <3> DEFINE c == proc[p]
               d == proc'[p]
               s == CHOOSE t \in c.todo : \A u \in c.todo : Rank[t] <= Rank[u]
    <3>1. /\ Changes(p, [c EXCEPT !.todo = c.todo \ {s}]) /\ c.pc \in {"force", "clear"}
          /\ suspect' = {x \in suspect : Holder[x[1]] # s}
          /\ \/ s = "state" /\ snapshot' = None /\ store' = store
             \/ /\ s # "state" /\ snapshot' = snapshot
                /\ store' = [t \in Data |-> IF Holder[t] = s THEN None ELSE store[t]]
      BY <2>5 DEF Clear
    <3>2. c \in CommandState /\ Coherent(c) /\ Stands(c) /\ store \in [Data -> Content \cup {None}]
      BY <2>0 DEF Disk
    <3>3. d = [c EXCEPT !.todo = c.todo \ {s}]
      BY <3>1, Actor
    <3> HIDE DEF c, d, s
    <3>4. /\ d.pc = c.pc /\ d.todo = c.todo \ {s} /\ d.bin = c.bin /\ d.cmd = c.cmd
          /\ d.cfg = c.cfg /\ d.blind = c.blind /\ d.stale = c.stale /\ d.made = c.made
      BY <3>2, <3>3 DEF CommandState
    <3>5. ASSUME NEW t \in Data, Holder[t] # s
          PROVE  /\ store'[t] = store[t]
                 /\ suspect' \cap Both(t) = suspect \cap Both(t)
                 /\ <<t, "format">> \in suspect' <=> <<t, "format">> \in suspect
                 /\ <<t, "inputs">> \in suspect' <=> <<t, "inputs">> \in suspect
      <4>1. /\ <<t, "format">> \in suspect' <=> <<t, "format">> \in suspect
            /\ <<t, "inputs">> \in suspect' <=> <<t, "inputs">> \in suspect
        BY <3>1, <3>5
      <4>2. Both(t) = {<<t, "format">>, <<t, "inputs">>}
        BY DEF Both, Aspect
      <4>3. store'[t] = store[t]
        BY <3>1, <3>5
      <4> QED BY <4>1, <4>2, <4>3
    <3>6. \A t \in Data : Holder[t] = s => store'[t] = None
      BY <3>1, HolderTyped
    <3>7. Accounted'
      <4> SUFFICES ASSUME snapshot' # None, NEW t \in Data, store'[t] # None
                   PROVE  /\ <<t, "format">> \in suspect' \/ store'[t].fmt = snapshot'.fmt[Holder[t]]
                          /\ <<t, "inputs">> \in suspect' \/ \A i \in Judged[t] : store'[t].made[i] = snapshot'.inputs[i]
        BY DEF Accounted
      <4>1. Holder[t] # s /\ snapshot' = snapshot
        BY <3>1, <3>6
      <4> QED BY <2>0, <3>5, <4>1 DEF Accounted
    <3>8. \A t \in Within(d.todo) : \A b, cfg : Unsound(t, b, cfg) => Unsound(t, b, cfg)'
      BY <3>4, <3>5 DEF Unsound, Within
    <3>9. \A t \in Data \ Within(d.todo) : \A b, cfg, made :
            (Holder[t] \notin c.todo => Sound(t, b, cfg, suspect \ made)) => Sound(t, b, cfg, suspect \ made)'
      <4> SUFFICES ASSUME NEW t \in Data \ Within(d.todo), NEW b, NEW cfg, NEW made,
                          Holder[t] \notin c.todo => Sound(t, b, cfg, suspect \ made)
                   PROVE  Sound(t, b, cfg, suspect \ made)'
        OBVIOUS
      <4>1. CASE Holder[t] = s
        BY <3>6, <4>1 DEF Sound
      <4>2. CASE Holder[t] # s
        BY <3>4, <3>5, <4>2 DEF Sound, Within
      <4> QED BY <4>1, <4>2
    <3>10. Stands(proc[p])'
      BY <3>1, <3>2, <3>4, <3>8, <3>9 DEF Stands, Stamps, Within, d
    <3> QED BY <2>c, <3>1, <3>7, <3>10 DEF c
  <2>6. ASSUME NEW p \in Process, ForceCleared(p) PROVE JudgementStands'
    <3> DEFINE c == proc[p]
               d == proc'[p]
               r == Evaluate(c.bin, c.cfg)
    <3>1. PICK new :
            /\ Keeps(p, new)
            /\ new = IF Blocked(r) # {} THEN Idle
                     ELSE [c EXCEPT !.pc = "clear", !.todo = ToClear(r), !.report = r,
                                    !.blind = snapshot = None, !.stale = FALSE]
      BY <2>6 DEF ForceCleared
    <3>2. c.pc = "force" /\ UNCHANGED <<store, snapshot, suspect>>
      BY <2>6 DEF ForceCleared, disk
    <3>3. c \in CommandState /\ Coherent(c)
      BY <2>0
    <3>4. d = new
      BY <3>1, Actor
    <3>5. CASE Blocked(r) # {}
      BY <2>i, <3>1, <3>2, <3>5
    <3>6. CASE Blocked(r) = {}
      <4> HIDE DEF c, d, r
      <4>1. d = [c EXCEPT !.pc = "clear", !.todo = ToClear(r), !.report = r,
                          !.blind = snapshot = None, !.stale = FALSE]
        BY <3>1, <3>4, <3>6
      <4>2. /\ d.pc = "clear" /\ d.todo = ToClear(r) /\ d.bin = c.bin /\ d.cfg = c.cfg
            /\ d.made = {} /\ (d.blind <=> snapshot = None)
        BY <3>2, <3>3, <4>1 DEF CommandState, Coherent
      <4>3. c.bin \in Binary /\ c.cfg \in Config
        BY <3>2, <3>3 DEF Coherent
      <4>4. r \in [Store -> Action] /\ \A s \in Store : r[s] = Verdict(s, c.bin, c.cfg)
        BY EvaluationTyped DEF r
      <4>5. /\ \A s \in Within(d.todo) : Verdict(Holder[s], c.bin, c.cfg) # "continue"
            /\ \A s \in Data \ Within(d.todo) : Verdict(Holder[s], c.bin, c.cfg) = "continue"
        BY <3>6, <4>2, <4>4, HolderTyped DEF Within, ToClear, Blocked
      <4>6. /\ ~d.blind => \A s \in Within(d.todo) : Unsound(s, c.bin, c.cfg)
            /\ \A s \in Data \ Within(d.todo) : Sound(s, c.bin, c.cfg, suspect)
        BY <2>0, <4>2, <4>3, <4>5, VerdictIsRight DEF Within
      <4>7. suspect \ d.made = suspect
        BY <4>2
      <4>8. Stands(proc[p])'
        BY <3>2, <4>2, <4>6, <4>7 DEF Stands, Sound, Unsound, Within, d
      <4> QED BY <2>k, <3>1, <3>2, <4>8
    <3> QED BY <3>5, <3>6
  <2>7. ASSUME NEW p \in Process, Cleared(p) PROVE JudgementStands'
    <3> DEFINE c == proc[p]
               d == proc'[p]
    <3>1. PICK b \in {<<>>, <<"graph", "index">>, <<"overlay", "index", "graph">>} :
            Keeps(p, IF b = <<>> /\ c.cmd = "sync" THEN Idle
                     ELSE [c EXCEPT !.pc = IF b = <<>> THEN "stamp" ELSE "build",
                                    !.build = b, !.report = None, !.blind = FALSE,
                                    !.force = FALSE, !.stale = c.stale /\ Stamps(c)])
      BY <2>7 DEF Cleared
    <3>2. c.pc = "clear" /\ c.todo = {} /\ UNCHANGED <<store, snapshot, suspect>>
      BY <2>7 DEF Cleared, disk
    <3>3. c \in CommandState /\ Coherent(c) /\ Stands(c)
      BY <2>0
    <3>4. CASE b = <<>> /\ c.cmd = "sync"
      BY <2>i, <3>1, <3>2, <3>4
    <3>5. CASE ~(b = <<>> /\ c.cmd = "sync")
      <4>1. PICK new : /\ Keeps(p, new)
                       /\ new = [c EXCEPT !.pc = IF b = <<>> THEN "stamp" ELSE "build",
                                          !.build = b, !.report = None, !.blind = FALSE,
                                          !.force = FALSE, !.stale = c.stale /\ Stamps(c)]
        BY <3>1, <3>5
      <4>2. d = new
        BY <4>1, Actor
      <4> HIDE DEF c, d
      <4>3. /\ d.pc \in {"build", "stamp"} /\ d.todo = c.todo /\ d.bin = c.bin /\ d.cfg = c.cfg
            /\ d.made = c.made /\ d.stale = (c.stale /\ Stamps(c)) /\ d.cmd = c.cmd
        BY <3>3, <4>1, <4>2 DEF CommandState
      <4>4. Stands(proc[p])'
        <5>1. CASE Stamps(c)
          <6>1. d.stale = c.stale
            BY <3>3, <4>3, <5>1 DEF CommandState
          <6> QED BY <3>2, <3>3, <4>3, <6>1 DEF Stands, Sound, Stamps, Within, d
        <5>2. CASE ~Stamps(c)
          BY <4>3, <5>2 DEF Stands, Stamps, d
        <5> QED BY <5>1, <5>2
      <4> QED BY <2>k, <3>2, <4>1, <4>4
    <3> QED BY <3>4, <3>5
  <2>8. ASSUME NEW p \in Process, Build(p) PROVE JudgementStands'
    <3> DEFINE c == proc[p]
               d == proc'[p]
    <3>1. PICK s \in Data, aspects \in SUBSET (Data \X Aspect), new \in CommandState :
            BuildOf(p, s, aspects, new)
      BY <2>8, BuildStep
    <3>2. /\ Changes(p, new) /\ snapshot' = snapshot
          /\ suspect' = (IF s = "vectors" THEN suspect \ Both(s) ELSE suspect) \cup aspects
          /\ aspects \subseteq Both(s) /\ c.pc = "build"
          /\ \A t \in Data \ {s} : store'[t] = store[t]
          /\ \/ /\ s \in {"overlay", "index"} /\ aspects = Both(s)
                /\ store'[s].fmt = Expected[c.bin][s] /\ store'[s].made = c.cfg
             \/ /\ s = "graph" /\ store[s] # None /\ aspects = {<<s, "inputs">>}
                /\ store'[s].fmt = store[s].fmt /\ store'[s].made = c.cfg
             \/ s = "overlay" /\ store[s] # None /\ aspects = {} /\ store'[s] = store[s]
             \/ /\ s = "vectors" /\ store["graph"] # None /\ ~Stamps(c)
                /\ store'[s].fmt = Expected[c.bin]["index"] /\ store'[s].made = store["graph"].made
                /\ <<s, "inputs">> \in aspects <=> <<"graph", "inputs">> \in suspect
                /\ <<s, "format">> \in aspects <=> ~FormatFits("index", c.bin)
      BY <3>1 DEF BuildOf
    <3>3. \/ new.pc = "idle"
          \/ /\ new.pc \in {"build", "stamp"} /\ new.cmd = c.cmd
             /\ new.bin = c.bin /\ new.cfg = c.cfg /\ new.stale = c.stale /\ new.todo = {}
             /\ Stamps(new) => new.made = c.made \cup aspects
      BY <3>1 DEF BuildOf
    <3>4. d = new
      BY <3>2, Actor
    <3>5. c \in CommandState /\ Coherent(c) /\ Stands(c)
      BY <2>0
    <3> HIDE DEF c, d
    <3>6. \A t \in Data \ {s} :
            /\ <<t, "format">> \notin aspects /\ <<t, "inputs">> \notin aspects
            /\ <<t, "format">> \in suspect' <=> <<t, "format">> \in suspect
            /\ <<t, "inputs">> \in suspect' <=> <<t, "inputs">> \in suspect
      BY <3>2 DEF Both
    <3>7. Both(s) = {<<s, "format">>, <<s, "inputs">>} /\ (s \in {"overlay", "index", "graph"} => Holder[s] = s)
      BY DEF Both, Aspect, Holder
    <3>8. Accounted'
      <4> SUFFICES ASSUME snapshot' # None, NEW t \in Data, store'[t] # None
                   PROVE  /\ <<t, "format">> \in suspect' \/ store'[t].fmt = snapshot'.fmt[Holder[t]]
                          /\ <<t, "inputs">> \in suspect' \/ \A i \in Judged[t] : store'[t].made[i] = snapshot'.inputs[i]
        BY DEF Accounted
      <4>1. CASE t # s
        BY <2>0, <3>2, <3>6, <4>1 DEF Accounted
      <4>2. CASE t = s /\ s # "vectors"
        BY <2>0, <3>2, <3>7, <4>2 DEF Accounted
      <4>3. CASE t = s /\ s = "vectors"
        <5>1. Holder[t] = "index" /\ Judged[t] = {"index"}
          BY <4>3 DEF Holder, Judged
        <5>2. <<t, "format">> \notin suspect' => store'[t].fmt = snapshot'.fmt["index"]
          BY <3>2, <4>3 DEF FormatFits
        <5>3. <<"graph", "inputs">> \in suspect \/ store["graph"].made["index"] = snapshot.inputs["index"]
          BY <3>2, <4>3 DEF DiscoveryStands, Discovered
        <5> QED BY <3>2, <4>3, <5>1, <5>2, <5>3
      <4> QED BY <4>1, <4>2, <4>3
    <3>10. ASSUME ~c.stale, Stamps(c), NEW t \in Data, store'[t] # None,
                  NEW made, made = c.made \cup aspects
           PROVE  /\ <<t, "format">> \in suspect' \ made \/ store'[t].fmt = Expected[c.bin][Holder[t]]
                  /\ <<t, "inputs">> \in suspect' \ made \/ \A i \in Judged[t] : store'[t].made[i] = c.cfg[i]
      <4>1. Sound(t, c.bin, c.cfg, suspect \ c.made)
        BY <3>2, <3>5, <3>10 DEF Stands, Coherent, Within
      <4>2. CASE t # s
        BY <3>2, <3>6, <3>10, <4>1, <4>2 DEF Sound
      <4>3. CASE t = s
        BY <3>2, <3>7, <3>10, <4>1, <4>3 DEF Sound
      <4> QED BY <4>2, <4>3
    <3>11. Stands(proc[p])'
      <4>1. CASE d.pc = "idle"
        BY <4>1 DEF Stands, d
      <4>2. CASE d.pc # "idle"
        <5>1. /\ d.pc \in {"build", "stamp"} /\ d.cmd = c.cmd /\ d.bin = c.bin /\ d.cfg = c.cfg
              /\ d.stale = c.stale /\ (Stamps(d) => d.made = c.made \cup aspects)
          BY <3>3, <3>4, <4>2
        <5>2. Stamps(d) <=> Stamps(c)
          BY <5>1 DEF Stamps
        <5>3. ASSUME ~d.stale, Stamps(d), NEW t \in Data
              PROVE  Sound(t, proc[p].bin, proc[p].cfg, suspect \ proc[p].made)'
          BY <3>10, <5>1, <5>2, <5>3 DEF Sound, d
        <5> QED BY <5>1, <5>3 DEF Stands, d
      <4> QED BY <4>1, <4>2
    <3> QED BY <2>c, <3>2, <3>8, <3>11
  <2>13. ASSUME NEW p \in Process, OpenGraph(p) PROVE JudgementStands'
    <3> DEFINE c == proc[p]
               d == proc'[p]
               inputs == <<"graph", "inputs">>
               format == <<"graph", "format">>
    <3>1. PICK new \in CommandState : Opening(p, new)
      BY <2>13, OpenStep
    <3>2. /\ Changes(p, new) /\ snapshot' = snapshot /\ suspect' = suspect \cup Both("graph")
          /\ c.pc = "build" /\ new.pc = "build" /\ new.cmd = c.cmd /\ new.bin = c.bin
          /\ new.cfg = c.cfg /\ new.stale = c.stale /\ new.todo = {}
          /\ Stamps(new) => new.made = (c.made \ Both("graph")) \cup {format}
          /\ store'["graph"].fmt = Expected[c.bin]["graph"]
          /\ \A t \in Data \ {"graph"} : store'[t] = store[t]
      BY <3>1 DEF Opening
    <3>3. d = new
      BY <3>2, Actor
    <3>4. c \in CommandState /\ Coherent(c) /\ Stands(c)
      BY <2>0
    <3>5. inputs # format /\ Both("graph") = {format, inputs} /\ Holder["graph"] = "graph"
      BY DEF Both, Aspect, Holder
    <3>6. ASSUME NEW t \in Data, t # "graph"
          PROVE  <<t, "format">> \notin {format, inputs} /\ <<t, "inputs">> \notin {format, inputs}
      BY <3>6
    <3> HIDE DEF c, d
    <3>7. Accounted'
      <4> SUFFICES ASSUME snapshot' # None, NEW t \in Data, store'[t] # None
                   PROVE  /\ <<t, "format">> \in suspect' \/ store'[t].fmt = snapshot'.fmt[Holder[t]]
                          /\ <<t, "inputs">> \in suspect' \/ \A i \in Judged[t] : store'[t].made[i] = snapshot'.inputs[i]
        BY DEF Accounted
      <4>1. CASE t = "graph"
        BY <3>2, <3>5, <4>1
      <4>2. CASE t # "graph"
        BY <2>0, <3>2, <4>2 DEF Accounted
      <4> QED BY <4>1, <4>2
    <3>8. ASSUME ~c.stale, Stamps(c), NEW t \in Data, store'[t] # None,
                 NEW made, made = (c.made \ Both("graph")) \cup {format}
          PROVE  /\ <<t, "format">> \in suspect' \ made \/ store'[t].fmt = Expected[c.bin][Holder[t]]
                 /\ <<t, "inputs">> \in suspect' \ made \/ \A i \in Judged[t] : store'[t].made[i] = c.cfg[i]
      <4>1. CASE t = "graph"
        <5>1. inputs \in suspect' /\ inputs \notin made
          BY <3>2, <3>5, <3>8
        <5> QED BY <3>2, <3>5, <4>1, <5>1
      <4>2. CASE t # "graph"
        <5>1. Sound(t, c.bin, c.cfg, suspect \ c.made)
          BY <3>2, <3>4, <3>8 DEF Stands, Coherent, Within
        <5>2. /\ (<<t, "format">> \in suspect' \ made) <=> (<<t, "format">> \in suspect \ c.made)
              /\ (<<t, "inputs">> \in suspect' \ made) <=> (<<t, "inputs">> \in suspect \ c.made)
          BY <3>2, <3>5, <3>6, <3>8, <4>2
        <5> QED BY <3>2, <3>8, <4>2, <5>1, <5>2 DEF Sound
      <4> QED BY <4>1, <4>2
    <3>9. Stands(proc[p])'
      <4>1. /\ d.pc = "build" /\ d.cmd = c.cmd /\ d.bin = c.bin /\ d.cfg = c.cfg /\ d.stale = c.stale
            /\ Stamps(d) => d.made = (c.made \ Both("graph")) \cup {format}
        BY <3>2, <3>3
      <4>2. Stamps(d) <=> Stamps(c)
        BY <4>1 DEF Stamps
      <4>3. ASSUME ~d.stale, Stamps(d), NEW t \in Data
            PROVE  Sound(t, proc[p].bin, proc[p].cfg, suspect \ proc[p].made)'
        BY <3>8, <4>1, <4>2, <4>3 DEF Sound, d
      <4> QED BY <4>1, <4>3 DEF Stands, d
    <3> QED BY <2>c, <3>2, <3>7, <3>9
  <2>9. ASSUME NEW p \in Process, Stamp(p) PROVE JudgementStands'
    <3> DEFINE c == proc[p]
    <3>1. /\ Changes(p, Idle) /\ c.pc = "stamp" /\ store' = store
          /\ snapshot' = [fmt |-> Expected[c.bin], inputs |-> c.cfg]
          /\ suspect' = IF c.stale THEN Data \X Aspect ELSE suspect \ c.made
      BY <2>9 DEF Stamp
    <3>2. c \in CommandState /\ Coherent(c) /\ Stands(c)
      BY <2>0
    <3> HIDE DEF c
    <3>3. CASE c.stale
      <4>1. \A s \in Data : <<s, "format">> \in suspect' /\ <<s, "inputs">> \in suspect'
        BY <3>1, <3>3 DEF Aspect
      <4>2. Accounted'
        BY <4>1 DEF Accounted
      <4> QED BY <2>c, <3>1, <4>2, Actor, IdleStands
    <3>4. CASE ~c.stale
      <4>1. \A s \in Data : Sound(s, c.bin, c.cfg, suspect \ c.made)
        BY <3>1, <3>2, <3>4 DEF Stands, Coherent, Within
      <4>2. snapshot'.fmt = Expected[c.bin] /\ snapshot'.inputs = c.cfg /\ suspect' = suspect \ c.made
        BY <3>1, <3>4
      <4>3. Accounted'
        BY <3>1, <4>1, <4>2 DEF Accounted, Sound
      <4> QED BY <2>c, <3>1, <4>3, Actor, IdleStands
    <3> QED BY <3>3, <3>4
  <2>10. ASSUME NEW i \in Input, NEW v \in Value, EditConfig(i, v) PROVE JudgementStands'
    BY <2>1, <2>10 DEF EditConfig, disk
  <2>11. ASSUME NEW b \in Binary, Install(b) PROVE JudgementStands'
    BY <2>1, <2>11 DEF Install, disk
  <2>12. CASE UNCHANGED vars
    BY <2>1, <2>12 DEF vars
  <2> QED BY <2>2, <2>3, <2>4, <2>5, <2>6, <2>7, <2>8, <2>9, <2>10, <2>11, <2>12, <2>13 DEF Next
<1> QED BY <1>1, <1>2, TypeInvariant, DiscoveryInvariant, PTL DEF Spec

(* What the commands take for compatible is current: a verdict "continue"  *)
(* is given only to a store of the binary's format, made from the inputs it *)
(* is judged over; and a graph that continues next to an index that         *)
(* continues was compiled from the files the settings name now, whatever    *)
(* was interrupted, installed or edited.                                    *)
THEOREM ReadyStoresAreCurrent == Spec => []ReadyIsCurrent
<1>1. TypeInv /\ DiscoveryStands /\ JudgementStands => ReadyIsCurrent
  <2> SUFFICES ASSUME TypeInv, DiscoveryStands, JudgementStands,
                      NEW s \in Data, store[s] # None,
                      Verdict(Holder[s], binary, config) = "continue"
               PROVE  /\ <<s, "format">> \in suspect \/ store[s].fmt = Expected[binary][Holder[s]]
                      /\ \A i \in ReadsOf[s] :
                           Verdict(JudgeOf[i], binary, config) = "continue" /\ <<s, i>> \notin Unjudged =>
                             <<s, "inputs">> \in suspect \/ store[s].made[i] = config[i]
    BY DEF ReadyIsCurrent
  <2>1. binary \in Binary /\ config \in Config /\ Accounted
    BY DEF TypeInv, Disk, JudgementStands
  <2>2. Sound(s, binary, config, suspect)
    BY <2>1, VerdictIsRight
  <2>3. ASSUME NEW i \in ReadsOf[s], i \notin Judged[s], <<s, i>> \notin Unjudged
        PROVE  s = "graph" /\ i = "index"
    BY <2>3 DEF ReadsOf, Judged, Unjudged, Data, Input
  <2>4. Verdict("graph", binary, config) = "continue" /\ Verdict("index", binary, config) = "continue" =>
          Discovered(config, suspect)
    BY GraphAndIndexContinue DEF DiscoveryStands
  <2>5. ASSUME NEW i \in ReadsOf[s], i \notin Judged[s], <<s, i>> \notin Unjudged,
               Verdict(JudgeOf[i], binary, config) = "continue"
        PROVE  <<s, "inputs">> \in suspect \/ store[s].made[i] = config[i]
    <3>1. s = "graph" /\ i = "index"
      BY <2>3, <2>5
    <3>2. Holder[s] = "graph" /\ JudgeOf[i] = "index"
      BY <3>1 DEF Holder, JudgeOf
    <3> QED BY <2>4, <2>5, <3>1, <3>2 DEF Discovered
  <2> QED BY <2>2, <2>5 DEF Sound
<1> QED BY <1>1, TypeInvariant, DiscoveryInvariant, JudgementInvariant, PTL

(* Nothing that is as the clearing command would make it is cleared: what  *)
(* a command clears it judged unsound, or judged without a snapshot, or    *)
(* others have been at work since, or the store is suspect anyway.         *)
Justified(s, p) ==
  \/ proc[p].stale \/ proc[p].blind \/ suspect \cap Both(s) # {}
  \/ store[s].fmt # Expected[proc[p].bin][Holder[s]]
  \/ \E i \in Judged[s] : store[s].made[i] # proc[p].cfg[i]

LEMMA OnlyClearClears ==
  ASSUME TypeInv, [Next]_vars, NEW s \in Data, store[s] # None, store'[s] = None
  PROVE  \E p \in Process : Clear(p)
<1> SUFFICES ASSUME \A p \in Process : ~Clear(p) PROVE FALSE
  OBVIOUS
<1>1. store' # store
  OBVIOUS
<1>2. PICK p \in Process : Build(p) \/ OpenGraph(p)
  BY <1>1 DEF Next, Start, LockBusy, Lock, ForceCleared, Cleared, BuildFails, Stamp, Crash,
     EditConfig, Install, disk, vars
<1>3. CASE Build(p)
  <2>1. PICK t \in Data, aspects \in SUBSET (Data \X Aspect), new \in CommandState :
          BuildOf(p, t, aspects, new)
    BY <1>3, BuildStep
  <2>2. store'[t] # None /\ \A u \in Data \ {t} : store'[u] = store[u]
    BY <2>1 DEF BuildOf
  <2> QED BY <2>2
<1>4. CASE OpenGraph(p)
  <2>1. PICK new \in CommandState : Opening(p, new)
    BY <1>4, OpenStep
  <2>2. store'["graph"] # None /\ \A u \in Data \ {"graph"} : store'[u] = store[u]
    BY <2>1 DEF Opening
  <2> QED BY <2>2
<1> QED BY <1>2, <1>3, <1>4

LEMMA ClearsUnsound ==
  ASSUME TypeInv, JudgementStands, [Next]_vars,
         NEW s \in Data, NEW p \in Process,
         store[s] # None, store'[s] = None, proc'[p].todo # proc[p].todo
  PROVE  Justified(s, p)
<1>1. PICK q \in Process : Clear(q)
  BY OnlyClearClears
<1> DEFINE c == proc[q]
           t == CHOOSE u \in c.todo : \A w \in c.todo : Rank[u] <= Rank[w]
           new == [c EXCEPT !.todo = c.todo \ {t}]
<1>2. /\ Changes(q, new) /\ c.pc \in {"force", "clear"}
      /\ store' = store \/ store' = [d \in Data |-> IF Holder[d] = t THEN None ELSE store[d]]
  BY <1>1 DEF Clear
<1>3. c \in CommandState /\ Coherent(c) /\ Stands(c) /\ store \in [Data -> Content \cup {None}]
  BY DEF TypeInv, JudgementStands, Disk
<1> HIDE DEF t
<1>4. new \in CommandState /\ new.todo = c.todo \ {t}
  BY <1>3 DEF CommandState
<1> HIDE DEF new
<1>5. /\ proc'[q] = new
      /\ \A r \in Process \ {q} : proc'[r].todo = proc[r].todo
  BY <1>2, <1>4, Others DEF Same
<1>6. p = q /\ t \in c.todo
  BY <1>4, <1>5
<1>7. Holder[s] = t
  BY <1>2, <1>3
<1>8. ~c.stale /\ ~c.blind => Unsound(s, c.bin, c.cfg)
  BY <1>2, <1>3, <1>6, <1>7 DEF Stands, Within
<1> QED BY <1>6, <1>8 DEF Unsound, Justified

THEOREM NothingSoundIsCleared == Spec => ClearsOnlyStale
<1>1. TypeInv /\ JudgementStands /\ [Next]_vars =>
        [\A s \in Data, p \in Process :
           store[s] # None /\ store'[s] = None /\ proc'[p].todo # proc[p].todo =>
             \/ proc[p].stale \/ proc[p].blind \/ suspect \cap Both(s) # {}
             \/ store[s].fmt # Expected[proc[p].bin][Holder[s]]
             \/ \E i \in Judged[s] : store[s].made[i] # proc[p].cfg[i]]_vars
  BY ClearsUnsound DEF Justified
<1> QED BY <1>1, TypeInvariant, JudgementInvariant, PTL DEF Spec, ClearsOnlyStale
=============================================================================
