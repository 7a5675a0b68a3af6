------------------------ MODULE AnchoredEditsProofs ------------------------
(***************************************************************************)
(* What requests that edit several files promise next to an editor, the    *)
(* watch service and failing writes, for any files, contents and plans.    *)
(* What the edits of a plan do to lines (ApplyPlan) is not opened here.    *)
(***************************************************************************)
EXTENDS AnchoredEdits, FiniteSetTheorems, WellFoundedInduction, TLAPS

(* MinOf and MaxOf choose from the files a request still has to work off. *)
LEMMA MinInSet == ASSUME NEW S, S \subseteq Nat, S # {} PROVE MinOf(S) \in S
<1>1. \E x \in S : \A y \in S : <<y, x>> \notin OpToRel(<, Nat)
  BY WFMin, NatLessThanWellFounded, Zenon
<1>2. PICK x \in S : \A y \in S : <<y, x>> \notin OpToRel(<, Nat)
  BY <1>1
<1>3. \A y \in S : ~(y < x)
  BY <1>2, Zenon DEF OpToRel
<1>4. \A y \in S : x <= y
  BY <1>3
<1> QED BY <1>4 DEF MinOf

LEMMA MaxInSet ==
  ASSUME NEW S, S \subseteq Nat, IsFiniteSet(S), S # {}
  PROVE  MaxOf(S) \in S
<1> DEFINE NoMax(T) == ~ \E x \in T : \A y \in T : x >= y
           Bad == {T \in SUBSET S : T # {} /\ NoMax(T)}
<1>1. ASSUME Bad # {} PROVE FALSE
  <2>1. FiniteSubsetsOf(S) = SUBSET S
    BY FS_FiniteSubsetsOfFinite
  <2>2. IsWellFoundedOn(StrictSubsetOrdering(S), SUBSET S)
    BY <2>1, FS_StrictSubsetOrderingWellFounded
  <2>3. Bad \subseteq SUBSET S
    OBVIOUS
  <2>4. \E T \in Bad : \A U \in Bad : <<U, T>> \notin StrictSubsetOrdering(S)
    <3> HIDE DEF Bad
    <3> QED BY <1>1, <2>2, <2>3, WFMin, Zenon
  <2>5. PICK T \in Bad : \A U \in Bad : <<U, T>> \notin StrictSubsetOrdering(S)
    BY <2>4
  <2>6. PICK x \in T : TRUE
    OBVIOUS
  <2>7. T \ {x} \subseteq T /\ T \ {x} # T
    BY <2>6
  <2>8. T \ {x} \notin Bad
    BY <2>5, <2>7 DEF StrictSubsetOrdering
  <2>9. T \ {x} = {} \/ \E z \in T \ {x} : \A y \in T \ {x} : z >= y
    BY <2>8
  <2>10. T \subseteq Nat
    OBVIOUS
  <2>11. \E z \in T : \A y \in T : z >= y
    <3>1. CASE T \ {x} = {}
      <4>1. \A y \in T : x >= y
        BY <3>1, <2>10, <2>6
      <4> QED BY <4>1, <2>6
    <3>2. CASE \E z \in T \ {x} : \A y \in T \ {x} : z >= y
      <4>1. PICK z \in T \ {x} : \A y \in T \ {x} : z >= y
        BY <3>2
      <4>2. CASE z >= x
        BY <4>1, <4>2
      <4>3. CASE ~(z >= x)
        <5>1. \A y \in T : x >= y
          BY <4>1, <4>3, <2>10, <2>6
        <5> QED BY <5>1, <2>6
      <4> QED BY <4>2, <4>3
    <3> QED BY <2>9, <3>1, <3>2
  <2> QED BY <2>11
<1>2. \E x \in S : \A y \in S : x >= y
  BY <1>1
<1> QED BY <1>2 DEF MaxOf

-----------------------------------------------------------------------------
(* The shape of the request under way; its files are files. *)
TxnRecord ==
  [pc : {"idle", "plan", "write", "rollback", "release"}, req : {txn.req},
   todo : SUBSET File, plan : {txn.plan}, failed : BOOLEAN,
   written : SUBSET File, stuck : BOOLEAN]

(* A reading of the record that survives every EXCEPT. *)
TxnTyped ==
  /\ txn \in TxnRecord
  /\ DOMAIN txn.req \subseteq File
  /\ DOMAIN txn.plan \subseteq DOMAIN txn.req

(* The sessions callers hold are never taken back, so they are a sequence, *)
(* and those of the manager are numbers of it.                             *)
SessionsTyped ==
  /\ issued \in Seq({issued[i] : i \in DOMAIN issued})
  /\ cache \in Seq(Nat)

TypeInv == TypeOK /\ TxnTyped /\ SessionsTyped

(* What each step of a request makes of its record. *)
LEMMA RequestSteps ==
  ASSUME TypeInv, Next
  PROVE  TxnTyped' /\ txn'.written \cup txn'.todo \subseteq DOMAIN txn'.req
<1> USE DEF TypeInv, TxnTyped, TxnRecord
<1> DEFINE Goal == TxnTyped' /\ txn'.written \cup txn'.todo \subseteq DOMAIN txn'.req
           f == MinOf(txn.todo)
<1>1. ASSUME txn' = txn PROVE Goal
  BY <1>1 DEF TypeOK
<1>2. ASSUME txn' = Idle PROVE Goal
  BY <1>2 DEF Idle
<1>3. ASSUME NEW req \in Requests, Submit(req) PROVE Goal
  <2>1. DOMAIN req \subseteq File
    BY DEF Requests
  <2>2. txn' = [pc |-> "plan", req |-> req, todo |-> DOMAIN req, plan |-> <<>>,
                failed |-> FALSE, written |-> {}, stuck |-> FALSE]
    BY <1>3 DEF Submit, Idle
  <2> QED BY <2>1, <2>2
<1>4. /\ txn.todo # {} => f \in txn.todo
      /\ txn.todo \subseteq DOMAIN txn.req /\ txn.written \subseteq DOMAIN txn.req
  BY MinInSet, FileAssumption DEF TypeOK
<1> HIDE DEF f
<1>5. ASSUME PlanFile PROVE Goal
  <2>1. PICK good, next :
          txn' = IF good /\ next = Panic THEN Idle
                 ELSE [txn EXCEPT
                        !.todo = txn.todo \ {f},
                        !.plan = IF good THEN PlanWith(f, [original |-> file[f], next |-> next])
                                 ELSE txn.plan,
                        !.failed = txn.failed \/ ~good]
    BY <1>5 DEF PlanFile, f
  <2>2. f \in DOMAIN txn.req
    BY <1>4, <1>5 DEF PlanFile
  <2>3. CASE good /\ next = Panic
    BY <2>1, <2>3, <1>2
  <2>4. CASE ~(good /\ next = Panic)
    <3> DEFINE plan == IF good THEN PlanWith(f, [original |-> file[f], next |-> next])
                       ELSE txn.plan
    <3>1. DOMAIN plan \subseteq DOMAIN txn.req
      BY <2>2 DEF PlanWith
    <3> HIDE DEF plan
    <3>2. txn' = [txn EXCEPT !.todo = txn.todo \ {f}, !.plan = plan,
                             !.failed = txn.failed \/ ~good]
      BY <2>1, <2>4 DEF plan
    <3>3. txn' \in [pc : {txn.pc}, req : {txn.req}, todo : {txn.todo \ {f}}, plan : {plan},
                    failed : BOOLEAN, written : {txn.written}, stuck : BOOLEAN]
      BY <3>2
    <3> QED BY <3>1, <3>3, <1>4
  <2> QED BY <2>3, <2>4
<1>6. ASSUME PlanUnreadable PROVE Goal
  <2>1. txn' = [txn EXCEPT !.todo = txn.todo \ {f}, !.failed = TRUE]
    BY <1>6 DEF PlanUnreadable, f
  <2> QED BY <2>1, <1>4
<1>7. ASSUME Planned PROVE Goal
  BY <1>7, <1>4 DEF Planned
<1>8. ASSUME WriteFile PROVE Goal
  <2>1. txn' = [txn EXCEPT !.todo = txn.todo \ {f}, !.written = txn.written \cup {f}]
        /\ txn.todo # {}
    BY <1>8 DEF WriteFile, f
  <2> QED BY <2>1, <1>4
<1>9. ASSUME WriteFails PROVE Goal
  BY <1>9, <1>4 DEF WriteFails
<1>10. ASSUME RollbackFile PROVE Goal
  <2>1. PICK g : txn' = [txn EXCEPT !.written = txn.written \ {g}]
    BY <1>10 DEF RollbackFile
  <2> QED BY <2>1, <1>4
<1>11. ASSUME RollbackFails PROVE Goal
  BY <1>11, <1>4 DEF RollbackFails
<1>12. ASSUME WritesDone PROVE Goal
  BY <1>12, <1>4 DEF WritesDone
<1> HIDE DEF Goal
<1>13. Goal
  BY <1>1, <1>2, <1>3, <1>5, <1>6, <1>7, <1>8, <1>9, <1>10, <1>11, <1>12
     DEF Next, Prepare, Expire, Save, SuppressionEnds, WatchReconcile, Release, Crash
<1> QED BY <1>13 DEF Goal

(* The session table after one more session. *)
LEMMA AppendKeeps ==
  ASSUME NEW q, q \in Seq({q[i] : i \in DOMAIN q}), NEW e, NEW t, t = Append(q, e)
  PROVE  /\ t \in Seq({t[i] : i \in DOMAIN t})
         /\ Len(q) \in Nat /\ DOMAIN q = 1..Len(q)
         /\ Len(t) = Len(q) + 1 /\ DOMAIN t = 1..(Len(q) + 1)
         /\ \A i \in DOMAIN q : t[i] = q[i]
<1> DEFINE E == {q[i] : i \in DOMAIN q} \cup {e}
<1>1. q \in Seq(E)
  OBVIOUS
<1>2. /\ t \in Seq(E)
      /\ Len(q) \in Nat /\ DOMAIN q = 1..Len(q)
      /\ Len(t) = Len(q) + 1 /\ DOMAIN t = 1..(Len(q) + 1)
      /\ \A i \in DOMAIN q : t[i] = q[i]
  BY <1>1
<1>3. t \in Seq({t[i] : i \in DOMAIN t})
  BY <1>2
<1> QED BY <1>2, <1>3

(* A step that prepares a session leaves the manager within its limit, its *)
(* sessions in order.                                                      *)
LEMMA PrepareKeepsSessions ==
  ASSUME TypeInv, NEW f \in File, NEW range \in Ranges, Prepare(f, range)
  PROVE  /\ SessionsTyped'
         /\ Len(cache') <= MaxSessions
         /\ \A i \in DOMAIN cache' : cache'[i] \in DOMAIN issued'
         /\ \A i, j \in DOMAIN cache' : i < j => cache'[i] < cache'[j]
<1> USE DEF TypeInv, SessionsTyped, TypeOK
<1>1. PICK s : issued' = Append(issued, s)
  BY DEF Prepare
<1>2. /\ issued' \in Seq({issued'[i] : i \in DOMAIN issued'})
      /\ Len(issued) \in Nat /\ DOMAIN issued = 1..Len(issued)
      /\ Len(issued') = Len(issued) + 1 /\ DOMAIN issued' = 1..(Len(issued) + 1)
  <2> HIDE DEF TypeOK
  <2>1. issued \in Seq({issued[i] : i \in DOMAIN issued})
    OBVIOUS
  <2> HIDE DEF SessionsTyped, TypeInv
  <2> QED BY <1>1, <2>1, AppendKeeps
<1> DEFINE n == Len(issued) + 1
           c == Append(cache, n)
<1>3. cache' = IF Len(c) > MaxSessions THEN Tail(c) ELSE c
  BY <1>1, <1>2 DEF Prepare
<1>4. /\ c \in Seq(Nat) /\ Len(c) = Len(cache) + 1
      /\ \A i \in DOMAIN c : c[i] \in 1..n
      /\ \A i, j \in DOMAIN c : i < j => c[i] < c[j]
  <2>1. n \in Nat \ {0} /\ \A i \in DOMAIN cache : cache[i] \in 1..(n - 1)
    BY <1>2
  <2>2. cache \in Seq(Nat) /\ \A i, j \in DOMAIN cache : i < j => cache[i] < cache[j]
    OBVIOUS
  <2> HIDE DEF n, TypeInv, SessionsTyped, TypeOK
  <2>3. /\ c \in Seq(Nat) /\ Len(c) = Len(cache) + 1 /\ Len(cache) \in Nat
        /\ \A i \in 1..Len(cache) : c[i] = cache[i] /\ cache[i] \in 1..(n - 1)
        /\ c[Len(cache) + 1] = n
    BY <2>1, <2>2
  <2> HIDE DEF c
  <2>4. DOMAIN c = 1..(Len(cache) + 1) /\ DOMAIN cache = 1..Len(cache)
    BY <2>2, <2>3
  <2>5. ASSUME NEW i \in DOMAIN c
        PROVE  /\ i \in 1..Len(cache) \/ i = Len(cache) + 1
               /\ c[i] \in 1..n
    <3>1. i \in 1..Len(cache) \/ i = Len(cache) + 1
      BY <2>3, <2>4
    <3>2. CASE i \in 1..Len(cache)
      BY <3>1, <3>2, <2>1, <2>3
    <3>3. CASE i = Len(cache) + 1
      BY <3>1, <3>3, <2>1, <2>3
    <3> QED BY <3>1, <3>2, <3>3
  <2>6. \A i \in DOMAIN c : c[i] \in 1..n
    BY <2>5
  <2>7. ASSUME NEW i \in DOMAIN c, NEW j \in DOMAIN c, i < j PROVE c[i] < c[j]
    <3>1. i \in 1..Len(cache)
      BY <2>3, <2>4, <2>5, <2>7
    <3>2. CASE j \in 1..Len(cache)
      BY <3>1, <3>2, <2>2, <2>3, <2>4, <2>7
    <3>3. CASE j = Len(cache) + 1
      BY <3>1, <3>3, <2>1, <2>3
    <3> QED BY <2>5, <3>2, <3>3
  <2> QED BY <2>3, <2>6, <2>7
<1> HIDE DEF c, n
<1>5. MaxSessions \in Nat /\ Len(cache) \in Nat /\ Len(cache) <= MaxSessions
  BY BoundAssumption
<1>6. CASE Len(c) > MaxSessions
  <2>1. /\ Tail(c) \in Seq(Nat) /\ Len(Tail(c)) = Len(c) - 1
        /\ \A i \in DOMAIN Tail(c) : i + 1 \in DOMAIN c /\ Tail(c)[i] = c[i + 1]
    BY <1>4, <1>5
  <2>2. cache' = Tail(c)
    BY <1>3, <1>6
  <2> HIDE DEF TypeOK
  <2>3. \A i, j \in DOMAIN Tail(c) : i < j => Tail(c)[i] < Tail(c)[j]
    BY <1>4, <2>1
  <2> QED BY <2>1, <2>2, <2>3, <1>2, <1>4, <1>5 DEF n
<1>7. CASE ~(Len(c) > MaxSessions)
  BY <1>2, <1>3, <1>4, <1>5, <1>7 DEF n
<1> QED BY <1>6, <1>7

(* Types of the files, the sessions and the request, whatever the editor,  *)
(* expiry, failing writes and crashes do in between; the anchor manager    *)
(* never holds more than MaxSessions sessions and puts the oldest out.     *)
LEMMA TypeInvariant == Spec => []TypeInv
<1>1. Init => TypeInv
  <2> SUFFICES ASSUME Init PROVE TypeInv
    OBVIOUS
  <2>1. DOMAIN file = File /\ indexed = file
    BY DEF Init
  <2>2. TxnTyped /\ txn.written \cup txn.todo = {} /\ txn.pc = "idle"
    BY DEF Init, Idle, TxnTyped, TxnRecord
  <2>3. SessionsTyped /\ Len(cache) = 0 /\ DOMAIN cache = {}
    BY DEF Init, SessionsTyped
  <2>4. MaxSessions \in Nat
    BY BoundAssumption
  <2> QED BY <2>1, <2>2, <2>3, <2>4 DEF Init, TypeInv, TypeOK
<1>2. TypeInv /\ [Next]_vars => TypeInv'
  <2> SUFFICES ASSUME TypeInv, [Next]_vars PROVE TypeInv'
    OBVIOUS
  <2>0. CASE UNCHANGED vars
    BY <2>0 DEF vars, TypeInv, TypeOK, TxnTyped, TxnRecord, SessionsTyped
  <2>1. CASE Next
    <3>1. TxnTyped' /\ txn'.written \cup txn'.todo \subseteq DOMAIN txn'.req
      BY <2>1, RequestSteps
    <3>2. txn'.pc \in {"idle", "plan", "write", "rollback", "release"}
      BY <3>1 DEF TxnTyped, TxnRecord
    <3> DEFINE Files == /\ DOMAIN file' = File /\ DOMAIN indexed' = File
                        /\ suppressed' \cup saved' \cup hidden' \subseteq File
               Sessions == /\ SessionsTyped'
                           /\ Len(cache') <= MaxSessions
                           /\ \A i \in DOMAIN cache' : cache'[i] \in DOMAIN issued'
                           /\ \A i, j \in DOMAIN cache' : i < j => cache'[i] < cache'[j]
    <3>3. Files
      <4> USE DEF TypeInv, TypeOK
      <4>1. txn.written \subseteq File
        BY DEF TxnTyped, TxnRecord
      <4>2. ASSUME NEW f \in File, NEW range \in Ranges, Prepare(f, range) PROVE Files
        BY <4>2 DEF Prepare
      <4>3. CASE Expire
        BY <4>3 DEF Expire
      <4>4. ASSUME NEW f \in File, NEW lines \in Saves, Save(f, lines) PROVE Files
        BY <4>4 DEF Save
      <4>5. ASSUME NEW f \in File, SuppressionEnds(f) PROVE Files
        BY <4>5 DEF SuppressionEnds
      <4>6. CASE WatchReconcile
        BY <4>6 DEF WatchReconcile, Reconciled
      <4>7. ASSUME NEW req \in Requests, Submit(req) PROVE Files
        <5>1. DOMAIN req \subseteq File
          BY DEF Requests
        <5> QED BY <4>7, <5>1 DEF Submit
      <4>8. CASE PlanFile
        BY <4>8 DEF PlanFile
      <4>9. CASE PlanUnreadable \/ Planned \/ WriteFails \/ RollbackFails \/ WritesDone
        BY <4>9 DEF PlanUnreadable, Planned, WriteFails, RollbackFails, WritesDone
      <4>10. CASE WriteFile \/ RollbackFile
        BY <4>10 DEF WriteFile, RollbackFile
      <4>11. CASE Release
        BY <4>11, <4>1 DEF Release, Reconciled
      <4>12. CASE Crash
        BY <4>12, <4>1 DEF Crash
      <4> HIDE DEF Files
      <4> QED BY <2>1, <4>2, <4>3, <4>4, <4>5, <4>6, <4>7, <4>8, <4>9, <4>10, <4>11, <4>12
              DEF Next
    <3>4. Sessions
      <4>1. ASSUME UNCHANGED <<cache, issued>> PROVE Sessions
        BY <4>1 DEF TypeInv, TypeOK, SessionsTyped
      <4>2. ASSUME NEW f \in File, NEW range \in Ranges, Prepare(f, range) PROVE Sessions
        BY <4>2, PrepareKeepsSessions
      <4>3. CASE Expire
        <5>1. cache # <<>> /\ cache' = Tail(cache) /\ issued' = issued /\ cache \in Seq(Nat)
          BY <4>3 DEF Expire, TypeInv, SessionsTyped
        <5>2. /\ cache' \in Seq(Nat) /\ Len(cache') <= Len(cache)
              /\ \A i \in DOMAIN cache' : i + 1 \in DOMAIN cache /\ cache'[i] = cache[i + 1]
          BY <5>1
        <5>3. Len(cache') <= MaxSessions
          BY <5>1, <5>2, BoundAssumption DEF TypeInv, TypeOK
        <5>4. \A i, j \in DOMAIN cache' : i < j => i + 1 < j + 1
          BY <5>2
        <5> QED BY <5>1, <5>2, <5>3, <5>4 DEF TypeInv, TypeOK, SessionsTyped
      <4>4. CASE Crash
        <5>1. cache' = <<>> /\ issued' = issued
          BY <4>4 DEF Crash
        <5> QED BY <5>1, BoundAssumption DEF TypeInv, SessionsTyped
      <4> HIDE DEF Sessions
      <4> QED
        BY <2>1, <4>1, <4>2, <4>3, <4>4
           DEF Next, Save, SuppressionEnds, WatchReconcile, Submit, PlanFile,
               PlanUnreadable, Planned, WriteFile, WriteFails, RollbackFile,
               RollbackFails, WritesDone, Release
    <3> QED BY <3>1, <3>2, <3>3, <3>4 DEF TypeInv, TypeOK
  <2> QED BY <2>0, <2>1
<1> QED BY <1>1, <1>2, PTL DEF Spec

(* The anchor manager keeps at most MaxSessions sessions, each once, in    *)
(* the order of their making; requests and histories speak of files.       *)
THEOREM TypeCorrect == Spec => []TypeOK
<1>1. TypeInv => TypeOK
  BY DEF TypeInv
<1> QED BY <1>1, TypeInvariant, PTL

-----------------------------------------------------------------------------
(* Where a request stands with every file that was not saved by the editor *)
(* since it was planned.                                                   *)
Original(f) == file[f] = txn.plan[f].original
Edited(f)   == file[f] = txn.plan[f].next

PlanningStands ==
  txn.pc = "plan" =>
    /\ txn.written = {} /\ ~txn.stuck
    /\ txn.todo \cap DOMAIN txn.plan = {}
    /\ ~txn.failed => DOMAIN txn.req = txn.todo \cup DOMAIN txn.plan
    /\ \A f \in DOMAIN txn.plan \ saved : Original(f)

WritingStands ==
  txn.pc = "write" =>
    /\ ~txn.failed /\ ~txn.stuck
    /\ DOMAIN txn.plan = DOMAIN txn.req
    /\ txn.todo \cap txn.written = {} /\ DOMAIN txn.req = txn.todo \cup txn.written
    /\ \A f \in txn.written \ saved : Edited(f)
    /\ \A f \in txn.todo \ saved : Original(f)

RollbackStands ==
  txn.pc = "rollback" =>
    /\ txn.failed /\ ~txn.stuck
    /\ DOMAIN txn.plan = DOMAIN txn.req
    /\ \A f \in DOMAIN txn.plan \ (txn.written \cup saved) : Original(f)

NothingLeftWritten ==
  /\ txn.pc = "idle" => txn.written = {}
  /\ txn.pc = "release" /\ txn.failed /\ ~txn.stuck => txn.written = {}

RequestStands ==
  PlanningStands /\ WritingStands /\ RollbackStands /\ NothingLeftWritten /\ AllOrNothing

(* A save of the editor puts its file out of the account. *)
LEMMA SaveKeepsRequest ==
  ASSUME TypeInv, RequestStands, NEW f \in File, NEW lines \in Saves, Save(f, lines)
  PROVE  RequestStands'
<1>1. /\ file' = [file EXCEPT ![f] = lines] /\ saved' = saved \cup {f} /\ txn' = txn
      /\ DOMAIN file = File
  BY DEF Save, TypeInv, TypeOK
<1>2. \A g : g \notin saved' => g \notin saved /\ file'[g] = file[g]
  BY <1>1
<1> QED
  BY <1>1, <1>2 DEF RequestStands, PlanningStands, WritingStands, RollbackStands,
     NothingLeftWritten, AllOrNothing, Original, Edited

(* Planning reads the file and lets its earlier saves be. *)
LEMMA PlanKeepsRequest ==
  ASSUME TypeInv, RequestStands, PlanFile
  PROVE  RequestStands'
<1> DEFINE f == MinOf(txn.todo)
<1>1. f \in txn.todo /\ txn.pc = "plan" /\ file' = file /\ saved' = saved \ {f}
  BY MinInSet, FileAssumption DEF PlanFile, TypeInv, TxnTyped, TxnRecord
<1> DEFINE good == IsCurrent(f) /\ HasAnchors(f) /\ ~Overlaps(txn.req[f].plan)
           next == ApplyPlan(file[f], txn.req[f].plan)
<1>2. txn' = IF good /\ next = Panic THEN Idle
             ELSE [txn EXCEPT
                    !.todo = txn.todo \ {f},
                    !.plan = IF good THEN PlanWith(f, [original |-> file[f], next |-> next])
                             ELSE txn.plan,
                    !.failed = txn.failed \/ ~good]
  BY DEF PlanFile
<1> HIDE DEF f, good, next
<1>3. txn \in TxnRecord /\ PlanningStands
  BY DEF TypeInv, TxnTyped, RequestStands
<1>4. CASE good /\ next = Panic
  BY <1>2, <1>4 DEF Idle, RequestStands, PlanningStands, WritingStands, RollbackStands,
     NothingLeftWritten, AllOrNothing
<1>5. CASE ~(good /\ next = Panic)
  <2> DEFINE plan == IF good THEN PlanWith(f, [original |-> file[f], next |-> next])
                     ELSE txn.plan
  <2>1. /\ txn'.pc = "plan" /\ txn'.written = {} /\ ~txn'.stuck
        /\ txn'.todo = txn.todo \ {f} /\ txn'.plan = plan /\ txn'.req = txn.req
        /\ txn'.failed = (txn.failed \/ ~good)
    BY <1>1, <1>2, <1>3, <1>5 DEF TxnRecord, PlanningStands
  <2>2. txn.todo \cap DOMAIN txn.plan = {}
        /\ (\A g \in DOMAIN txn.plan \ saved : file[g] = txn.plan[g].original)
        /\ (~txn.failed => DOMAIN txn.req = txn.todo \cup DOMAIN txn.plan)
    BY <1>1, <1>3 DEF PlanningStands, Original
  <2>3. CASE good
    <3>1. /\ DOMAIN plan = DOMAIN txn.plan \cup {f}
          /\ plan[f].original = file[f]
          /\ \A g \in DOMAIN txn.plan : plan[g] = txn.plan[g]
      BY <2>2, <2>3, <1>1 DEF PlanWith
    <3> HIDE DEF plan
    <3>2. \A g \in DOMAIN plan \ saved' : file'[g] = plan[g].original
      BY <3>1, <2>2, <1>1
    <3> QED
      BY <3>1, <3>2, <2>1, <2>2, <1>1
         DEF RequestStands, PlanningStands, WritingStands, RollbackStands,
             NothingLeftWritten, AllOrNothing, Original
  <2>4. CASE ~good
    <3>1. plan = txn.plan /\ txn'.failed
      BY <2>1, <2>4
    <3> HIDE DEF plan
    <3> QED
      BY <3>1, <2>1, <2>2, <1>1
         DEF RequestStands, PlanningStands, WritingStands, RollbackStands,
             NothingLeftWritten, AllOrNothing, Original
  <2> QED BY <2>3, <2>4
<1> QED BY <1>4, <1>5

(* A write moves its file from the originals to the edited ones. *)
LEMMA WriteKeepsRequest ==
  ASSUME TypeInv, RequestStands, WriteFile
  PROVE  RequestStands'
<1> DEFINE f == MinOf(txn.todo)
<1>1. f \in txn.todo /\ f \in File /\ DOMAIN file = File
  BY MinInSet, FileAssumption DEF WriteFile, TypeInv, TypeOK, TxnTyped, TxnRecord
<1>2. /\ txn.pc = "write" /\ saved' = saved
      /\ file' = [file EXCEPT ![f] = txn.plan[f].next]
      /\ txn' = [txn EXCEPT !.todo = txn.todo \ {f}, !.written = txn.written \cup {f}]
  BY DEF WriteFile
<1> HIDE DEF f
<1>3. /\ txn'.pc = "write" /\ txn'.req = txn.req /\ txn'.plan = txn.plan
      /\ txn'.failed = txn.failed /\ txn'.stuck = txn.stuck
      /\ txn'.todo = txn.todo \ {f} /\ txn'.written = txn.written \cup {f}
  BY <1>2 DEF TypeInv, TxnTyped, TxnRecord
<1>4. file'[f] = txn.plan[f].next /\ \A g : g # f => file'[g] = file[g]
  BY <1>1, <1>2
<1> QED
  BY <1>1, <1>2, <1>3, <1>4
     DEF RequestStands, PlanningStands, WritingStands, RollbackStands,
         NothingLeftWritten, AllOrNothing, Original, Edited

(* A restored file is an original one again. *)
LEMMA RollbackKeepsRequest ==
  ASSUME TypeInv, RequestStands, RollbackFile
  PROVE  RequestStands'
<1> DEFINE f == MaxOf(txn.written)
<1>1. f \in txn.written /\ f \in File /\ DOMAIN file = File
  <2>1. txn.written # {} /\ txn.written \subseteq File
    BY DEF RollbackFile, TypeInv, TxnTyped, TxnRecord
  <2>2. IsFiniteSet(txn.written) /\ txn.written \subseteq Nat
    BY <2>1, FileAssumption, FS_Subset
  <2> QED BY <2>1, <2>2, MaxInSet DEF TypeInv, TypeOK
<1>2. /\ txn.pc = "rollback" /\ saved' = saved
      /\ file' = [file EXCEPT ![f] = txn.plan[f].original]
      /\ txn' = [txn EXCEPT !.written = txn.written \ {f}]
  BY DEF RollbackFile
<1> HIDE DEF f
<1>3. /\ txn'.pc = "rollback" /\ txn'.req = txn.req /\ txn'.plan = txn.plan
      /\ txn'.failed = txn.failed /\ txn'.stuck = txn.stuck
      /\ txn'.written = txn.written \ {f}
  BY <1>2 DEF TypeInv, TxnTyped, TxnRecord
<1>4. file'[f] = txn.plan[f].original /\ \A g : g # f => file'[g] = file[g]
  BY <1>1, <1>2
<1> QED
  BY <1>2, <1>3, <1>4
     DEF RequestStands, PlanningStands, WritingStands, RollbackStands,
         NothingLeftWritten, AllOrNothing, Original, Edited

LEMMA RequestInvariant == Spec => []RequestStands
<1>1. Init => RequestStands
  BY DEF Init, Idle, RequestStands, PlanningStands, WritingStands, RollbackStands,
     NothingLeftWritten, AllOrNothing
<1>2. TypeInv /\ RequestStands /\ [Next]_vars => RequestStands'
  <2> SUFFICES ASSUME TypeInv, RequestStands, [Next]_vars PROVE RequestStands'
    OBVIOUS
  <2>1. ASSUME UNCHANGED <<file, txn, saved>> PROVE RequestStands'
    BY <2>1 DEF RequestStands, PlanningStands, WritingStands, RollbackStands,
       NothingLeftWritten, AllOrNothing, Original, Edited
  <2>2. ASSUME txn' = Idle PROVE RequestStands'
    BY <2>2 DEF Idle, RequestStands, PlanningStands, WritingStands, RollbackStands,
       NothingLeftWritten, AllOrNothing
  <2>3. ASSUME NEW req \in Requests, Submit(req) PROVE RequestStands'
    <3>1. txn' = [pc |-> "plan", req |-> req, todo |-> DOMAIN req, plan |-> <<>>,
                  failed |-> FALSE, written |-> {}, stuck |-> FALSE]
      BY <2>3 DEF Submit, Idle
    <3> QED
      BY <3>1 DEF RequestStands, PlanningStands, WritingStands, RollbackStands,
         NothingLeftWritten, AllOrNothing
  <2>4. ASSUME PlanUnreadable PROVE RequestStands'
    <3>1. PICK f : txn' = [txn EXCEPT !.todo = txn.todo \ {f}, !.failed = TRUE]
      BY <2>4 DEF PlanUnreadable
    <3>2. /\ txn'.pc = "plan" /\ txn'.written = txn.written /\ txn'.stuck = txn.stuck
          /\ txn'.todo = txn.todo \ {f} /\ txn'.plan = txn.plan /\ txn'.failed
          /\ txn.pc = "plan" /\ saved' = saved /\ file' = file
      BY <3>1, <2>4 DEF TypeInv, TxnTyped, TxnRecord, PlanUnreadable
    <3> QED
      BY <3>2 DEF RequestStands, PlanningStands, WritingStands, RollbackStands,
         NothingLeftWritten, AllOrNothing, Original
  <2>5. ASSUME Planned PROVE RequestStands'
    <3>1. /\ txn.pc = "plan" /\ txn.todo = {} /\ saved' = saved /\ file' = file
          /\ txn'.pc = IF txn.failed THEN "release" ELSE "write"
          /\ txn'.todo = IF txn.failed THEN txn.todo ELSE DOMAIN txn.req
          /\ txn'.req = txn.req /\ txn'.plan = txn.plan /\ txn'.failed = txn.failed
          /\ txn'.written = txn.written /\ txn'.stuck = txn.stuck
      BY <2>5 DEF TypeInv, TxnTyped, TxnRecord, Planned
    <3> QED
      BY <3>1 DEF RequestStands, PlanningStands, WritingStands, RollbackStands,
         NothingLeftWritten, AllOrNothing, Original, Edited
  <2>6. ASSUME WriteFails PROVE RequestStands'
    <3>1. /\ txn.pc = "write" /\ saved' = saved /\ file' = file
          /\ txn'.pc = "rollback" /\ txn'.failed
          /\ txn'.req = txn.req /\ txn'.plan = txn.plan
          /\ txn'.written = txn.written /\ txn'.stuck = txn.stuck
      BY <2>6 DEF TypeInv, TxnTyped, TxnRecord, WriteFails
    <3> QED
      BY <3>1 DEF RequestStands, PlanningStands, WritingStands, RollbackStands,
         NothingLeftWritten, AllOrNothing, Original, Edited
  <2>7. ASSUME RollbackFails PROVE RequestStands'
    <3>1. txn'.pc = "release" /\ txn'.stuck
      BY <2>7 DEF TypeInv, TxnTyped, TxnRecord, RollbackFails
    <3> QED
      BY <3>1 DEF RequestStands, PlanningStands, WritingStands, RollbackStands,
         NothingLeftWritten, AllOrNothing
  <2>8. ASSUME WritesDone PROVE RequestStands'
    <3>1. \/ txn.pc = "write" /\ txn.todo = {}
          \/ txn.pc = "rollback" /\ txn.written = {}
      BY <2>8 DEF WritesDone
    <3>2. /\ saved' = saved /\ file' = file /\ txn'.pc = "release"
          /\ txn'.req = txn.req /\ txn'.plan = txn.plan /\ txn'.failed = txn.failed
          /\ txn'.written = txn.written /\ txn'.stuck = txn.stuck
      BY <2>8 DEF TypeInv, TxnTyped, TxnRecord, WritesDone
    <3> QED
      BY <3>1, <3>2 DEF RequestStands, PlanningStands, WritingStands, RollbackStands,
         NothingLeftWritten, AllOrNothing, Original, Edited
  <2> QED
    BY <2>1, <2>2, <2>3, <2>4, <2>5, <2>6, <2>7, <2>8, SaveKeepsRequest, PlanKeepsRequest,
       WriteKeepsRequest, RollbackKeepsRequest
       DEF Next, vars, Prepare, Expire, SuppressionEnds, WatchReconcile, Release, Crash
<1> QED BY <1>1, <1>2, TypeInvariant, PTL DEF Spec

(* A request over several files ends with every file edited or every file  *)
(* as it was, although the writes go one by one and any of them can fail.  *)
THEOREM RequestIsAtomic == Spec => []AllOrNothing
<1>1. RequestStands => AllOrNothing
  BY DEF RequestStands
<1> QED BY <1>1, RequestInvariant, PTL

-----------------------------------------------------------------------------
(* What can make the graph differ from a file: an event that waits, a      *)
(* change nobody was told of, or a write of the request under way.  What   *)
(* the request would restore is in the graph unless one of the first two   *)
(* holds: no reconcile comes between its planning and its rollback.        *)
GraphStands ==
  /\ \A f \in File \ hidden : pending \/ f \in txn.written \/ indexed[f] = file[f]
  /\ txn.pc # "idle" =>
       \A f \in DOMAIN txn.plan \ hidden : pending \/ indexed[f] = txn.plan[f].original

GraphInv == TypeInv /\ RequestStands /\ GraphStands

(* A file is written while its events may be suppressed; until then the    *)
(* request has it among its written files.                                 *)
LEMMA WriteKeepsGraph ==
  ASSUME GraphInv, WriteFile \/ RollbackFile
  PROVE  GraphStands'
<1>1. DOMAIN file = File /\ txn \in TxnRecord /\ DOMAIN txn.plan \subseteq File
  BY DEF GraphInv, TypeInv, TypeOK, TxnTyped
<1>2. /\ hidden' = hidden /\ indexed' = indexed /\ (pending => pending')
  BY DEF WriteFile, RollbackFile, Notice
<1>3. CASE WriteFile
  <2> DEFINE f == MinOf(txn.todo)
  <2>1. f \in txn.todo /\ f \in File
    BY <1>3, MinInSet, FileAssumption DEF WriteFile, GraphInv, TypeInv, TypeOK, TxnTyped, TxnRecord
  <2>2. /\ file' = [file EXCEPT ![f] = txn.plan[f].next]
        /\ txn' = [txn EXCEPT !.todo = txn.todo \ {f}, !.written = txn.written \cup {f}]
    BY <1>3 DEF WriteFile
  <2> HIDE DEF f
  <2>3. /\ txn'.pc = txn.pc /\ txn'.plan = txn.plan /\ txn'.written = txn.written \cup {f}
        /\ \A g : g # f => file'[g] = file[g]
    BY <2>2, <1>1 DEF TxnRecord
  <2> QED BY <1>1, <1>2, <2>1, <2>3 DEF GraphInv, GraphStands
<1>4. CASE RollbackFile
  <2> DEFINE f == MaxOf(txn.written)
  <2>1. f \in txn.written /\ f \in File /\ f \in DOMAIN txn.plan /\ txn.pc = "rollback"
    <3>1. txn.written # {} /\ txn.written \subseteq File /\ txn.pc = "rollback"
      BY <1>4, <1>1 DEF RollbackFile, TxnRecord
    <3>2. IsFiniteSet(txn.written) /\ txn.written \subseteq Nat
      BY <3>1, FileAssumption, FS_Subset
    <3>3. f \in txn.written
      BY <3>1, <3>2, MaxInSet
    <3>4. txn.written \subseteq DOMAIN txn.plan
      BY <3>1 DEF GraphInv, TypeInv, TypeOK, RequestStands, RollbackStands
    <3> QED BY <3>1, <3>3, <3>4
  <2>2. /\ file' = [file EXCEPT ![f] = txn.plan[f].original]
        /\ txn' = [txn EXCEPT !.written = txn.written \ {f}]
    BY <1>4 DEF RollbackFile
  <2> HIDE DEF f
  <2>3. /\ txn'.pc = txn.pc /\ txn'.plan = txn.plan /\ txn'.written = txn.written \ {f}
        /\ \A g : g # f => file'[g] = file[g]
        /\ file'[f] = txn.plan[f].original
    BY <2>1, <2>2, <1>1 DEF TxnRecord
  <2>4. \A g \in DOMAIN txn.plan \ hidden : pending \/ indexed[g] = txn.plan[g].original
    BY <2>1 DEF GraphInv, GraphStands
  <2> QED BY <1>1, <1>2, <2>1, <2>3, <2>4 DEF GraphInv, GraphStands
<1> QED BY <1>3, <1>4

(* With no request under way and no event waiting, every file the graph    *)
(* has otherwise than the disk is one of the three known exceptions: a     *)
(* save under suppression, a request that crashed or stuck half way, or a  *)
(* reconcile that failed after a request.                                  *)
THEOREM GraphKeepsUp == Spec => []GraphIsCurrent
<1>1. Init => GraphStands
  BY DEF Init, Idle, GraphStands
<1>2. GraphInv /\ [Next]_vars => GraphStands'
  <2> SUFFICES ASSUME GraphInv, [Next]_vars PROVE GraphStands'
    OBVIOUS
  <2>0. txn \in TxnRecord /\ DOMAIN file = File /\ DOMAIN txn.plan \subseteq File
    BY DEF GraphInv, TypeInv, TypeOK, TxnTyped
  <2>1. ASSUME UNCHANGED <<file, txn, pending, indexed, hidden>> PROVE GraphStands'
    BY <2>1 DEF GraphInv, GraphStands
  <2>2. ASSUME NEW f \in File, NEW lines \in Saves, Save(f, lines) PROVE GraphStands'
    <3>1. /\ file' = [file EXCEPT ![f] = lines]
          /\ txn' = txn /\ indexed' = indexed
          /\ pending' = (pending \/ f \notin suppressed)
          /\ hidden' = IF f \in suppressed THEN hidden \cup {f} ELSE hidden
      BY <2>2 DEF Save, Notice
    <3>2. \A g : g # f => file'[g] = file[g]
      BY <3>1
    <3> QED BY <3>1, <3>2 DEF GraphInv, GraphStands
  <2>3. ASSUME WatchReconcile PROVE GraphStands'
    BY <2>3 DEF WatchReconcile, Reconciled, GraphInv, GraphStands
  <2>4. ASSUME NEW req \in Requests, Submit(req) PROVE GraphStands'
    <3>1. txn.pc = "idle" /\ UNCHANGED <<file, pending, indexed, hidden>>
          /\ txn' = [pc |-> "plan", req |-> req, todo |-> DOMAIN req, plan |-> <<>>,
                      failed |-> FALSE, written |-> {}, stuck |-> FALSE]
      BY <2>4 DEF Submit, Idle
    <3>2. txn.written = {}
      BY <3>1 DEF GraphInv, RequestStands, NothingLeftWritten
    <3> QED BY <3>1, <3>2 DEF GraphInv, GraphStands
  <2>5. ASSUME PlanFile PROVE GraphStands'
    <3> DEFINE f == MinOf(txn.todo)
               good == IsCurrent(f) /\ HasAnchors(f) /\ ~Overlaps(txn.req[f].plan)
               next == ApplyPlan(file[f], txn.req[f].plan)
    <3>1. /\ UNCHANGED <<file, pending, indexed, hidden>> /\ txn.pc = "plan"
          /\ txn' = IF good /\ next = Panic THEN Idle
                    ELSE [txn EXCEPT
                           !.todo = txn.todo \ {f},
                           !.plan = IF good THEN PlanWith(f, [original |-> file[f], next |-> next])
                                    ELSE txn.plan,
                           !.failed = txn.failed \/ ~good]
      BY <2>5 DEF PlanFile
    <3>2. f \in File
      BY <2>5, MinInSet, FileAssumption, <2>0 DEF PlanFile, TxnRecord
    <3> HIDE DEF f, good, next
    <3>3. txn.written = {} /\ \A g \in File \ hidden : pending \/ indexed[g] = file[g]
      BY <3>1 DEF GraphInv, GraphStands, RequestStands, PlanningStands
    <3>4. CASE good /\ next = Panic
      <4>1. txn' = Idle
        BY <3>1, <3>4
      <4> QED BY <4>1, <3>1, <3>3 DEF Idle, GraphStands
    <3>5. CASE ~(good /\ next = Panic)
      <4> DEFINE plan == IF good THEN PlanWith(f, [original |-> file[f], next |-> next])
                         ELSE txn.plan
      <4>1. ASSUME NEW g \in DOMAIN plan
            PROVE  \/ g \in DOMAIN txn.plan /\ plan[g] = txn.plan[g]
                   \/ g = f /\ plan[g].original = file[g]
        BY DEF PlanWith
      <4> HIDE DEF plan
      <4>2. txn'.written = txn.written /\ txn'.plan = plan
        BY <3>1, <3>5, <2>0 DEF TxnRecord, plan
      <4>3. \A g \in DOMAIN txn.plan \ hidden : pending \/ indexed[g] = txn.plan[g].original
        BY <3>1 DEF GraphInv, GraphStands
      <4> QED BY <4>1, <4>2, <4>3, <3>1, <3>2, <3>3 DEF GraphStands
    <3> QED BY <3>4, <3>5
  <2>6. ASSUME PlanUnreadable \/ Planned \/ WriteFails \/ RollbackFails \/ WritesDone
        PROVE  GraphStands'
    <3>1. /\ UNCHANGED <<file, pending, indexed, hidden>> /\ txn.pc # "idle"
          /\ txn'.plan = txn.plan /\ txn'.written = txn.written
      BY <2>6, <2>0
         DEF PlanUnreadable, Planned, WriteFails, RollbackFails, WritesDone, TxnRecord
    <3> QED BY <3>1 DEF GraphInv, GraphStands
  <2>7. ASSUME Release PROVE GraphStands'
    <3>1. txn' = Idle /\ UNCHANGED <<file, pending>> /\ txn.pc = "release"
      BY <2>7 DEF Release
    <3>2. CASE Reconciled
      BY <3>1, <3>2 DEF Reconciled, Idle, GraphStands
    <3>3. CASE indexed' = indexed /\ hidden' = hidden \cup txn.written
      BY <3>1, <3>3 DEF Idle, GraphInv, GraphStands
    <3>4. CASE indexed' = indexed /\ hidden' = hidden /\ txn.failed /\ ~txn.stuck
      BY <3>1, <3>4 DEF Idle, GraphInv, GraphStands, RequestStands, NothingLeftWritten
    <3> QED BY <2>7, <3>2, <3>3, <3>4 DEF Release
  <2>8. ASSUME Crash PROVE GraphStands'
    BY <2>8 DEF Crash, Idle, GraphInv, GraphStands
  <2> QED
    BY <2>1, <2>2, <2>3, <2>4, <2>5, <2>6, <2>7, <2>8, WriteKeepsGraph
       DEF Next, vars, Prepare, Expire, SuppressionEnds
<1>3. GraphInv => GraphIsCurrent
  BY DEF GraphInv, GraphStands, GraphIsCurrent, RequestStands, NothingLeftWritten
<1> QED BY <1>1, <1>2, <1>3, TypeInvariant, RequestInvariant, PTL DEF Spec, GraphInv

-----------------------------------------------------------------------------
(* A planned file was compared with the session its request cites, and its *)
(* new content is made of that; sessions do not change while others are    *)
(* prepared, put out or lost.                                              *)
PlanFromSession ==
  \A f \in DOMAIN txn.plan :
    /\ txn.req[f].session \in DOMAIN issued
    /\ txn.plan[f].original = Session(f).content
    /\ txn.plan[f].next = ApplyPlan(txn.plan[f].original, txn.req[f].plan)

LEMMA PlanFromSessionInvariant == Spec => []PlanFromSession
<1>1. Init => PlanFromSession
  BY DEF Init, Idle, PlanFromSession
<1>2. TypeInv /\ PlanFromSession /\ [Next]_vars => PlanFromSession'
  <2> SUFFICES ASSUME TypeInv, PlanFromSession, [Next]_vars PROVE PlanFromSession'
    OBVIOUS
  <2>0. txn \in TxnRecord
    BY DEF TypeInv, TxnTyped
  <2>1. ASSUME txn'.plan = txn.plan, txn'.req = txn.req, issued' = issued
        PROVE  PlanFromSession'
    BY <2>1 DEF PlanFromSession, Session
  <2>2. ASSUME txn' = Idle PROVE PlanFromSession'
    BY <2>2 DEF Idle, PlanFromSession
  <2>3. ASSUME NEW f \in File, NEW range \in Ranges, Prepare(f, range)
        PROVE  PlanFromSession'
    <3>1. PICK s : issued' = Append(issued, s)
      BY <2>3 DEF Prepare
    <3>2. issued \in Seq({issued[i] : i \in DOMAIN issued})
      BY DEF TypeInv, SessionsTyped
    <3>3. \A i \in DOMAIN issued : i \in DOMAIN issued' /\ issued'[i] = issued[i]
      BY <3>1, <3>2, AppendKeeps
    <3>4. txn' = txn
      BY <2>3 DEF Prepare
    <3> QED BY <3>3, <3>4 DEF PlanFromSession, Session
  <2>4. ASSUME NEW req \in Requests, Submit(req) PROVE PlanFromSession'
    <3>1. txn' = [pc |-> "plan", req |-> req, todo |-> DOMAIN req, plan |-> <<>>,
                  failed |-> FALSE, written |-> {}, stuck |-> FALSE]
      BY <2>4 DEF Submit, Idle
    <3> QED BY <3>1 DEF PlanFromSession
  <2>5. ASSUME PlanFile PROVE PlanFromSession'
    <3> DEFINE f == MinOf(txn.todo)
               good == IsCurrent(f) /\ HasAnchors(f) /\ ~Overlaps(txn.req[f].plan)
               next == ApplyPlan(file[f], txn.req[f].plan)
    <3>1. /\ issued' = issued
          /\ txn' = IF good /\ next = Panic THEN Idle
                    ELSE [txn EXCEPT
                           !.todo = txn.todo \ {f},
                           !.plan = IF good THEN PlanWith(f, [original |-> file[f], next |-> next])
                                    ELSE txn.plan,
                           !.failed = txn.failed \/ ~good]
      BY <2>5 DEF PlanFile
    <3>2. good => txn.req[f].session \in DOMAIN issued /\ Session(f).content = file[f]
      BY DEF IsCurrent, TypeInv, TypeOK
    <3>3. next = ApplyPlan(file[f], txn.req[f].plan)
      OBVIOUS
    <3> HIDE DEF f, good, next
    <3>4. CASE good /\ next = Panic
      BY <2>2, <3>1, <3>4
    <3>5. CASE ~good
      <4>1. txn'.plan = txn.plan /\ txn'.req = txn.req
        BY <3>1, <3>5, <2>0 DEF TxnRecord
      <4> QED BY <4>1, <3>1, <2>1
    <3>6. CASE good /\ next # Panic
      <4> DEFINE plan == PlanWith(f, [original |-> file[f], next |-> next])
      <4>1. txn'.plan = plan /\ txn'.req = txn.req
        BY <3>1, <3>6, <2>0 DEF TxnRecord
      <4>2. /\ DOMAIN plan = DOMAIN txn.plan \cup {f}
            /\ plan[f].original = file[f] /\ plan[f].next = next
            /\ \A g \in DOMAIN txn.plan \ {f} : plan[g] = txn.plan[g]
        BY DEF PlanWith
      <4> HIDE DEF plan
      <4> QED BY <4>1, <4>2, <3>1, <3>2, <3>3, <3>6 DEF PlanFromSession, Session
    <3> QED BY <3>4, <3>5, <3>6
  <2>6. ASSUME \/ PlanUnreadable \/ Planned \/ WriteFile \/ WriteFails \/ RollbackFile
               \/ RollbackFails \/ WritesDone
        PROVE  PlanFromSession'
    <3>1. issued' = issued /\ txn'.plan = txn.plan /\ txn'.req = txn.req
      BY <2>6, <2>0
         DEF PlanUnreadable, Planned, WriteFile, WriteFails, RollbackFile, RollbackFails,
             WritesDone, TxnRecord
    <3> QED BY <3>1, <2>1
  <2> QED
    BY <2>1, <2>2, <2>3, <2>4, <2>5, <2>6
       DEF Next, vars, Expire, Save, SuppressionEnds, WatchReconcile, Release, Crash
<1> QED BY <1>1, <1>2, TypeInvariant, PTL DEF Spec

(* What is written is what the plan makes of the content the caller was    *)
(* shown, and what it replaces is that very content unless the editor came *)
(* between the planning and the write.                                     *)
THEOREM EditsAreOfTheShownContent == Spec => EditsStartFromShown
<1> DEFINE A == \A f \in File : txn.pc = "write" /\ f \in txn'.written \ txn.written =>
                  /\ f \notin saved => file[f] = Session(f).content
                  /\ file'[f] = ApplyPlan(Session(f).content, txn.req[f].plan)
<1>1. TypeInv /\ RequestStands /\ PlanFromSession /\ [Next]_vars => [A]_vars
  <2> SUFFICES ASSUME TypeInv, RequestStands, PlanFromSession, Next,
                      NEW f \in File, txn.pc = "write", f \in txn'.written \ txn.written
               PROVE  /\ f \notin saved => file[f] = Session(f).content
                      /\ file'[f] = ApplyPlan(Session(f).content, txn.req[f].plan)
    OBVIOUS
  <2>1. txn \in TxnRecord /\ DOMAIN file = File
    BY DEF TypeInv, TypeOK, TxnTyped
  <2>2. WriteFile
    <3>1. txn' # txn /\ txn' # Idle
      BY DEF Idle
    <3>2. ~WriteFails /\ ~WritesDone
      BY <2>1 DEF WriteFails, WritesDone, TxnRecord
    <3>3. ~PlanFile /\ ~PlanUnreadable /\ ~Planned /\ ~RollbackFile /\ ~RollbackFails /\ ~Release
      BY DEF PlanFile, PlanUnreadable, Planned, RollbackFile, RollbackFails, Release
    <3>4. \A req : ~Submit(req)
      BY DEF Submit
    <3> QED
      BY <3>1, <3>2, <3>3, <3>4
         DEF Next, Prepare, Expire, Save, SuppressionEnds, WatchReconcile, Crash
  <2>3. f = MinOf(txn.todo) /\ txn.todo # {}
    <3>1. txn'.written = txn.written \cup {MinOf(txn.todo)} /\ txn.todo # {}
      BY <2>1, <2>2 DEF WriteFile, TxnRecord
    <3> QED BY <3>1
  <2>4. file'[f] = txn.plan[f].next
    BY <2>1, <2>2, <2>3 DEF WriteFile
  <2>5. f \in txn.todo
    BY <2>3, <2>1, MinInSet, FileAssumption DEF TxnRecord
  <2>6. f \in DOMAIN txn.plan /\ (f \notin saved => file[f] = txn.plan[f].original)
    BY <2>5 DEF RequestStands, WritingStands, Original
  <2> QED BY <2>4, <2>6 DEF PlanFromSession
<1>2. EditsStartFromShown <=> [][A]_vars
  BY DEF EditsStartFromShown
<1> QED
  BY <1>1, <1>2, TypeInvariant, RequestInvariant, PlanFromSessionInvariant, PTL DEF Spec
=============================================================================
