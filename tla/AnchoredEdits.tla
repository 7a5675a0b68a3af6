--------------------------- MODULE AnchoredEdits ---------------------------
(***************************************************************************)
(* Source edits through line anchors: a caller prepares a file (its lines  *)
(* get anchors that are kept in a session), and later applies edits that   *)
(* name the session, the content's hash and anchors.  One request may edit *)
(* several files: all are planned before one is written, and what was      *)
(* written is put back when a write fails.                                 *)
(*                                                                         *)
(* Around it: an editor that saves files without any lock, the watch       *)
(* service, told not to react to events of the edited files for a while,   *)
(* and the graph, whose view of a file is as old as the last reconcile.    *)
(* The writer lock lets one request apply at a time (WriterLock).          *)
(***************************************************************************)
EXTENDS Integers, Sequences, FiniteSets, SequencesExt

CONSTANTS
  File,         \* files, numbered in the order requests are worked off
  Begin,        \* the contents a file may have at first
  Saves,        \* what the editor saves; a content is a sequence of lines,
                \* each of them ended by a newline
  Plans,        \* [File -> what a request may ask of the file]: a sequence of
                \* records [kind, start, end, text]
  Ranges,       \* the lines <<from, to>> a caller asks to have prepared
  MaxSessions,  \* AnchorManager.max_entries
  MaxPrepares,  \* prepared sessions (bound for checking)
  MaxSaves,     \* saves of the editor (bound for checking)
  MaxApplies,   \* requests (bound for checking)
  Panic         \* the handler panicked: no content

Kind == {"insert_before", "insert_after", "replace", "delete"}

ASSUME FileAssumption  == File \subseteq Nat /\ IsFiniteSet(File)
ASSUME PlanAssumption  == \A f \in File : \A p \in Plans[f] : \A i \in DOMAIN p :
                            p[i].kind \in Kind /\ p[i].start \in Nat \ {0} /\ p[i].end \in Nat
ASSUME BoundAssumption == {MaxSessions, MaxPrepares, MaxSaves, MaxApplies} \subseteq Nat

-----------------------------------------------------------------------------
(* The plan of one file.  Lines count from 1.                                *)

Interval(e) == CASE e.kind = "insert_before"       -> <<e.start, e.start>>
                 [] e.kind = "insert_after"        -> <<e.start + 1, e.start + 1>>
                 [] e.kind \in {"replace", "delete"} -> <<e.start, e.end + 1>>

Before(a, b) == a[1] < b[1] \/ (a[1] = b[1] /\ a[2] < b[2])

(* reject_overlaps: neighbours in the order of the intervals.                *)
Overlaps(plan) ==
  LET order == SetToSortSeq(DOMAIN plan, LAMBDA i, j :
                 \/ Before(Interval(plan[i]), Interval(plan[j]))
                 \/ Interval(plan[i]) = Interval(plan[j]) /\ i < j)
  IN  \E k \in 1..(Len(order) - 1) :
        LET a == Interval(plan[order[k]])
            b == Interval(plan[order[k + 1]])
        IN  a[2] > b[1] \/ (a = b /\ a[1] = a[2])

(* lines[from, to) becomes text; a range that starts behind the end panics.  *)
Splice(lines, from, to, text) ==
  IF lines = Panic \/ from > Len(lines) + 1 \/ to > Len(lines) + 1 THEN Panic
  ELSE SubSeq(lines, 1, from - 1) \o text \o SubSeq(lines, to, Len(lines))

ApplyEdit(lines, e) == Splice(lines, Interval(e)[1], Interval(e)[2], e.text)

(* Mutant: the first edit is applied first and moves the lines of the rest.  *)
ApplyOrder_FirstFirst(plan) ==
  LET key(i) == <<plan[i].start, plan[i].end>>
  IN  SetToSortSeq(DOMAIN plan, LAMBDA i, j :
        Before(key(i), key(j)) \/ (key(i) = key(j) /\ i < j))

(* A stable sort by (start, end), the last first.                            *)
ApplyOrder(plan) ==
  LET key(i) == <<plan[i].start, plan[i].end>>
  IN  SetToSortSeq(DOMAIN plan, LAMBDA i, j :
        Before(key(j), key(i)) \/ (key(i) = key(j) /\ i < j))

(* The lines are joined, and a newline is added unless there is one at the   *)
(* end already: an empty last line is lost, no lines become an empty one.    *)
Joined(lines) ==
  CASE lines = Panic -> Panic
    [] lines = <<>>  -> <<"">>
    [] Len(lines) > 1 /\ Last(lines) = "" -> Front(lines)
    [] OTHER -> lines

ApplyPlan(lines, plan) ==
  Joined(FoldLeft(LAMBDA acc, i : ApplyEdit(acc, plan[i]), lines, ApplyOrder(plan)))

(* What the edits ask for, each at its place in the prepared content.        *)
Requested(lines, plan) ==
  LET texts(kinds, i) == FlattenSeq([k \in DOMAIN plan |->
                           IF plan[k].kind \in kinds /\ plan[k].start = i
                           THEN plan[k].text ELSE <<>>])
      covered(i) == \E k \in DOMAIN plan : plan[k].kind \in {"replace", "delete"}
                                           /\ i \in plan[k].start..plan[k].end
  IN  FlattenSeq([i \in DOMAIN lines |->
        texts({"insert_before"}, i) \o texts({"replace"}, i)
          \o (IF covered(i) THEN <<>> ELSE <<lines[i]>>) \o texts({"insert_after"}, i)])

-----------------------------------------------------------------------------
VARIABLES
  file,       \* [File -> its lines on disk]
  cache,      \* the sessions of the anchor manager, oldest first
  issued,     \* the sessions that callers hold, in the order of their versions
  txn,        \* the request under way
  suppressed, \* files whose events the watch service drops
  pending,    \* the watch service has events to reconcile
  indexed,    \* [File -> the lines at the last reconcile]
  saves, applies, \* counters of the bounds
  saved,      \* history: files the editor saved since they were planned
  hidden      \* history: files that may have changed with nobody told

vars == <<file, cache, issued, txn, suppressed, pending, indexed, saves, applies, saved, hidden>>

Idle == [pc |-> "idle", req |-> <<>>, todo |-> {}, plan |-> <<>>, failed |-> FALSE,
         written |-> {}, stuck |-> FALSE]

MinOf(S) == CHOOSE x \in S : \A y \in S : x <= y
MaxOf(S) == CHOOSE x \in S : \A y \in S : x >= y

Init ==
  /\ file \in [File -> Begin]
  /\ indexed = file
  /\ cache = <<>> /\ issued = <<>>
  /\ txn = Idle
  /\ suppressed = {} /\ pending = FALSE
  /\ saves = 0 /\ applies = 0
  /\ saved = {} /\ hidden = {}

-----------------------------------------------------------------------------
(* Sessions *)

Least(a, b) == IF a <= b THEN a ELSE b

(* Mutant: no session is put out. *)
Prepare_Unbounded(f, range) ==
  /\ Len(issued) < MaxPrepares /\ file[f] # <<>>
  /\ issued' = Append(issued, [path |-> f, content |-> file[f], from |-> 1, to |-> Len(file[f])])
  /\ cache' = Append(cache, Len(issued'))
  /\ UNCHANGED <<file, txn, suppressed, pending, indexed, saves, applies, saved, hidden>>

(* prepare_edit_context: anchors for the lines asked for that there are;     *)
(* over the limit the oldest session goes.  An empty file has no anchors.    *)
Prepare(f, range) ==
  LET from == Least(range[1], Len(file[f]))
      to == Least(IF range[2] > from THEN range[2] ELSE from, Len(file[f]))
      s == [path |-> f, content |-> file[f], from |-> from, to |-> to]
  IN  /\ Len(issued) < MaxPrepares /\ file[f] # <<>>
      /\ issued' = Append(issued, s)
      /\ LET c == Append(cache, Len(issued'))
         IN  cache' = IF Len(c) > MaxSessions THEN Tail(c) ELSE c
      /\ UNCHANGED <<file, txn, suppressed, pending, indexed, saves, applies, saved, hidden>>

(* The time to live of the oldest session is over. *)
Expire ==
  /\ cache # <<>>
  /\ cache' = Tail(cache)
  /\ UNCHANGED <<file, issued, txn, suppressed, pending, indexed, saves, applies, saved, hidden>>

-----------------------------------------------------------------------------
(* The editor and the watch service *)

(* An event of a suppressed file is dropped. *)
Notice(f) == pending' = (pending \/ f \notin suppressed)

Save(f, lines) ==
  /\ saves < MaxSaves /\ lines # file[f]
  /\ saves' = saves + 1
  /\ file' = [file EXCEPT ![f] = lines]
  /\ Notice(f)
  /\ saved' = saved \cup {f}
  /\ hidden' = IF f \in suppressed THEN hidden \cup {f} ELSE hidden
  /\ UNCHANGED <<cache, issued, txn, suppressed, indexed, applies>>

SuppressionEnds(f) ==
  /\ f \in suppressed
  /\ suppressed' = suppressed \ {f}
  /\ UNCHANGED <<file, cache, issued, txn, pending, indexed, saves, applies, saved, hidden>>

(* Every file is read again, not only those of the events. *)
Reconciled == indexed' = file /\ hidden' = {}

WatchReconcile ==
  /\ pending /\ txn.pc = "idle"
  /\ pending' = FALSE
  /\ Reconciled
  /\ UNCHANGED <<file, cache, issued, txn, suppressed, saves, applies, saved>>

-----------------------------------------------------------------------------
(* apply_anchor_edits *)

(* A request names for each file a session and edits.  The watch service is  *)
(* told to drop events before anything is known of the edits; it may be too  *)
(* busy to hear it.                                                          *)
Submit(req) ==
  /\ txn.pc = "idle" /\ applies < MaxApplies
  /\ applies' = applies + 1
  /\ txn' = [Idle EXCEPT !.pc = "plan", !.req = req, !.todo = DOMAIN req]
  /\ suppressed' \in {suppressed, suppressed \cup DOMAIN req}
  /\ saved' = {}
  /\ UNCHANGED <<file, cache, issued, pending, indexed, saves, hidden>>

Session(f) == issued[txn.req[f].session]

(* Mutant: the hash the session was prepared with is not compared. *)
IsCurrent_AnyContent(f) ==
  \E i \in DOMAIN cache : cache[i] = txn.req[f].session

(* The session is still there and the content is the one it was made of.     *)
IsCurrent(f) ==
  /\ \E i \in DOMAIN cache : cache[i] = txn.req[f].session
  /\ Session(f).content = file[f]

HasAnchors(f) ==
  LET p == txn.req[f].plan
  IN  \A i \in DOMAIN p : /\ {p[i].start, p[i].end} \subseteq Session(f).from..Session(f).to
                          /\ p[i].start <= p[i].end

PlanWith(f, edited) ==
  [g \in DOMAIN txn.plan \cup {f} |-> IF g = f THEN edited ELSE txn.plan[g]]

(* plan_one_file: a file that is refused does not end the planning.          *)
PlanFile ==
  /\ txn.pc = "plan" /\ txn.todo # {}
  /\ LET f == MinOf(txn.todo)
         p == txn.req[f].plan
         next == ApplyPlan(file[f], p)
         good == IsCurrent(f) /\ HasAnchors(f) /\ ~Overlaps(p)
     IN  /\ txn' = IF good /\ next = Panic THEN Idle
                   ELSE [txn EXCEPT
                          !.todo = @ \ {f},
                          !.plan = IF good THEN PlanWith(f, [original |-> file[f], next |-> next])
                                   ELSE @,
                          !.failed = @ \/ ~good]
         /\ saved' = saved \ {f}
  /\ UNCHANGED <<file, cache, issued, suppressed, pending, indexed, saves, applies, hidden>>

(* An unreadable file, or one whose path resolves elsewhere now.             *)
PlanUnreadable ==
  /\ txn.pc = "plan" /\ txn.todo # {}
  /\ txn' = [txn EXCEPT !.todo = @ \ {MinOf(txn.todo)}, !.failed = TRUE]
  /\ UNCHANGED <<file, cache, issued, suppressed, pending, indexed, saves, applies, saved, hidden>>

(* Mutant: the files that were planned are written, whatever the others say. *)
Planned_WritesTheRest ==
  /\ txn.pc = "plan" /\ txn.todo = {}
  /\ txn' = [txn EXCEPT !.pc = "write", !.todo = DOMAIN txn.plan]
  /\ UNCHANGED <<file, cache, issued, suppressed, pending, indexed, saves, applies, saved, hidden>>

(* Preflight of all files comes before the first write.                      *)
Planned ==
  /\ txn.pc = "plan" /\ txn.todo = {}
  /\ txn' = IF txn.failed THEN [txn EXCEPT !.pc = "release"]
            ELSE [txn EXCEPT !.pc = "write", !.todo = DOMAIN txn.req]
  /\ UNCHANGED <<file, cache, issued, suppressed, pending, indexed, saves, applies, saved, hidden>>

WriteFile ==
  /\ txn.pc = "write" /\ txn.todo # {}
  /\ LET f == MinOf(txn.todo)
     IN  /\ file' = [file EXCEPT ![f] = txn.plan[f].next]
         /\ Notice(f)
         /\ txn' = [txn EXCEPT !.todo = @ \ {f}, !.written = @ \cup {f}]
  /\ UNCHANGED <<cache, issued, suppressed, indexed, saves, applies, saved, hidden>>

WriteFails ==
  /\ txn.pc = "write" /\ txn.todo # {}
  /\ txn' = [txn EXCEPT !.pc = "rollback", !.failed = TRUE]
  /\ UNCHANGED <<file, cache, issued, suppressed, pending, indexed, saves, applies, saved, hidden>>

(* rollback_written: the last one first, up to one that cannot be restored.  *)
RollbackFile ==
  /\ txn.pc = "rollback" /\ txn.written # {}
  /\ LET f == MaxOf(txn.written)
     IN  /\ file' = [file EXCEPT ![f] = txn.plan[f].original]
         /\ Notice(f)
         /\ txn' = [txn EXCEPT !.written = @ \ {f}]
  /\ UNCHANGED <<cache, issued, suppressed, indexed, saves, applies, saved, hidden>>

RollbackFails ==
  /\ txn.pc = "rollback" /\ txn.written # {}
  /\ txn' = [txn EXCEPT !.pc = "release", !.stuck = TRUE]
  /\ UNCHANGED <<file, cache, issued, suppressed, pending, indexed, saves, applies, saved, hidden>>

WritesDone ==
  /\ txn.pc \in {"write", "rollback"}
  /\ IF txn.pc = "write" THEN txn.todo = {} ELSE txn.written = {}
  /\ txn' = [txn EXCEPT !.pc = "release"]
  /\ UNCHANGED <<file, cache, issued, suppressed, pending, indexed, saves, applies, saved, hidden>>

(* Mutant: a reconcile is left to the watch service. *)
Release_NoReconcile ==
  /\ txn.pc = "release"
  /\ txn' = Idle
  /\ UNCHANGED <<file, cache, issued, suppressed, pending, indexed, saves, applies, saved, hidden>>

(* The lock is dropped; after a completed request the graph is reconciled,   *)
(* by the watch service or here.  Either may fail, which is only reported.   *)
Release ==
  /\ txn.pc = "release"
  /\ txn' = Idle
  /\ \/ ~txn.failed /\ Reconciled
     \/ ~txn.failed /\ UNCHANGED indexed /\ hidden' = hidden \cup txn.written
     \/ txn.failed /\ UNCHANGED indexed
          /\ hidden' = IF txn.stuck THEN hidden \cup txn.written ELSE hidden
  /\ UNCHANGED <<file, cache, issued, suppressed, pending, saves, applies, saved>>

(* The server ends; sessions are gone, the lock is free.                     *)
Crash ==
  /\ txn # Idle \/ cache # <<>>
  /\ txn' = Idle /\ cache' = <<>>
  /\ hidden' = hidden \cup txn.written
  /\ UNCHANGED <<file, issued, suppressed, pending, indexed, saves, applies, saved>>

-----------------------------------------------------------------------------
(* A session is cited for the file it was prepared for. *)
Requests ==
  UNION {{[f \in F |-> [session |-> n[f], plan |-> p[f]]] :
            n \in {m \in [F -> DOMAIN issued] : \A f \in F : issued[m[f]].path = f},
            p \in {q \in [F -> UNION {Plans[f] : f \in F}] : \A f \in F : q[f] \in Plans[f]}} :
         F \in SUBSET File \ {{}}}

Next ==
  \/ \E f \in File, range \in Ranges : Prepare(f, range)
  \/ Expire
  \/ \E f \in File, lines \in Saves : Save(f, lines)
  \/ \E f \in File : SuppressionEnds(f)
  \/ WatchReconcile
  \/ \E req \in Requests : Submit(req)
  \/ PlanFile \/ PlanUnreadable \/ Planned
  \/ WriteFile \/ WriteFails \/ RollbackFile \/ RollbackFails \/ WritesDone
  \/ Release \/ Crash

Spec == Init /\ [][Next]_vars

-----------------------------------------------------------------------------
(* Properties *)

(* Types, and: the anchor manager holds at most MaxSessions sessions, each   *)
(* once and in the order of their making (enforce_lru_locked).               *)
TypeOK ==
  /\ DOMAIN file = File /\ DOMAIN indexed = File
  /\ Len(cache) <= MaxSessions
  /\ \A i \in DOMAIN cache : cache[i] \in DOMAIN issued
  /\ \A i, j \in DOMAIN cache : i < j => cache[i] < cache[j]
  /\ txn.pc \in {"idle", "plan", "write", "rollback", "release"}
  /\ txn.written \cup txn.todo \subseteq DOMAIN txn.req
  /\ suppressed \cup saved \cup hidden \subseteq File

(* A file is replaced only by what its plan makes of the content the caller  *)
(* was shown: whatever was saved, expired or applied in between, an edit is  *)
(* never made to lines that moved, and what is replaced is what was shown,   *)
(* unless the editor saves the file after it was planned.                    *)
EditsStartFromShown ==
  [][\A f \in File : txn.pc = "write" /\ f \in txn'.written \ txn.written =>
       /\ f \notin saved => file[f] = Session(f).content
       /\ file'[f] = ApplyPlan(Session(f).content, txn.req[f].plan)]_vars

(* No two edits have the same first and last line.                           *)
Separate(plan) ==
  \A i, j \in DOMAIN plan :
    plan[i].start = plan[j].start /\ plan[i].end = plan[j].end => i = j

(* Where the lines named by any two edits of an accepted plan differ, every  *)
(* edit has its effect at the lines its anchors name, in whatever order the  *)
(* edits are given, although each is applied to what the ones before it left *)
(* (NoEditLost is about the plans that are not separate).                    *)
EditsLandWhereAsked ==
  [][\A f \in File :
       /\ txn.pc = "write" /\ f \in txn'.written \ txn.written
       /\ Separate(txn.req[f].plan)
       => file'[f] = Joined(Requested(Session(f).content, txn.req[f].plan))]_vars

(* A request of several files ends with all of them edited or none, as long  *)
(* as the rollback's own writes succeed and the editor stays out of the way  *)
(* (the atomicity that the answer of apply_anchor_edits claims).             *)
AllOrNothing ==
  txn.pc = "release" /\ ~txn.stuck =>
    \/ ~txn.failed /\ \A f \in DOMAIN txn.req \ saved : file[f] = txn.plan[f].next
    \/ txn.failed /\ \A f \in DOMAIN txn.plan \ saved : file[f] = txn.plan[f].original

(* When nothing is under way and no event is pending, the graph has every    *)
(* file as it is on disk, but for the files that changed while their events  *)
(* were suppressed or whose request crashed, was left half rolled back or    *)
(* could not be reconciled.                                                  *)
GraphIsCurrent ==
  txn.pc = "idle" /\ ~pending =>
    \A f \in File \ hidden : indexed[f] = file[f]

(* Edits that pass the overlap check do not overwrite one another.           *)
NoEditLost ==
  \A f \in DOMAIN txn.plan :
    txn.plan[f].next = Joined(Requested(txn.plan[f].original, txn.req[f].plan))
=============================================================================
