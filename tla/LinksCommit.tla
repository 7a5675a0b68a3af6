---------------------------- MODULE LinksCommit ----------------------------
(***************************************************************************)
(* Review of machine-proposed cross-links: `links accept` and `links       *)
(* reject`, the repair pass of `sync` and the part of a reconcile that     *)
(* touches them.                                                           *)
(*                                                                         *)
(* A candidate is a row of the overlay database, an accepted one also an   *)
(* edge of the graph database.  No transaction spans the two, so an accept *)
(* has three phases (row pending, edge inserted, row promoted), each of    *)
(* which may fail or be the last before the process dies.  Every operation *)
(* holds the writer lock from its first step to its last one (WriterLock): *)
(* `op` is the one under way.                                              *)
(*                                                                         *)
(* The generator proposes `references` links only, so a candidate is       *)
(* known by its pair of endpoints.                                         *)
(***************************************************************************)
EXTENDS Naturals, FiniteSets, Sequences

CONSTANTS
  Link,    \* pairs of endpoints that are proposed
  Kinds,   \* [Link -> the kinds of nodes its endpoints are]
  PassId,  \* cross-link pass ids of the configured generators
  MaxGen,  \* generations of candidates (bound for checking)
  None     \* no row, nothing reviewed, no link

Revision == [pass : PassId, gen : 1 .. MaxGen]
States   == {"active", "pending_promotion", "promoted", "rejected"}
Row      == [state : States, pass : PassId, gen : 1 .. MaxGen]

NodeKind == {"file", "concept", "symbol"}

ASSUME MaxGenAssumption == MaxGen \in Nat
ASSUME KindsAssumption  == Kinds \in [Link -> SUBSET NodeKind]
ASSUME NoneAssumption   == None \notin Link \cup Revision \cup Row

VARIABLES
  row,      \* [Link -> row of cross_links, or None]
  edge,     \* [Link -> whether the curated edge is in the graph]
  present,  \* [Link -> whether both endpoints are nodes of the graph]
  review,   \* [Link -> the revision last shown by `links review`, or None]
  op,       \* the operation that has the writer lock
  gen,      \* generations so far: tells the revisions of a candidate apart
  dropped   \* history: links whose edge went with an endpoint

vars == <<row, edge, present, review, op, gen, dropped>>

Phases == {"idle", "pending", "insert", "promote", "compensate", "finish",
           "resolve", "generate", "prune"}

(* pc: next step; link: the candidate of an accept; todo: the rows a sync  *)
(* has still to visit; clean: no row of the resolve pass failed.           *)
Idle == [pc |-> "idle", link |-> None, todo |-> {}, clean |-> FALSE]

TypeOK ==
  /\ row \in [Link -> Row \cup {None}]
  /\ edge \in [Link -> BOOLEAN]
  /\ present \in [Link -> BOOLEAN]
  /\ review \in [Link -> Revision \cup {None}]
  /\ op \in [pc : Phases, link : Link \cup {None}, todo : SUBSET Link, clean : BOOLEAN]
  /\ op.pc \in {"pending", "insert", "promote", "compensate", "finish"} =>
       op.link # None /\ row[op.link] # None
  /\ op.pc = "resolve" => \A l \in op.todo : row[l] # None
  /\ gen \in 0 .. MaxGen
  /\ dropped \subseteq Link

Init ==
  /\ row = [l \in Link |-> None]
  /\ edge = [l \in Link |-> FALSE]
  /\ present = [l \in Link |-> TRUE]
  /\ review = [l \in Link |-> None]
  /\ op = Idle
  /\ gen = 0
  /\ dropped = {}

-----------------------------------------------------------------------------
Goto(from, to) == op.pc = from /\ op' = [op EXCEPT !.pc = to]

Return(from) == op.pc = from /\ op' = Idle

SetState(l, s) == row' = [row EXCEPT ![l].state = s]

InState(s) == {l \in Link : row[l] # None /\ row[l].state = s}

(* The transaction of mark_promoted. *)
MarkPromoted(l) ==
  /\ SetState(l, "promoted")
  /\ dropped' = dropped \ {l}

(* What a candidate id keeps of the pass id. *)
candidate_pass_suffix(pass) == SubSeq(pass, 1, IF Len(pass) < 12 THEN Len(pass) ELSE 12)

-----------------------------------------------------------------------------
(* `links review` prints the active candidates with their ids; it reads    *)
(* the overlay without the lock.                                           *)
LinksReview(l) ==
  /\ l \in InState("active")
  /\ review' = [review EXCEPT ![l] = [pass |-> row[l].pass, gen |-> row[l].gen]]
  /\ UNCHANGED <<row, edge, present, op, gen, dropped>>

(* ensure_candidate_exists: the suffix of the id must be the row's; the    *)
(* legacy id has none.                                                     *)
IdMatches(l, legacy) ==
  \/ legacy
  \/ /\ review[l] # None
     /\ candidate_pass_suffix(review[l].pass) = candidate_pass_suffix(row[l].pass)

(* Mutant: a promoted candidate is accepted once more. *)
Acceptable_Again(l) == row[l] # None

(* An accept of a promoted candidate says so and returns. *)
Acceptable(l) == row[l] # None /\ row[l].state # "promoted"

LinksAccept(l, legacy) ==
  /\ op = Idle
  /\ Acceptable(l)
  /\ IdMatches(l, legacy)
  /\ op' = [Idle EXCEPT !.link = l,
              !.pc = IF row[l].state = "pending_promotion" /\ edge[l]
                       THEN "finish" ELSE "pending"]
  /\ UNCHANGED <<row, edge, present, review, gen, dropped>>

MarkPending ==
  /\ Goto("pending", "insert")
  /\ SetState(op.link, "pending_promotion")
  /\ UNCHANGED <<edge, present, review, gen, dropped>>

InsertEdge ==
  /\ Goto("insert", "promote")
  /\ edge' = [edge EXCEPT ![op.link] = TRUE]
  /\ UNCHANGED <<row, present, review, gen, dropped>>

FinalizePromotion ==
  /\ Return("promote")
  /\ MarkPromoted(op.link)
  /\ UNCHANGED <<edge, present, review, gen>>

FinalizeFails ==
  /\ Goto("promote", "compensate")
  /\ UNCHANGED <<row, edge, present, review, gen, dropped>>

Compensate ==
  /\ Return("compensate")
  /\ edge' = [edge EXCEPT ![op.link] = FALSE]
  /\ UNCHANGED <<row, present, review, gen, dropped>>

(* The edge of an interrupted accept is there: only the row is completed.  *)
FinishInterrupted ==
  /\ Return("finish")
  /\ MarkPromoted(op.link)
  /\ UNCHANGED <<edge, present, review, gen>>

(* Any other store call of an accept fails: the error is returned. *)
StepFails ==
  /\ op.pc \in {"pending", "insert", "compensate", "finish"}
  /\ op' = Idle
  /\ UNCHANGED <<row, edge, present, review, gen, dropped>>

(* `links reject`: one transaction, whatever state and revision the row is *)
(* in; the graph is not opened.                                            *)
LinksReject(l) ==
  /\ op = Idle
  /\ row[l] # None
  /\ SetState(l, "rejected")
  /\ UNCHANGED <<edge, present, review, op, gen, dropped>>

-----------------------------------------------------------------------------
(* resolve_pending_promotions: the stuck rows, as they were listed. *)
StartSync ==
  /\ op = Idle
  /\ op' = [Idle EXCEPT !.pc = "resolve", !.todo = InState("pending_promotion"),
                        !.clean = TRUE]
  /\ UNCHANGED <<row, edge, present, review, gen, dropped>>

(* Mutants: the edge is not looked for; a row without one is left alone. *)
ResolvePending_Blind(l) ==
  /\ op.pc = "resolve"
  /\ l \in op.todo
  /\ op' = [op EXCEPT !.todo = @ \ {l}]
  /\ MarkPromoted(l)
  /\ UNCHANGED <<edge, present, review, gen>>

ResolvePending_EdgeOnly(l) ==
  /\ op.pc = "resolve"
  /\ l \in op.todo
  /\ op' = [op EXCEPT !.todo = @ \ {l}]
  /\ \/ edge[l] /\ MarkPromoted(l)
     \/ ~edge[l] /\ UNCHANGED <<row, dropped>>
  /\ UNCHANGED <<edge, present, review, gen>>

ResolvePending(l) ==
  /\ op.pc = "resolve"
  /\ l \in op.todo
  /\ op' = [op EXCEPT !.todo = @ \ {l}]
  /\ \/ edge[l] /\ MarkPromoted(l)
     \/ ~edge[l] /\ SetState(l, "active") /\ UNCHANGED dropped
  /\ UNCHANGED <<edge, present, review, gen>>

(* A row that cannot be read or written ends the pass; the sync goes on.   *)
ResolveFails ==
  /\ op.pc = "resolve"
  /\ op.todo # {}
  /\ op' = [op EXCEPT !.pc = "generate", !.todo = {}, !.clean = FALSE]
  /\ UNCHANGED <<row, edge, present, review, gen, dropped>>

(* select_generation_pairs: `existing` holds the active candidates only.   *)
(* With generate_new every other pair is new; with regenerate_stale the    *)
(* active ones whose endpoints changed are done again.                     *)
StartGeneration ==
  /\ op.pc = "resolve"
  /\ op.todo = {}
  /\ \E new \in BOOLEAN, stale \in SUBSET InState("active") :
       op' = [op EXCEPT !.pc = "generate",
                !.todo = {l \in Link : present[l] /\
                            (l \in stale \/ (new /\ l \notin InState("active")))}]
  /\ UNCHANGED <<row, edge, present, review, gen, dropped>>

(* insert_candidate: an upsert that makes the row active again. *)
InsertCandidate(l) ==
  /\ op.pc = "generate"
  /\ l \in op.todo
  /\ gen < MaxGen
  /\ gen' = gen + 1
  /\ \E pass \in PassId :
       row' = [row EXCEPT ![l] = [state |-> "active", pass |-> pass, gen |-> gen']]
  /\ op' = [op EXCEPT !.todo = @ \ {l}]
  /\ UNCHANGED <<edge, present, review, dropped>>

(* The generator or the verifier drops what is left, or nothing is. *)
EndSync ==
  /\ Return("generate")
  /\ UNCHANGED <<row, edge, present, review, gen, dropped>>

-----------------------------------------------------------------------------
(* A reconcile: the compile takes nodes out, with their edges, or brings   *)
(* nodes back under the same id; then the overlay is pruned.               *)
Compile ==
  /\ op = Idle
  /\ op' = [Idle EXCEPT !.pc = "prune"]
  /\ present' \in [Link -> BOOLEAN]
  /\ LET Gone(l) == present[l] /\ ~present'[l]
     IN  /\ edge' = [l \in Link |-> edge[l] /\ ~Gone(l)]
         /\ dropped' = dropped \cup {l \in Link : edge[l] /\ Gone(l)}
  /\ UNCHANGED <<row, review, gen>>

(* The nodes that are left: the kinds in `unread` could not be read, and a *)
(* kind that could not be read counts as having none.                      *)
Attached(l, unread) == present[l] /\ Kinds[l] \cap unread = {}

(* Mutant: the prune does not wait for the writer lock. *)
PruneOrphans_Unlocked ==
  /\ \E unread \in SUBSET NodeKind :
       row' = [l \in Link |-> IF Attached(l, unread) THEN row[l] ELSE None]
  /\ UNCHANGED <<edge, present, review, op, gen, dropped>>

PruneOrphans ==
  /\ Return("prune")
  /\ \E unread \in SUBSET NodeKind :
       row' = [l \in Link |-> IF Attached(l, unread) THEN row[l] ELSE None]
  /\ UNCHANGED <<edge, present, review, gen, dropped>>

(* A prune that fails is logged and forgotten. *)
PruneFails ==
  /\ Return("prune")
  /\ UNCHANGED <<row, edge, present, review, gen, dropped>>

(* The process dies between two steps; the lock dies with it. *)
Crash ==
  /\ op # Idle
  /\ op' = Idle
  /\ UNCHANGED <<row, edge, present, review, gen, dropped>>

Next ==
  \/ \E l \in Link : \/ LinksReview(l) \/ LinksReject(l)
                     \/ \E legacy \in BOOLEAN : LinksAccept(l, legacy)
                     \/ ResolvePending(l) \/ InsertCandidate(l)
  \/ MarkPending \/ InsertEdge \/ FinalizePromotion \/ FinalizeFails
  \/ Compensate \/ FinishInterrupted \/ StepFails
  \/ StartSync \/ ResolveFails \/ StartGeneration \/ EndSync
  \/ Compile \/ PruneOrphans \/ PruneFails
  \/ Crash

Spec == Init /\ [][Next]_vars

-----------------------------------------------------------------------------
(* Properties *)

(* A promoted row has its edge, through every failure and crash of the two *)
(* databases' updates, retries and repairs; only a compile that removed an *)
(* endpoint takes the edge away.                                           *)
PromotedHasEdge == \A l \in InState("promoted") : edge[l] \/ l \in dropped

(* A sync whose resolve pass met no error leaves no row pending, whatever  *)
(* phases earlier accepts stopped in.                                      *)
SyncLeavesNonePending ==
  op.pc = "generate" /\ op.clean => InState("pending_promotion") = {}

(* "Third accept must be an idempotent no-op": accepting again, or the     *)
(* resolve pass of a sync, never takes a promoted row back to pending.     *)
PromotionNeverReopened ==
  [][\A l \in InState("promoted") : l \notin InState("pending_promotion")']_vars

(* "A reviewer who captured the old ID cannot silently promote the new     *)
(* row."  Violated: the suffix of the id is that of the generator's name,  *)
(* which the regenerated row shares.                                       *)
OnlyReviewedRevisionAccepted ==
  [][\A l \in Link : LinksAccept(l, FALSE) => review[l].gen = row[l].gen]_vars
=============================================================================
