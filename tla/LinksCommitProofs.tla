------------------------- MODULE LinksCommitProofs -------------------------
(***************************************************************************)
(* Proofs about LinksCommit, for any candidates, pass ids and number of    *)
(* generations.                                                            *)
(*                                                                         *)
(* What the three phases of an accept rely on is stated by Inv: the lock   *)
(* keeps the row and the edge of the candidate as the phase before left    *)
(* them, and the resolve pass has exactly the pending rows before it.      *)
(***************************************************************************)
EXTENDS LinksCommit, TLAPS

PhaseInv ==
  /\ op.pc = "pending" => row[op.link].state # "promoted"
  /\ op.pc \in {"insert", "promote", "compensate", "finish"} =>
       row[op.link].state = "pending_promotion"
  /\ op.pc \in {"promote", "finish"} => edge[op.link]
  /\ op.pc = "resolve" => op.todo = InState("pending_promotion")

Inv == TypeOK /\ PhaseInv /\ PromotedHasEdge /\ SyncLeavesNonePending

(* A row is never mistaken for a missing one. *)
LEMMA RowIsNotNone == None \notin Row
  BY NoneAssumption

(* Nor is a pair. *)
LEMMA LinkIsNotNone == None \notin Link
  BY NoneAssumption

(* The write of one row's state. *)
LEMMA SetStateRow ==
  ASSUME TypeOK, NEW l \in Link, row[l] # None, NEW s \in States, SetState(l, s)
  PROVE  /\ row' \in [Link -> Row \cup {None}]
         /\ row'[l] # None /\ row'[l].state = s
         /\ \A k \in Link \ {l} : row'[k] = row[k]
<1>1. row[l] \in Row
  BY DEF TypeOK
<1>2. [row[l] EXCEPT !.state = s] \in Row /\ [row[l] EXCEPT !.state = s].state = s
  BY <1>1 DEF Row
<1>3. row' = [row EXCEPT ![l] = [row[l] EXCEPT !.state = s]]
  BY DEF SetState
<1> QED
  BY <1>2, <1>3, RowIsNotNone DEF TypeOK

(* With no rows, no edges and no operation there is nothing to be wrong. *)
LEMMA InitInv == Init => Inv
<1> SUFFICES ASSUME Init PROVE Inv
  OBVIOUS
<1>1. TypeOK
  BY MaxGenAssumption DEF Init, TypeOK, Idle, Phases
<1>2. InState("promoted") = {}
  BY DEF Init, InState
<1> QED
  BY <1>1, <1>2 DEF Init, Inv, PhaseInv, PromotedHasEdge, SyncLeavesNonePending, Idle

-----------------------------------------------------------------------------
(* The steps that write no row keep InState as it is. *)
LEMMA SameRows == row' = row => \A s : InState(s)' = InState(s)
  BY DEF InState

(* One step per action; under it one per conjunct it can disturb.         *)
LEMMA StepInv == Inv /\ [Next]_vars => Inv'
<1> SUFFICES ASSUME Inv, [Next]_vars PROVE Inv'
  OBVIOUS
<1> USE DEF Inv
<1>1. ASSUME NEW l \in Link, LinksReview(l) PROVE Inv'
  <2>1. row[l] \in Row
    BY <1>1 DEF LinksReview, InState, TypeOK
  <2>2. TypeOK'
    BY <1>1, <2>1 DEF LinksReview, TypeOK, Revision, Row
  <2> QED
    BY <1>1, <2>2, SameRows DEF LinksReview, PhaseInv, PromotedHasEdge, SyncLeavesNonePending
<1>2. ASSUME NEW l \in Link, NEW legacy \in BOOLEAN, LinksAccept(l, legacy) PROVE Inv'
  <2>1. PICK step \in {"finish", "pending"} :
          /\ op' = [pc |-> step, link |-> l, todo |-> {}, clean |-> FALSE]
          /\ step = "finish" => row[l].state = "pending_promotion" /\ edge[l]
    BY <1>2 DEF LinksAccept, Idle
  <2>2. row[l] # None /\ row[l].state # "promoted"
    BY <1>2 DEF LinksAccept, Acceptable
  <2>3. op'.pc = step /\ op'.link = l
    BY <2>1
  <2>4. op' \in [pc : Phases, link : Link \cup {None}, todo : SUBSET Link, clean : BOOLEAN]
    BY <2>1 DEF Phases
  <2>5. TypeOK'
    BY <1>2, <2>2, <2>3, <2>4, LinkIsNotNone DEF LinksAccept, TypeOK
  <2>6. PhaseInv'
    BY <1>2, <2>1, <2>2, <2>3 DEF LinksAccept, PhaseInv
  <2> QED
    BY <1>2, <2>3, <2>5, <2>6, SameRows
    DEF LinksAccept, PromotedHasEdge, SyncLeavesNonePending
<1>3. CASE MarkPending
  <2>1. op.link \in Link /\ row[op.link] # None
    BY <1>3 DEF MarkPending, Goto, TypeOK
  <2>2. SetState(op.link, "pending_promotion")
    BY <1>3 DEF MarkPending
  <2>3. /\ row' \in [Link -> Row \cup {None}]
        /\ row'[op.link] # None /\ row'[op.link].state = "pending_promotion"
        /\ \A k \in Link \ {op.link} : row'[k] = row[k]
    BY <2>1, <2>2, SetStateRow DEF States
  <2>4. op' = [op EXCEPT !.pc = "insert"] /\ op.pc = "pending"
    BY <1>3 DEF MarkPending, Goto
  <2>5. /\ op'.pc = "insert" /\ op'.link = op.link
        /\ op' \in [pc : Phases, link : Link \cup {None}, todo : SUBSET Link, clean : BOOLEAN]
    BY <2>4 DEF TypeOK, Phases
  <2>6. TypeOK' /\ PhaseInv'
    <3>1. UNCHANGED <<edge, present, review, gen, dropped>>
      BY <1>3 DEF MarkPending
    <3>2. op'.link # None /\ row'[op'.link] # None
      BY <2>1, <2>3, <2>5, LinkIsNotNone
    <3>3. TypeOK'
      BY <2>3, <2>5, <3>1, <3>2 DEF TypeOK
    <3> QED
      BY <2>3, <2>5, <3>3 DEF PhaseInv
  <2>7. InState("promoted")' \subseteq InState("promoted")
    BY <2>1, <2>3 DEF InState
  <2> QED
    BY <1>3, <2>5, <2>6, <2>7 DEF MarkPending, PromotedHasEdge, SyncLeavesNonePending
<1>4. CASE InsertEdge
  <2>1. op.pc = "insert" /\ op.link \in Link /\ op' = [op EXCEPT !.pc = "promote"]
    BY <1>4 DEF InsertEdge, Goto, TypeOK
  <2>2. /\ op'.pc = "promote" /\ op'.link = op.link
        /\ op' \in [pc : Phases, link : Link \cup {None}, todo : SUBSET Link, clean : BOOLEAN]
    BY <2>1 DEF TypeOK, Phases
  <2>3. edge' \in [Link -> BOOLEAN] /\ edge'[op.link] /\ \A k \in Link : edge[k] => edge'[k]
    BY <1>4, <2>1 DEF InsertEdge, TypeOK
  <2>4. TypeOK' /\ PhaseInv'
    BY <1>4, <2>1, <2>2, <2>3 DEF InsertEdge, TypeOK, PhaseInv
  <2>5. InState("promoted") \subseteq Link
    BY DEF InState
  <2> QED
    BY <1>4, <2>2, <2>3, <2>4, <2>5, SameRows
    DEF InsertEdge, PromotedHasEdge, SyncLeavesNonePending
<1>5. ASSUME op.pc \in {"promote", "finish"}, op' = Idle, MarkPromoted(op.link),
             UNCHANGED <<edge, present, review, gen>>
      PROVE Inv'
  <2>1. op.link \in Link /\ row[op.link] # None /\ edge[op.link]
    BY <1>5 DEF TypeOK, PhaseInv
  <2>2. /\ row' \in [Link -> Row \cup {None}]
        /\ \A k \in Link \ {op.link} : row'[k] = row[k]
    BY <1>5, <2>1, SetStateRow DEF States, MarkPromoted
  <2>3. TypeOK' /\ PhaseInv' /\ SyncLeavesNonePending'
    BY <1>5, <2>2 DEF TypeOK, PhaseInv, SyncLeavesNonePending, Idle, Phases, MarkPromoted
  <2>4. PromotedHasEdge'
    BY <1>5, <2>1, <2>2 DEF PromotedHasEdge, InState, MarkPromoted
  <2> QED
    BY <2>3, <2>4
<1>6. CASE FinalizePromotion
  BY <1>5, <1>6 DEF FinalizePromotion, Return
<1>7. CASE FinishInterrupted
  BY <1>5, <1>7 DEF FinishInterrupted, Return
<1>8. CASE FinalizeFails
  <2>1. op.pc = "promote" /\ op' = [op EXCEPT !.pc = "compensate"]
    BY <1>8 DEF FinalizeFails, Goto
  <2>2. TypeOK' /\ PhaseInv'
    BY <1>8, <2>1 DEF FinalizeFails, TypeOK, PhaseInv, Phases
  <2> QED
    BY <1>8, <2>1, <2>2, SameRows
    DEF FinalizeFails, PromotedHasEdge, SyncLeavesNonePending, TypeOK
<1>9. CASE Compensate
  <2>1. op.pc = "compensate" /\ op' = Idle /\ op.link \in Link
    BY <1>9 DEF Compensate, Return, TypeOK
  <2>2. row[op.link].state = "pending_promotion"
    BY <2>1 DEF PhaseInv
  <2>3. TypeOK' /\ PhaseInv' /\ SyncLeavesNonePending'
    BY <1>9, <2>1 DEF Compensate, TypeOK, PhaseInv, SyncLeavesNonePending, Idle, Phases
  <2>4. PromotedHasEdge'
    BY <1>9, <2>1, <2>2, SameRows DEF Compensate, PromotedHasEdge, InState, TypeOK
  <2> QED
    BY <2>3, <2>4
<1>10. ASSUME op' = Idle, UNCHANGED <<row, edge, present, review, gen, dropped>> PROVE Inv'
  <2>1. TypeOK' /\ PhaseInv' /\ SyncLeavesNonePending'
    BY <1>10 DEF TypeOK, PhaseInv, SyncLeavesNonePending, Idle, Phases
  <2> QED
    BY <1>10, <2>1, SameRows DEF PromotedHasEdge
<1>11. CASE StepFails \/ EndSync \/ PruneFails \/ Crash
  BY <1>10, <1>11 DEF StepFails, EndSync, PruneFails, Crash, Return
<1>12. ASSUME NEW l \in Link, LinksReject(l) PROVE Inv'
  <2>1. /\ row' \in [Link -> Row \cup {None}]
        /\ row'[l] # None /\ row'[l].state = "rejected"
        /\ \A k \in Link \ {l} : row'[k] = row[k]
    BY <1>12, SetStateRow DEF LinksReject, States
  <2>2. TypeOK' /\ PhaseInv' /\ SyncLeavesNonePending'
    BY <1>12, <2>1 DEF LinksReject, TypeOK, PhaseInv, SyncLeavesNonePending, Idle
  <2>3. PromotedHasEdge'
    BY <1>12, <2>1 DEF LinksReject, PromotedHasEdge, InState
  <2> QED
    BY <2>2, <2>3
<1>13. CASE StartSync
  <2>1. /\ op'.pc = "resolve" /\ op'.todo = InState("pending_promotion")
        /\ op' \in [pc : Phases, link : Link \cup {None}, todo : SUBSET Link, clean : BOOLEAN]
    BY <1>13 DEF StartSync, Idle, Phases, InState
  <2>2. TypeOK' /\ PhaseInv'
    BY <1>13, <2>1, SameRows DEF StartSync, TypeOK, PhaseInv, InState
  <2> QED
    BY <1>13, <2>1, <2>2, SameRows DEF StartSync, PromotedHasEdge, SyncLeavesNonePending
<1>14. ASSUME NEW l \in Link, ResolvePending(l) PROVE Inv'
  <2>1. /\ op.pc = "resolve" /\ l \in op.todo /\ row[l] # None
        /\ op' = [op EXCEPT !.todo = op.todo \ {l}]
    BY <1>14 DEF ResolvePending, TypeOK
  <2>2. /\ op'.pc = "resolve" /\ op'.todo = op.todo \ {l}
        /\ op' \in [pc : Phases, link : Link \cup {None}, todo : SUBSET Link, clean : BOOLEAN]
    BY <2>1 DEF TypeOK
  <2>3. PICK s \in {"promoted", "active"} :
          /\ SetState(l, s)
          /\ s = "promoted" => edge[l] /\ dropped' = dropped \ {l}
          /\ s = "active" => dropped' = dropped
    BY <1>14 DEF ResolvePending, MarkPromoted
  <2>4. /\ row' \in [Link -> Row \cup {None}]
        /\ row'[l] # None /\ row'[l].state = s
        /\ \A k \in Link \ {l} : row'[k] = row[k]
    BY <2>1, <2>3, SetStateRow DEF States
  <2>5. InState("pending_promotion")' = InState("pending_promotion") \ {l}
    BY <2>3, <2>4 DEF InState
  <2>6. TypeOK'
    BY <1>14, <2>1, <2>2, <2>3, <2>4 DEF ResolvePending, TypeOK
  <2>7. PhaseInv' /\ SyncLeavesNonePending'
    BY <2>1, <2>2, <2>5 DEF PhaseInv, SyncLeavesNonePending
  <2>8. PromotedHasEdge'
    BY <1>14, <2>3, <2>4 DEF ResolvePending, PromotedHasEdge, InState
  <2> QED
    BY <2>6, <2>7, <2>8
<1>15. CASE ResolveFails
  <2>1. /\ op'.pc = "generate" /\ ~op'.clean
        /\ op' \in [pc : Phases, link : Link \cup {None}, todo : SUBSET Link, clean : BOOLEAN]
    BY <1>15 DEF ResolveFails, TypeOK, Phases
  <2>2. TypeOK' /\ PhaseInv'
    BY <1>15, <2>1 DEF ResolveFails, TypeOK, PhaseInv
  <2> QED
    BY <1>15, <2>1, <2>2, SameRows DEF ResolveFails, PromotedHasEdge, SyncLeavesNonePending
<1>16. CASE StartGeneration
  <2>1. op.pc = "resolve" /\ op.todo = {}
    BY <1>16 DEF StartGeneration
  <2>2. /\ op'.pc = "generate"
        /\ op' \in [pc : Phases, link : Link \cup {None}, todo : SUBSET Link, clean : BOOLEAN]
    BY <1>16 DEF StartGeneration, TypeOK, Phases
  <2>3. TypeOK' /\ PhaseInv'
    BY <1>16, <2>2 DEF StartGeneration, TypeOK, PhaseInv
  <2>4. InState("pending_promotion") = {}
    BY <2>1 DEF PhaseInv
  <2> QED
    BY <1>16, <2>3, <2>4, SameRows DEF StartGeneration, PromotedHasEdge, SyncLeavesNonePending
<1>17. ASSUME NEW l \in Link, InsertCandidate(l) PROVE Inv'
  <2>1. gen \in Nat /\ gen' = gen + 1 /\ gen' \in 1 .. MaxGen /\ gen' \in 0 .. MaxGen
    BY <1>17, MaxGenAssumption DEF InsertCandidate, TypeOK
  <2>2. PICK pass \in PassId :
          row' = [row EXCEPT ![l] = [state |-> "active", pass |-> pass, gen |-> gen']]
    BY <1>17 DEF InsertCandidate
  <2>3. /\ row' \in [Link -> Row \cup {None}]
        /\ row'[l].state = "active"
        /\ \A k \in Link \ {l} : row'[k] = row[k]
    BY <2>1, <2>2 DEF TypeOK, Row, States
  <2>4. /\ op.pc = "generate" /\ op'.pc = "generate" /\ op'.clean = op.clean
        /\ op' \in [pc : Phases, link : Link \cup {None}, todo : SUBSET Link, clean : BOOLEAN]
    BY <1>17 DEF InsertCandidate, TypeOK
  <2>5. TypeOK' /\ PhaseInv'
    BY <1>17, <2>1, <2>3, <2>4 DEF InsertCandidate, TypeOK, PhaseInv
  <2>6. /\ InState("promoted")' \subseteq InState("promoted")
        /\ InState("pending_promotion")' \subseteq InState("pending_promotion")
    BY <2>3 DEF InState
  <2> QED
    BY <1>17, <2>4, <2>5, <2>6 DEF InsertCandidate, PromotedHasEdge, SyncLeavesNonePending
<1>18. CASE Compile
  <2>1. /\ op'.pc = "prune"
        /\ op' \in [pc : Phases, link : Link \cup {None}, todo : SUBSET Link, clean : BOOLEAN]
    BY <1>18 DEF Compile, Idle, Phases
  <2>2. /\ edge' \in [Link -> BOOLEAN]
        /\ dropped \subseteq dropped'
        /\ \A l \in Link : edge[l] => edge'[l] \/ l \in dropped'
    BY <1>18 DEF Compile, TypeOK
  <2>3. TypeOK' /\ PhaseInv'
    BY <1>18, <2>1, <2>2 DEF Compile, TypeOK, PhaseInv
  <2>4. InState("promoted") \subseteq Link
    BY DEF InState
  <2> QED
    BY <1>18, <2>1, <2>2, <2>3, <2>4, SameRows
    DEF Compile, PromotedHasEdge, SyncLeavesNonePending
<1>19. CASE PruneOrphans
  <2>1. op' = Idle /\ row' \in [Link -> Row \cup {None}]
    BY <1>19 DEF PruneOrphans, Return, TypeOK
  <2>2. TypeOK' /\ PhaseInv' /\ SyncLeavesNonePending'
    BY <1>19, <2>1 DEF PruneOrphans, TypeOK, PhaseInv, SyncLeavesNonePending, Idle, Phases
  <2>3. InState("promoted")' \subseteq InState("promoted")
    BY <1>19 DEF PruneOrphans, InState
  <2> QED
    BY <1>19, <2>2, <2>3 DEF PruneOrphans, PromotedHasEdge
<1>20. CASE UNCHANGED vars
  BY <1>20, SameRows DEF vars, TypeOK, PhaseInv, PromotedHasEdge, SyncLeavesNonePending
<1> QED
  BY <1>1, <1>2, <1>3, <1>4, <1>6, <1>7, <1>8, <1>9, <1>11, <1>12, <1>13, <1>14,
     <1>15, <1>16, <1>17, <1>18, <1>19, <1>20
  DEF Next

(* The invariant the properties of the two databases follow from: the      *)
(* operation under way and the rows and edges it has touched fit.          *)
THEOREM Invariant == Spec => []Inv
  BY InitInv, StepInv, PTL DEF Spec

-----------------------------------------------------------------------------
(* Every state of the two databases and of the operation under way is one  *)
(* of TypeOK: an accept and a resolve pass work on rows that are there.    *)
THEOREM TypeCorrect == Spec => []TypeOK
  BY Invariant, PTL DEF Inv

(* A promoted row has its edge unless a compile took it, whichever phase   *)
(* fails, wherever the process dies and whatever order the commands,       *)
(* repairs and reconciles come in.                                         *)
THEOREM PromotionIsBacked == Spec => []PromotedHasEdge
  BY Invariant, PTL DEF Inv

(* A resolve pass that met no error has repaired every interrupted accept. *)
THEOREM ResolveIsComplete == Spec => []SyncLeavesNonePending
  BY Invariant, PTL DEF Inv

-----------------------------------------------------------------------------
(* What a step does to a promoted row.                                     *)
LEMMA StepReopensNothing ==
  Inv /\ [Next]_vars =>
    \A l \in InState("promoted") : l \notin InState("pending_promotion")'
<1> SUFFICES ASSUME Inv, [Next]_vars, NEW l \in InState("promoted")
             PROVE  l \notin InState("pending_promotion")'
  OBVIOUS
<1>1. l \in Link /\ row[l] # None /\ row[l].state = "promoted"
  BY DEF InState
<1>2. CASE row'[l] = row[l]
  BY <1>1, <1>2 DEF InState
<1>3. ASSUME NEW k \in Link, row[k] # None, NEW s \in States, SetState(k, s),
             k = l => s # "pending_promotion"
      PROVE  l \notin InState("pending_promotion")'
  <2>1. row'[k].state = s /\ \A j \in Link \ {k} : row'[j] = row[j]
    BY <1>3, SetStateRow DEF Inv
  <2> QED
    BY <1>1, <1>3, <2>1 DEF InState
<1>4. CASE MarkPending
  <2>1. op.link \in Link /\ row[op.link] # None /\ op.link # l
    BY <1>1, <1>4 DEF Inv, MarkPending, Goto, TypeOK, PhaseInv
  <2> QED
    BY <1>3, <1>4, <2>1 DEF MarkPending, States
<1>5. CASE FinalizePromotion \/ FinishInterrupted
  <2>1. op.link \in Link /\ row[op.link] # None
    BY <1>5 DEF Inv, FinalizePromotion, FinishInterrupted, Return, TypeOK
  <2> QED
    BY <1>3, <1>5, <2>1 DEF FinalizePromotion, FinishInterrupted, MarkPromoted, States
<1>6. ASSUME NEW k \in Link, LinksReject(k) PROVE l \notin InState("pending_promotion")'
  BY <1>3, <1>6 DEF LinksReject, States
<1>7. ASSUME NEW k \in Link, ResolvePending(k) PROVE l \notin InState("pending_promotion")'
  <2>1. row[k] # None
    BY <1>7 DEF Inv, ResolvePending, TypeOK
  <2>2. PICK s \in {"promoted", "active"} : SetState(k, s)
    BY <1>7 DEF ResolvePending, MarkPromoted
  <2> QED
    BY <1>3, <2>1, <2>2 DEF States
<1>8. ASSUME NEW k \in Link, InsertCandidate(k) PROVE l \notin InState("pending_promotion")'
  <2>1. PICK pass \in PassId :
          row' = [row EXCEPT ![k] = [state |-> "active", pass |-> pass, gen |-> gen']]
    BY <1>8 DEF InsertCandidate
  <2>2. row'[l] = row[l] \/ row'[l].state = "active"
    BY <1>1, <2>1 DEF Inv, TypeOK
  <2> QED
    BY <1>1, <2>2 DEF InState
<1>9. CASE PruneOrphans
  BY <1>1, <1>9 DEF PruneOrphans, InState
<1>10. CASE UNCHANGED row
  BY <1>2, <1>10
<1> QED
  BY <1>4, <1>5, <1>6, <1>7, <1>8, <1>9, <1>10
  DEF Next, vars, LinksReview, LinksAccept, InsertEdge, FinalizeFails, Compensate, StepFails,
      StartSync, ResolveFails, StartGeneration, EndSync, Compile, PruneFails, Crash

(* A promoted row never goes back to pending: an accept that was completed *)
(* is not taken up again by a later accept or by the resolve pass.         *)
THEOREM PromotionIsFinal == Spec => PromotionNeverReopened
  BY Invariant, StepReopensNothing, PTL DEF Spec, PromotionNeverReopened
=============================================================================
