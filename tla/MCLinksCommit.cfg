SPECIFICATION Spec
CONSTANTS
  l1 = l1  l2 = l2
  None = None
  Link <- TwoLinks
  Kinds <- MCKinds
  PassId <- MCPassId
  MaxGen = 3
INVARIANTS
  TypeOK
  PromotedHasEdge
  SyncLeavesNonePending
PROPERTIES
  PromotionNeverReopened
