SPECIFICATION Spec
CONSTANTS
  l1 = l1  l2 = l2
  None = None
  Link <- OneLink
  Kinds <- MCKinds
  PassId <- OnePassId
  MaxGen = 2
PROPERTY OnlyReviewedRevisionAccepted
