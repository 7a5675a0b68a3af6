SPECIFICATION Spec
CONSTANTS
  File  <- MCFile
  Begin <- MCBegin
  Saves <- MCSaves
  Plans <- MCPlans
  Ranges <- MCRanges
  MaxSessions = 2
  MaxPrepares = 3
  MaxSaves = 1
  MaxApplies = 2
  Panic = Panic
INVARIANTS
  TypeOK
  AllOrNothing
  GraphIsCurrent
PROPERTIES
  EditsStartFromShown
  EditsLandWhereAsked
CHECK_DEADLOCK FALSE
