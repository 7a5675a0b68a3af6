SPECIFICATION Spec
CONSTANTS
  File  <- MCFile
  Begin <- MCBegin
  Saves <- MCSaves
  Plans <- SameLinePlans
  Ranges <- MCRanges
  MaxSessions = 2
  MaxPrepares = 3
  MaxSaves = 1
  MaxApplies = 2
  Panic = Panic
INVARIANTS
  NoEditLost
CHECK_DEADLOCK FALSE
