SPECIFICATION Spec
CONSTANTS
  Path     <- MCPath
  Code     <- MCCode
  Content  <- MCContent
  Decls    <- MCDecls
  Calls    <- MCCalls
  Imports  <- MCImports
  Sample   <- MCSample
  Visible  <- MCVisible
  Begin    <- MCBegin
  Doc      <- MCDoc
  Governed <- MCGoverned
  Retain = 1
  MaxEdits = 3
  MaxRev = 4
  MaxBlind = 1
  Settling = 3
  None = None
INVARIANTS
  TypeOK
  OneNodePerPath
  FactsMatchHash
  NoOrphanSymbol
  CallsMatchCaller
  Converges
PROPERTIES
  RetentionKept
CHECK_DEADLOCK FALSE
