\* One file, one client; what the loop must get done.  The process
\* exits after the loop, so a slow worker is left behind.
SPECIFICATION FairSpec
CONSTANTS
  a = a
  b = b
  c1 = c1
  c2 = c2
  Path = {a}
  Client = {c1}
  MaxPaths = 1
  MaxEdits = 1
  MaxFaults = 1
  Detach = TRUE
  Keepalive = FALSE
  Semantic = TRUE
  None = None
CHECK_DEADLOCK FALSE
INVARIANT OutdatedIsRemembered
PROPERTIES EditEventuallyIndexed AutoSyncRuns EveryRequestAnswered StopEndsService VectorsCatchUp
