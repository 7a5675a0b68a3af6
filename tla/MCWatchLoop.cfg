\* Two files with a path cap of one, a client with any request, two edits,
\* one failure.  A service that was stopped is over.
SPECIFICATION Spec
CONSTANTS
  a = a
  b = b
  c1 = c1
  c2 = c2
  Path = {a, b}
  Client = {c1}
  MaxPaths = 1
  MaxEdits = 2
  MaxFaults = 1
  Detach = FALSE
  Keepalive = TRUE
  Semantic = FALSE
  None = None
SYMMETRY Symmetric
INVARIANTS TypeOK NoEditLost CompletedAnswerCoversEdits PendingWorkIsSeen
CHECK_DEADLOCK FALSE
