SPECIFICATION Spec
CONSTANTS
  p1 = p1
  p2 = p2
  Process <- TwoProcesses
  Value = {1, 2}
  First = 1
  Expected <- MCExpected
  MaxCommands = 3
  MaxChanges = 2
  None = None
SYMMETRY Symmetric
PROPERTIES
  NewerGraphBlocks
CHECK_DEADLOCK FALSE
