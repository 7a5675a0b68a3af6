SPECIFICATION Spec
CONSTANTS
  s1 = s1  s2 = s2  c1 = c1
  i1 = i1  i2 = i2  i3 = i3
  None = None
  Malformed = Malformed
  Service <- TwoServices
  Command <- OneCommand
  Inode <- ThreeInodes
SYMMETRY InodeSymmetry
INVARIANT OneServicePerRepo
CHECK_DEADLOCK FALSE
