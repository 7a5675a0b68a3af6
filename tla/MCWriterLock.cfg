SPECIFICATION FairSpec
CONSTANTS
  p1 = p1  p2 = p2
  t1 = t1  t2 = t2  t3 = t3
  s1 = s1  s2 = s2  s3 = s3
  NoOne = NoOne
  Torn = Torn
  Process <- MCProcess
  Thread <- MCThread
  ProcessOf <- MCProcessOf
  Stamp <- MCStamp
  Retries = 1
  MaxDepth = 2
INVARIANTS
  TypeOK
  MutualExclusion
  TableMatchesGuards
  RegistrationNeverRefused
  HolderNotMisattributed
  NoOrphanRecord
PROPERTIES
  ImplementsReentrantLock
  AcquireReturns
CHECK_DEADLOCK FALSE
