SPECIFICATION Spec
CONSTANTS
  n1 = n1  n2 = n2  n3 = n3
  s1 = s1  s2 = s2  s3 = s3
  Native = {n1, n2, n3}
  Slot = {s1, s2, s3}
  NoNative = NoNative
  NoSlot = NoSlot
  GcThreshold = 1
  MaxThreads = 3
  MaxCachedThreads = 1
SYMMETRY MCSymmetry
CHECK_DEADLOCK FALSE
INVARIANTS
  ThreadTypeOK
  RecordsAccounted
  DeadCollected
  TouchedAlive
  JoinReadsExit
  LocksOrdered
