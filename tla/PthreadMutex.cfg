SPECIFICATION Spec
CONSTANTS
  t1 = t1  t2 = t2  t3 = t3
  rec = rec  ad = ad  nm = nm
  Thread = {t1, t2, t3}
  Mutex = {nm, ad, rec}
  NoThread = NoThread
  NoMutex = NoMutex
  Type <- MCType
  Spins = {ad}
  LockCalls <- MCAllCalls
  MaxCount = 2
  FoldedCheck = FALSE
SYMMETRY MCSymmetry
CONSTRAINT MCHeld
CHECK_DEADLOCK FALSE
INVARIANTS
  TypeOK
  MutualExclusion
  RecursionBalanced
  LockAccounted
  NoSelfDeadlock
