SPECIFICATION FairCondSpec
CONSTANTS
  t1 = t1  t2 = t2  t3 = t3
  m1 = m1  m2 = m2  c1 = c1  c2 = c2  h1 = h1
  Thread = {t1, t2, t3}
  Mutex = {m1}
  NoThread = NoThread
  NoMutex = NoMutex
  Type <- MCErrorCheck
  Spins = {}
  LockCalls = {"lock"}
  MaxCount = 1
  FoldedCheck = FALSE
  Cond = {c1}
  Chain = {h1}
  Hash <- MCHash
  NoCond = NoCond
  MaxDeferWaiters = 1
  WaitCalls <- MCUntimed
CHECK_DEADLOCK FALSE
INVARIANTS
  ObjectsAccounted
PROPERTY SignalledWakes
