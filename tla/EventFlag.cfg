SPECIFICATION FairSpec
CONSTANTS
  t1 = t1  t2 = t2  t3 = t3
  a = a  b = b
  Thread = {t1, t2, t3}
  Bit = {a, b}
  Requests <- MCRequests
  SetMasks <- MCSetMasks
  ClearMasks <- MCClearMasks
CHECK_DEADLOCK FALSE
INVARIANTS
  TypeOK
  WaitersCounted
  NoStrandedWaiter
  CancelReachesAll
PROPERTY CancelReturns
