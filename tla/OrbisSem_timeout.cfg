SPECIFICATION Spec
CONSTANTS
  t1 = t1  t2 = t2  t3 = t3
  Thread = {t1, t2}
  NoThread = NoThread
  InitCount = 1
  MaxCount = 2
  IsFifo = FALSE
  Priorities = {1, 2}
  SetCounts <- MCSetCounts
  Timeouts = {1}
  MaxLate = 1
  U32 = 4
  MaxSupply = 3
CONSTRAINT MCSupply
CHECK_DEADLOCK FALSE
PROPERTY TimeRemains
