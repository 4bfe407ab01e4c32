SPECIFICATION Spec
CONSTANTS
  t1 = t1  t2 = t2  t3 = t3
  Thread = {t1, t2, t3}
  NoThread = NoThread
  InitCount = 1
  MaxCount = 2
  IsFifo = FALSE
  Priorities = {1, 2}
  SetCounts <- MCSetCounts
  Timeouts = {1}
  MaxLate = 0
  U32 = 2
  MaxSupply = 3
SYMMETRY MCSymmetry
VIEW MCView
CONSTRAINT MCSupply
CHECK_DEADLOCK FALSE
INVARIANTS
  TypeOK
  WaiterAccounted
  NoStrandedWaiter
  QueueOrdered
  TokensConserved
