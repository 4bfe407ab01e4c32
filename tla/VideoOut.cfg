SPECIFICATION Spec
CONSTANTS
  g1 = g1  g2 = g2  b1 = b1  b2 = b2
  Guest = {g1, g2}
  Buffers = {b1, b2}
  NoIndex = NoIndex
  QueueLimit = 1
  NumFrames = 2
  CpuFlips = TRUE
  Waits <- Always
  OtherWork <- Either
  Resubmits = TRUE
  MaxCalls = 3
  MaxCloses = 1
SYMMETRY MCSymmetry
CHECK_DEADLOCK FALSE
INVARIANTS
  VideoOutTypeOK
  CountersAccounted
  FlipRouted
  LabelOwned
  SleeperSignalled
