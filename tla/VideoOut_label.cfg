SPECIFICATION FairSpec
CONSTANTS
  g1 = g1  g2 = g2  b1 = b1  b2 = b2
  Guest = {g1}
  Buffers = {b1, b2}
  NoIndex = NoIndex
  QueueLimit = 16
  NumFrames = 2
  CpuFlips = FALSE
  Waits <- Always
  OtherWork <- Never
  Resubmits = FALSE
  MaxCalls = 2
  MaxCloses = 0
CHECK_DEADLOCK FALSE
PROPERTY RenderWaitEnds
