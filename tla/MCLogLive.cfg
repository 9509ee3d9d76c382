CONSTANTS
  p1 = p1  p2 = p2  p3 = p3
  b1 = b1  b2 = b2
  d1 = d1  d2 = d2
  NoData = NoData
  AfterLog = b1
  Proc <- Procs3
  Block <- Blocks2
  Data <- Datas1
  MAXOPBLOCKS = 2  LOGSIZE = 4  NLOG = 4  OPWRITES = 1
SPECIFICATION FairSpec
INVARIANTS NoPanic
PROPERTIES SleepersWoken RecoveryEnds
