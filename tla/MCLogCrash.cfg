CONSTANTS
  p1 = p1  p2 = p2  p3 = p3
  b1 = b1  b2 = b2
  d1 = d1  d2 = d2
  NoData = NoData
  AfterLog = b1
  Proc <- Procs2
  Block <- Blocks2
  Data <- Datas2
  MAXOPBLOCKS = 2  LOGSIZE = 4  NLOG = 5  OPWRITES = 2
SPECIFICATION Spec
SYMMETRY Symm
INVARIANTS LogInv
PROPERTIES CrashAtomic WriteAhead
