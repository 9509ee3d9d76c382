CONSTANTS
  p1 = p1  p2 = p2  p3 = p3  p4 = p4
  None = None
  Proc <- Procs4
SPECIFICATION FairSpec
INVARIANTS Mutex NoLostWakeup
PROPERTIES HandedOn
