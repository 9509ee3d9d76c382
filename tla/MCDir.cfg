CONSTANTS
  p1 = p1  p2 = p2
  Proc <- TwoProcs
  NINODES = 3
  Name = {"a", "b"}
  Workloads <- RaceAndGrow
SYMMETRY Symmetry
SPECIFICATION Spec
CHECK_DEADLOCK FALSE
INVARIANTS InodesInv ScanOffset NcAgrees LinkCounts
