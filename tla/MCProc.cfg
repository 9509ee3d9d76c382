CONSTANTS
  c1 = c1  c2 = c2
  NPROC = 3
  CPU <- TwoCPUs
  MaxPid = 3
  KillPids = {1, 2}
SPECIFICATION FairSpec
INVARIANTS TableInv
PROPERTIES ReapedByParent RunnableRuns KilledExits OrphansReaped
