CONSTANTS
  p1 = p1  p2 = p2
  Proc = {p1}
  NINODES = 3
  Name = {"a", "b"}
  Workloads <- JustSame
SPECIFICATION Spec
CHECK_DEADLOCK FALSE
INVARIANTS FoundOffset
