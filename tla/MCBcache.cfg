CONSTANTS
    p1 = p1
    p2 = p2
    b1 = b1
    b2 = b2
    b3 = b3
    bad = bad
    x = x
    y = y
    None = None
    Procs <- TwoProcs
    Blocks <- FourBlocks
    BadBlock = bad
    Datas <- TwoDatas
    NBUF = 3
    MAXPIN = 3
SYMMETRY Symmetry
SPECIFICATION Spec
INVARIANTS BuffersInv CleanMatchesDisk SleepersQueued
PROPERTIES OnlyHolderChanges
