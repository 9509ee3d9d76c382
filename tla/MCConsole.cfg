CONSTANTS
    NPROC = 2
    INPUT_BUF = 2
    UINT = 4
    COLS = 2
    ROWS = 2
    ReadSizes = {2}
    Outputs <- OneOutput
    Workloads <- TwoLoads
SPECIFICATION Spec
INVARIANTS HandlersInv SleepersHaveNothing
PROPERTIES TerminalSpec
