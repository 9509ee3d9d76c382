CONSTANTS
    NPROC = 2
    NFILE = 3
    NOFILE = 2
    NPAGE = 1
    PIPESIZE = 2
    UINT = 4
    WriteSizes = {3}
    ReadSizes = {2}
    Killable = {2}
SPECIFICATION Spec
CHECK_DEADLOCK FALSE
INVARIANTS FilesInv Fifo SleepJustified
PROPERTIES PipeEndReleases
