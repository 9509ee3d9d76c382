CONSTANTS
    p1 = p1
    p2 = p2
    None = None
    Procs <- TwoProcs
    NINODES = 4
    CacheSizes = {2, 3}
    NBLOCKS = 11
    BSIZE = 2
    NDIRECT = 2
    MAXOPBLOCKS = 6
    UNIT = 2
    WriteSizes = {3, 7}
    ImageSizes = {5}
    NIMAGE = 1
    MAXCALLS = 5
SYMMETRY Symmetry
SPECIFICATION Spec
INVARIANTS CacheInv BitmapExact ContentsMatch
PROPERTIES FreeOnlyUnreferenced
