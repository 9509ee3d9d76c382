CONSTANTS
    NPROC = 3
    NPAGE = 18
    PGSIZE = 2
    PTSIZE = 2
    NVPN = 5
    MAXSEG = 2
    Segments <- FiveSegments
    GrowBy <- GrowSizes
    ArgSizes = {1, 3, 9}
SPECIFICATION Spec
INVARIANTS SpacesInv PagesConserved ArgsMapped
PROPERTIES ExecStack
