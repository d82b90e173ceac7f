CONSTANTS
    small = small
    large = large
    initial = initial
    x = x
    y = y
    garbage = garbage
    WordSize = 2
    Kinds <- MCKinds
    Size <- MCSize
    InitialKind = initial
    Chars = {x}
    Garbage = garbage
    MallocFails = TRUE
    MaxDepth = 2
    MaxArea = 8
    MaxScratch = 2
    MaxChunk = 1
SPECIFICATION Spec
INVARIANTS ReadsInBlock
CHECK_DEADLOCK FALSE
