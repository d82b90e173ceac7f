CONSTANTS
    small = small
    large = large
    initial = initial
    x = x
    y = y
    garbage = garbage
    WordSize = 2
    Kinds <- MCKinds
    Size <- MCSize
    InitialKind = initial
    Chars = {x, y}
    Garbage = garbage
    MallocFails = TRUE
    MaxDepth = 3
    MaxArea = 16
    MaxScratch = 3
    MaxChunk = 1
SPECIFICATION Spec
PROPERTIES DestroysInnermostFirst KeepsText
CHECK_DEADLOCK FALSE
