CONSTANTS
    small = small
    large = large
    initial = initial
    x = x
    y = y
    garbage = garbage
    WordSize = 2
    Kinds <- MCKinds
    Size <- MCSize
    InitialKind = initial
    Chars = {x}
    Garbage = garbage
    MallocFails = FALSE
    MaxDepth = 3
    MaxArea = 16
    MaxScratch = 3
    MaxChunk = 2
SPECIFICATION FairSpec
INVARIANTS TypeOK FramesIntact ResumesInnermost CanReinstate ScratchIsText ReadsInBlock
PROPERTIES ImplementsFrameStack FiniEnds
