CONSTANTS
    Types = {"num", "str", "any", "obj", "arr", "bar", "top", "bars"}
    Kind <- MCKind
    Members <- MCMembers
    Element <- MCElement
    Tags = {"num", "str", "obj", "arr"}
    RootTypes = {"any", "top", "bar"}
    InitialCapacity = 1
    Repeats = FALSE
    MaxLen = 2
    MaxDepth = 4
    MaxBlocks = 6
    None = None
    Documents <- MCDocuments
    Malformed = Malformed
    UintMax = 255
    IntMax = 127
    FastDigits = 1
    LargestOf <- MCLargestOf
    MaxDigits = 4
    MaxChunk = 2
SPECIFICATION Spec
INVARIANTS
    TypeOKOwnership MemorySafe OneOwner NoDangling NothingLost
    TypeOKString StringExact BufferHolds
    IntegerExact FastInChunk
CHECK_DEADLOCK FALSE
