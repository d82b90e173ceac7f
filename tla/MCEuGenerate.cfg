CONSTANTS
    Values <- MCValues
    Shape <- MCShape
    IntegerRoom = 3
    DoubleRoom = 5
    MaxBuffer = 12
SPECIFICATION FairSpec
INVARIANTS TypeOK OutputInBuffer FillsBuffer
PROPERTIES ImplementsWriter GeneratesAll
