CONSTANTS
    Values <- MCValues
    Shape <- MCShape
    IntegerRoom = 3
    DoubleRoom = 5
    MaxBuffer = 8
SPECIFICATION Spec
INVARIANTS WritesText
