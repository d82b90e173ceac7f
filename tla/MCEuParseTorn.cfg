CONSTANTS
    Types = {"variant", "number"}
    LiteralRest = {2}
    MaxDepth = 2
    Avoid = {"empty chunk before number", "escape split twice",
             "space after cut integer", "misread hex digit"}
SPECIFICATION Spec
INVARIANTS NoTornFrame
