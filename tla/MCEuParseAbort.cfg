CONSTANTS
    Types = {"variant", "array", "number"}
    LiteralRest = {2}
    MaxDepth = 2
    Avoid = {"empty chunk before number", "escape split twice", "end after bad escape",
             "misread hex digit"}
SPECIFICATION Spec
INVARIANTS NeverAborts
