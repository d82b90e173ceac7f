CONSTANTS
    Types = {"variant", "struct", "array", "string", "number", "bool"}
    LiteralRest = {1, 2}
    MaxDepth = 2
    Avoid = {"empty chunk before number", "escape split twice", "end after bad escape",
             "space after cut integer", "misread hex digit"}
SPECIFICATION FairSpec
INVARIANTS TypeOK InnermostFirst ReadsOnlyInput ConvertsOneNumber
PROPERTIES ImplementsGrammar ParseReturns
