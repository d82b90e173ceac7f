CONSTANTS
    Schemas <- MCSchemaSet
    DefNames <- MCDefNames
    Documents <- MCDocuments
    Types = {3, 4, 5, 6, 7, 8}
    Blocks = {1, 2, 3, 4, 5, 6}
SPECIFICATION Spec
INVARIANTS
    TypeOKCompiler
    ErrorsExact
    ResolvedExact
    EmittedOnce
    HeaderWhole
    TypeOKIntroduce
    OneMetadata
    LinksPublished
PROPERTY Settles
CHECK_DEADLOCK FALSE
