SPECIFICATION PSpec
CONSTANTS
    Iterations = 2
    MaxOutput = 20
    Programs <- AllPrograms
INVARIANTS
    TypeOK
    AssertionsHold
    NestedRunsCounted
    FinallyIsNested
    AsWritten
    LeavesNothing
PROPERTIES
    Terminates
