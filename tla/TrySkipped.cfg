SPECIFICATION PSpec
CONSTANTS
    Iterations = 2
    MaxOutput = 20
    Programs <- Skipping
INVARIANTS
    FinallyAlwaysRuns
