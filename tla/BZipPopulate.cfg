CONSTANTS
    Files <- MCFiles
    Garbage <- MCGarbage
    MaxBlocks = 3
SPECIFICATION Spec
INVARIANTS
    TypeOK
    IndexCovers
    SkipWithinBlock
    ContiguousRun
    CallsSucceed
PROPERTY AlwaysReturns
