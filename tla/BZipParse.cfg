CONSTANTS
    Files <- MCFiles
    Garbage <- MCGarbage
    MaxBlocks = 4
    SizeMod = 16
SPECIFICATION Spec
INVARIANTS
    TypeOK
    RecordedAreBlocks
    IntactFileIsIndexed
    RecordedAreJobs
    TruncationReported
    LimitCountsMagics
PROPERTY ScanEnds
