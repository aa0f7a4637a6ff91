CONSTANTS
    MaxLengths <- MCMaxLengths
    SampleSizes <- MCSampleSizes
    WriteRates <- MCWriteRates
    SizeMod = 6
SPECIFICATION Spec
INVARIANTS
    TypeOK
    OnlyReverseStartsOutside
    SampleCovered
    WritesAtRate
PROPERTY ExecutionEnds
