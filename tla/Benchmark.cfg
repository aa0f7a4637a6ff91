CONSTANTS
    Configs <- MCConfigs
    LoadCt = 2
    EagerBuffer = 3
SPECIFICATION Spec
INVARIANTS
    TypeOK
    SoundRunsStayDefined
    InputsOutliveAccess
    CleanRunReleasesAll
    RowMeansObject
PROPERTY RunEnds
