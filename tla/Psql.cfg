CONSTANTS
    Workers = {w1, w2, w3}
    NoOne = NoOne
    Rows = 5
    LoadCt = 2
    MaxChanges = 1
    MaxLoads = 4
SPECIFICATION Spec
INVARIANTS
    TypeOK
    OwnTransaction
    NoUseAfterFinish
    FitsTarget
    RowsInPlace
PROPERTY LoadsFinish
