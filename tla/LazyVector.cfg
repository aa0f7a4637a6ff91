CONSTANTS
    Objects <- MCObjects
    Values = {6}
    WordMod = 8
    HighWater = 2
    LowWater = 1
SPECIFICATION Spec
INVARIANTS
    TypeOK
    LoadsDescend
PROPERTIES
    ImplementsVector
    ServingDescends
    AccessesReturn
