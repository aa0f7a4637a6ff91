CONSTANTS
    Objects <- MCMMap
    Values = {6}
    WordMod = 8
    HighWater = 2
    LowWater = 1
SPECIFICATION Spec
INVARIANT PlacedAsInArray
