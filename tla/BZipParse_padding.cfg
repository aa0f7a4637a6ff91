CONSTANTS
    Files <- MCFiles
    Garbage <- MCGarbage
    MaxBlocks = 4
    SizeMod = 16
SPECIFICATION Spec
INVARIANT IntactFileIsGood
