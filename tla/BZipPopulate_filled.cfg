CONSTANTS
    Files <- MCFiles
    Garbage <- MCGarbage
    MaxBlocks = 3
SPECIFICATION Spec
INVARIANT SuccessMeansFilled
