CONSTANT Jobs <- MCJobs
SPECIFICATION Spec
INVARIANTS
    TypeOK
    CopiedInOrder
    ResultIsStream
    FitsBuffer
PROPERTY Returns
