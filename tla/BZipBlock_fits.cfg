CONSTANT Jobs <- EmptyStreamFirst
SPECIFICATION Spec
INVARIANT FitsBuffer
