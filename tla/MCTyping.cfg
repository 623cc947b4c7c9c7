CONSTANTS
    Bits <- MCBits
    PointerBits = 3
    QueryDepth = 12
    Iterations = 3
    Calls = 4
    Programs <- MCPrograms
    Samples <- MCSamples
    Entries <- MCEntries
SPECIFICATION Spec
INVARIANTS DeclarationsSound CheckedSound
CHECK_DEADLOCK FALSE
