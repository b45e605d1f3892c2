SPECIFICATION FairSpec
CONSTANTS
    Texts <- SessionTexts
    Modes <- SessionModes
    MaxBuf = 3
INVARIANTS
    BangOpenedHere
    StringLiterals
PROPERTIES
    ScanReturns
    ImplementsTokenStream
