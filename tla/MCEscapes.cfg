SPECIFICATION ScanSpec
CONSTANTS
    Texts <- EscapeTexts
    Modes <- DefaultModes
    MaxBuf = 0
INVARIANTS
    OtherEscapesKeepChar
