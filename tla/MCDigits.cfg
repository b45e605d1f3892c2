SPECIFICATION ScanSpec
CONSTANTS
    Texts <- NumberTexts
    Modes <- DefaultModes
    MaxBuf = 0
INVARIANTS
    NoDigitIdentifier
