SPECIFICATION ScanSpec
CONSTANTS
    Texts <- OperatorTexts
    Modes <- DefaultModes
    MaxBuf = 0
INVARIANTS
    OperatorText
