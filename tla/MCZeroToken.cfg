SPECIFICATION ScanSpec
CONSTANTS
    Texts <- StrayTexts
    Modes <- DefaultModes
    MaxBuf = 0
INVARIANTS
    ZeroMeansEnd
