SPECIFICATION FairScanSpec
CONSTANTS
    Texts <- Unclosed
    Modes <- DefaultModes
    MaxBuf = 3
PROPERTIES
    EofEndsScan
