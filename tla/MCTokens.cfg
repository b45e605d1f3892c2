SPECIFICATION ScanSpec
CONSTANTS
    Texts <- AllTexts
    Modes <- StringModes
    MaxBuf = 6
INVARIANTS
    TypeOK
    PosAccurate
    SkipsTrivia
    BacktrackLands
    Progress
    NumberTokens
    WordsAreIdentifiers
    PrefixedLiterals
    StringLiterals
    QuotedIdentifiers
PROPERTIES
    NestedScanAdvances
    CallsDescend
