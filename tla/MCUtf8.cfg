SPECIFICATION Spec
CONSTANTS
    Bytes <- BoundaryBytes
    MaxLen = 4
INVARIANTS
    DecodesWellFormed
    EncodeInvertsDecode
    StrlenCounts
    ClassesAgree
CHECK_DEADLOCK FALSE
