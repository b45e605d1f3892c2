SPECIFICATION Spec
CONSTANTS
    Texts <- MCTexts
INVARIANTS
    TypeOK
    RecordedPos
    SeekExact
    LineAccurate
    RecordsBounded
PROPERTIES
    ImplementsCursor
