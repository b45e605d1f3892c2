SPECIFICATION Spec
CONSTANTS
    MaxLength = 17
    Colors = {31, 45}
INVARIANTS
    ColorsRange
    LeavesDefault
    DumpsEveryByte
CHECK_DEADLOCK FALSE
