SPECIFICATION Spec
CONSTANTS
    BUF_SIZE = 4
    TASK_COMM_LEN = 3
    Char = {a, b}
    NUL = NUL
    MaxLen = 5
INVARIANTS
    TypeOK
    LoopIsCStringEquality
    LoopStaysInsideStrings
    TriggersOnCommEquality
CHECK_DEADLOCK FALSE
