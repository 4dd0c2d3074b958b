SPECIFICATION Spec
CONSTANTS
    c1 = c1
    c2 = c2
    Pods = {p1}
    Local = {p1}
    Ctrs = {c1, c2}
    Anns <- AnnsMoving
    NoAnn = NoAnn
    Missing = Missing
    DefaultRes = DefaultRes
    Pids = {i1}
    Exits = FALSE
    ReusePids = FALSE
    MaxCg = 2
    MaxEdits = 2
    MAX_NUM_CONTAINERS = 2
    PerfCap = 1
    PanicCommands <- TooLongCommands
    PollMayFail = FALSE
    MaxFaults = 0
INVARIANTS
    ResizeMatchesAnnotation
CHECK_DEADLOCK FALSE
