SPECIFICATION Spec
CONSTANTS
    c1 = c1
    c2 = c2
    Pods = {p1, p2, p3}
    Local = {p1, p2}
    Ctrs = {c1, c2}
    Anns <- AnnsBad
    NoAnn = NoAnn
    Missing = Missing
    DefaultRes = DefaultRes
    Pids = {i1}
    Exits = TRUE
    ReusePids = TRUE
    MaxCg = 2
    MaxEdits = 2
    MAX_NUM_CONTAINERS = 1
    PerfCap = 1
    PanicCommands <- TooLongCommands
    PollMayFail = TRUE
    MaxFaults = 1
SYMMETRY LocalSymmetry
INVARIANTS
    MapSound
    ResourcesFromOwnAnnotation
CHECK_DEADLOCK FALSE
