SPECIFICATION FairSpec
CONSTANTS
    c1 = c1
    c2 = c2
    Pods = {p1, p2}
    Local = {p1, p2}
    Ctrs = {c1}
    Anns <- AnnsUsual
    NoAnn = NoAnn
    Missing = Missing
    DefaultRes = DefaultRes
    Pids = {i1}
    Exits = FALSE
    ReusePids = FALSE
    MaxCg = 2
    MaxEdits = 2
    MAX_NUM_CONTAINERS = 2
    PerfCap = 1
    PanicCommands <- TooLongCommands
    PollMayFail = FALSE
    MaxFaults = 1
PROPERTIES
    WantedEventuallyRegistered
    BusyEventuallyResized
CHECK_DEADLOCK FALSE
