SPECIFICATION Spec
CONSTANTS
    c1 = c1
    Pods = {p1, p2}
    Local = {p1, p2}
    Ctrs = {c1}
    First = c1
    Anns <- AnnsBcc
    NoAnn = NoAnn
    Missing = Missing
    Empty = Empty
    Garbled = Garbled
    DefaultRes = DefaultRes
    TooLong = {}
    Pids = {}
    Exits = TRUE
    ReusePids = TRUE
    MaxCg = 2
    MaxEdits = 3
    KeyMod = 4
    IdMaps <- IdMapsBcc
    MaxBehind = 2
    TableSize = 2
    PipeCap = 1
SYMMETRY PodSymmetry
VIEW WithoutHistory
INVARIANTS
    TypeOK
    AnnotatedAreEntered
    DeletedAreRemoved
PROPERTIES
    ResizeOnlyAsAnnotated
CHECK_DEADLOCK FALSE
