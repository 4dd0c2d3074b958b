SPECIFICATION FairSpec
CONSTANTS
    Ifs = {v1, v2, v3}
    Scripts = {"sh", "image_py", "systemd_py"}
    Sections = {"default", "other"}
    QueueCap = 1
    MaxSetups = 3
    MaxRestarts = 1
INVARIANTS
    TypeOK
    ShellAttachesOwed
    OneFilterEach
    WholeRunAttaches
PROPERTIES
    EventuallyAttached
CHECK_DEADLOCK FALSE
