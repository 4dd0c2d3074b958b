SPECIFICATION Spec
CONSTANTS
    Ifs = {v1, v2}
    Scripts = {"systemd_py"}
    Sections = {"default"}
    QueueCap = 2
    MaxSetups = 2
    MaxRestarts = 0
INVARIANTS
    OwedAreAttached
CHECK_DEADLOCK FALSE
