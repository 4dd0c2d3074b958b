SPECIFICATION FairSpec
CONSTANTS
    Keys = {k1, k2}
    Other = Other
    Decodes = {TRUE, FALSE}
    GoneForms = {"gone"}
    MaxRV = 3
INVARIANTS
    TypeOK
    StoreIsSnapshot
    ConsumerIsCurrent
PROPERTIES
    ConsumerNeverGoesBack
    ImplementsMirror
    EventuallySynced
