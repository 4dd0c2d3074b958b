SPECIFICATION FairSpec
CONSTANTS
    Keys = {k1}
    Other = Other
    Decodes = {TRUE}
    GoneForms = {"refused"}
    MaxRV = 2
PROPERTIES
    EventuallySynced
