SPECIFICATION FairSpec
CONSTANTS
    Msgs = {m1, m2}
    Err = Err
    Delays = {2}
    MaxDelay = 2
    MaxPush = 3
INVARIANTS
    TypeOK
    NoLostWakeup
    EndAbandonsOnlyFresh
PROPERTIES
    NoRequestLost
    GracefulEnd
