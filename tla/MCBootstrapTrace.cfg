SPECIFICATION FairSpec
CONSTANTS
    Pids = {p1, p2}
    Durations = {0, 1}
    MaxAge = 1
    MapSize = 1
    RingSize = 2
    MaxWork = 3
INVARIANTS
    TypeOK
    EntriesOfLive
    DurationIsOwn
    ShortOnesHidden
PROPERTIES
    ReadsOnlyWhatIsSet
    EventsAreHandled
    SignalEnds
CHECK_DEADLOCK FALSE
