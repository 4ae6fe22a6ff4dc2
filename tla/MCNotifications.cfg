SPECIFICATION Spec
CONSTANTS
    MaxId = 3
    HistoryLimit = 2
    Screens = {s1, s2}
    MaxInbox = 2
    MaxClicks = 2
INVARIANTS
    TypeOK
    ToastsFollowDaemon
    OneIsWaiting
    ReadingFollowsOwner
PROPERTIES
    ToldOnce
    OwnerKeepsReading
