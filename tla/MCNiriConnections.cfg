SPECIFICATION MCSpec
CONSTANTS
    FirstDelay = 1
    Factor = 2
    MaximumDelay = 7
    CountCap = 3
    MaxFaults = 5
    Probes = 2
    Oversized = TRUE
    MaxPending = 3
    MaximumIndex = 1
    MaximumId = 3
    MaxAsked = 1
INVARIANTS
    TypeOK
    TimersFit
    ToldTheTruth
    RepliesFindTheirOwn
    QueueInStep
    DetectionEndsOnce
PROPERTIES
    SignalsAlternate
    Reattaches
