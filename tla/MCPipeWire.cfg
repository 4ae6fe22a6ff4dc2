CONSTANTS
    Sinks = {s1, s2}
    None = None
    NoReading = NoReading
    MaxVolume = 2
    MaxFlight = 3
    MaxChanges = 2
    MaxGestures = 2
    MaxTimers = 2
SPECIFICATION FairSpec
INVARIANTS WellFormed ReadingIsTrue
PROPERTIES OnlyChangesAnnounced Attaches
CHECK_DEADLOCK FALSE
