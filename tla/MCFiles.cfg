SPECIFICATION EachFairSpec
CONSTANTS
    Themes = {"warm", "cool"}
    Values = {0, 1}
    Colours = {1, 2}
    MaxEdits = 3
    IntMax = 8191
    Nodes <- AllNodes
    MaxChanges = 2
    Zones = {"Paris", "Tokyo"}
    Minute = 2
    Hours = 3
    MaxSets = 3
CHECK_DEADLOCK FALSE
INVARIANTS
    WatchesCover
    NoEditForgotten
    ValuesInStep
PROPERTIES
    ReadsSettle
