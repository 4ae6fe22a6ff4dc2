SPECIFICATION SettingsSpec
CONSTANTS
    IntMax = 8191
    Nodes <- AllNodes
    MaxChanges = 1
CHECK_DEADLOCK FALSE
INVARIANTS
    UsedAsWritten
