SPECIFICATION Spec
CONSTANTS
    Paths = {"first", "second"}
    MaxEvents = 4
CHECK_DEADLOCK FALSE
INVARIANTS
    ReadAlwaysEnds
