SPECIFICATION EachFairSpec
CONSTANTS
    Paths = {"first", "second"}
    MaxEvents = 4
    Connections = {"home", "work"}
    AccessPoints = {"near", "far"}
    LastName = 2
    MaxProcesses = 2
    ChainEvents = 3
    PlayerEvents = 3
CHECK_DEADLOCK FALSE
INVARIANTS
    EachWellFormed
    EachInStep
PROPERTIES
    EachSettles
