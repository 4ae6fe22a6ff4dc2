SPECIFICATION FairSpec
CONSTANTS
    Names = {A, B}
    MaxChanges = 2
    MaxFaults = 2
    MaxRefusals = 1
INVARIANTS
    OutputsTypeOK
    NeverWedged
PROPERTIES
    OutputsConverge
CHECK_DEADLOCK FALSE
