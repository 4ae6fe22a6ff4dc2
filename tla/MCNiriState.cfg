SPECIFICATION Spec
CONSTANTS
    Windows = {1, 2}
    Workspaces = {1, 2, 3}
    OutputNames = {A, B}
    LayoutCounts = {1, 2}
    Traffic <- AllTraffic
INVARIANTS
    WellFormed
    ServiceInStep
PROPERTIES
    MirrorsNiri
