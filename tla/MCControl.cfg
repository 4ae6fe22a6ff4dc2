CONSTANTS
    NumApps = 2
    MaxResults = {1, 2}
    Traffic <- AllTraffic
    Clients = {c1, c2}
    Foreign = {c2}
SPECIFICATION FairSpec
INVARIANTS WellFormed ScanIsFresh
PROPERTIES NothingForgotten RequestsAnswered ClientsLetGo
