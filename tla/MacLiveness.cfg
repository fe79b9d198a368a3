\* One request thread, two starts and as many monitors, a crash; a route that
\* goes with the interface and one that stays, no items of other programs.
SPECIFICATION FairSpec
CONSTANTS
    Clients = {c1}
    Server = server
    MaxStarts = 2
    MaxCrashes = 1
    Tun = {t1}
    Node = {n1}
    Domain = {}
    Foreign = {}
INVARIANTS Accounted
PROPERTIES DeadEngineRetired OperationsEnd
CHECK_DEADLOCK FALSE
