\* One request thread (the worker, the server and the monitor run stop_tun or
\* its like beside it), two starts, a crash; a resolver file that other
\* programs may have made, or make at any time.
SPECIFICATION Spec
CONSTANTS
    Clients = {c1}
    Server = server
    MaxStarts = 2
    MaxCrashes = 1
    Tun = {t1}
    Node = {}
    Domain = {d1}
    Foreign = {d1}
INVARIANTS OneEngine SnapshotFresh
PROPERTIES OrphansOnlyMidSetup ForeignResolversKept HealthyEngineKept LeaseKept
CHECK_DEADLOCK FALSE
