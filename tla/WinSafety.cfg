\* Two request threads, two starts, two stops and a crash, with one route of
\* each kind.
SPECIFICATION Spec
CONSTANTS
    Clients = {c1, c2}
    MaxStarts = 2
    MaxStops = 2
    MaxCrashes = 1
    Bypass = {b1}
    Tunnel = {t1}
    Nrpt = nrpt
INVARIANTS InstalledIsOwned RecordCovers
PROPERTIES CrashOrphansOnlyMidInstall ForeignRoutesKept LeaseKept
SYMMETRY ClientSymmetry
CHECK_DEADLOCK FALSE
