\* Two stops, so that an engine can be left behind by the first and must be
\* caught by the second; no routes, no crash.
SPECIFICATION FairSpec
CONSTANTS
    Clients = {c1, c2}
    MaxStarts = 2
    MaxStops = 2
    MaxCrashes = 0
    Bypass = {}
    Tunnel = {}
    Nrpt = nrpt
PROPERTIES NoEngineOutlivesStop StopReturns DeadEngineRetired
CHECK_DEADLOCK FALSE
