\* Another program's routes, one of each kind, exist when the VPN starts.
SPECIFICATION Spec
CONSTANTS
    Clients = {c1}
    Server = server
    MaxStarts = 1
    MaxCrashes = 0
    Tun = {t1}
    Node = {n1}
    Domain = {}
    Foreign = {t1, n1}
PROPERTY ForeignRoutesKept
CHECK_DEADLOCK FALSE
