SPECIFICATION FairSpec
CONSTANTS
    Pending = 1
    Capacity = 1
    MaxUp = 2
    MaxDown = 2
INVARIANTS InOrder SleepsOverWorkOnlyArmed
PROPERTIES WorkHandled DeadReaped ThreadsEnd
CHECK_DEADLOCK FALSE
