SPECIFICATION FairSpec
CONSTANTS
    Managed = {d1, d2, d3, d4}
    Static = {st}
    Unmanaged = {un}
    Spellings = {plain, dotted}
    PoolSize = 3
    MaxInflight = 2
    Upstream = TRUE
    None = None
    MaxAllocs = 6
INVARIANTS IndexesAgree AnswersHold InflightExact
PROPERTY StopEnds
