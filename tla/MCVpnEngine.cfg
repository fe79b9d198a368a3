SPECIFICATION FairSpec
INVARIANTS RootCauseReported StopLeavesNothing
PROPERTIES KeepsPromise EngineStops FailureNoticed
CHECK_DEADLOCK FALSE
