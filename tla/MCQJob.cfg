CONSTANTS
    mine = mine
    other = other
    Jobs = {mine, other}
    Mine = mine
    TaskIds = {mine}
    MaxCalls = 2
    Mishaps = {"interrupt", "request", "socket", "artifacts", "null"}
    NotFetched = NotFetched
SPECIFICATION MCFairSpec
CHECK_DEADLOCK FALSE
INVARIANTS
    EndIsNotMissed
    MeasurementsAreKept
PROPERTIES
    KeepsPromise
    ListenerReturns
