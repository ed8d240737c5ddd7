CONSTANTS
    mine = mine
    Jobs = {mine}
    Mine = mine
    MaxCalls = 3
    Mishaps = {"request", "files", "noState"}
SPECIFICATION FairSpec
CHECK_DEADLOCK FALSE
INVARIANTS
    CancelledWasAsked
PROPERTIES
    KeepsPromise
    WaitEnds
