CONSTANTS
    mine = mine
    other = other
    Jobs = {mine}
    Mine = mine
    TaskIds = {mine}
    MaxCalls = 2
    Mishaps = {}
    NotFetched = NotFetched
SPECIFICATION MCFairSpec
CHECK_DEADLOCK FALSE
PROPERTIES
    ResultReturns
