CONSTANTS
    r1 = r1
    r2 = r2
    Resources = {r1}
    Requests = {q1, q2}
    HeappeIds = {q1, q2}
    IQMJobIds = {q1, q2}
    NoRequest = NoRequest
    MaxRows = 2
    Amounts = {0}
    Factors = {1}
    Commands = {"backend_run"}
    Allocation <- MCAllocation
    MaxUsage = 2
    AllowedClients = 2
    MaxCrashes = 0
    Mishaps = {"hangup"}
SPECIFICATION Spec
CHECK_DEADLOCK FALSE
INVARIANTS
    EveryRunIsBilled
