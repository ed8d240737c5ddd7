CONSTANTS
    r1 = r1
    r2 = r2
    Resources = {r1, r2}
    Requests = {q1, q2, q3}
    HeappeIds = {q1, q2, q3}
    IQMJobIds = {q1, q2, q3}
    NoRequest = NoRequest
    MaxRows = 3
    Amounts = {0}
    Factors = {1}
    Commands = {"backend_run"}
    Allocation <- MCAllocation
    MaxUsage = 2
    AllowedClients = 2
    MaxCrashes = 1
    Mishaps = {"hangup", "crash", "timeout"}
SPECIFICATION Spec
SYMMETRY Symmetry
CHECK_DEADLOCK FALSE
INVARIANTS
    OverdraftBounded
    DoneIsBilled
PROPERTIES
    ImplementsMetering
