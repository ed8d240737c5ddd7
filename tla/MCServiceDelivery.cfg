CONSTANTS
    r1 = r1
    r2 = r2
    Resources = {r1, r2}
    Requests = {q1, q2}
    HeappeIds = {q1, q2}
    IQMJobIds = {q1, q2}
    NoRequest = NoRequest
    MaxRows = 2
    Amounts = {0}
    Factors = {1}
    Commands = {"backend_run", "pulla_submit_playlist", "backend_init"}
    Allocation <- MCAllocation
    MaxUsage = 2
    AllowedClients = 2
    MaxCrashes = 1
    Mishaps = {"hangup", "crash", "database", "timeout", "failed", "timeline", "disk"}
SPECIFICATION FairSpec
CHECK_DEADLOCK FALSE
INVARIANTS
    BilledIsDelivered
PROPERTIES
    ReportedIsBilledTotal
    EveryClientIsReleased
