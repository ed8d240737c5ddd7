CONSTANTS
    c1 = c1
    c2 = c2
    b1 = b1
    b2 = b2
    u1 = u1
    u2 = u2
    r1 = r1
    r2 = r2
    None = None
    Callers = {c1, c2}
    Names = {b1, b2}
    Urls = {u1, u2}
    ResourceNames = {r1, r2}
    Worlds <- MCWorlds
    MaxConnects = 2
    MaxFaults = 1
SPECIFICATION FairSpec
CHECK_DEADLOCK FALSE
INVARIANTS
    DiscoveryTypeOK
    AvailabilityIsExplained
    FailuresAreIsolated
    ProjectIsLookedUpOnce
    ConnectionsAreSeparate
PROPERTIES
    ResourceIsTheOneMeant
    EveryOperationEnds
