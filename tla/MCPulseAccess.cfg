SPECIFICATION FairSpec
CHECK_DEADLOCK FALSE
CONSTANTS
    t1 = t1
    t2 = t2
    r1 = r1
    r2 = r2
    def = def
    circuit = circuit
    None = None
    Threads <- MCThreads
    Resources <- MCResources
    Runs <- MCRuns
    Circuits <- MCCircuits
    Worlds <- MCWorlds
    MaxCalls = 6
    MaxJobs = 3
INVARIANTS
    PullaIsOnItsResource
    NameSharesTheChosen
    RecordsAreTrue
    RunIdsAreFresh
PROPERTIES
    PayloadIsKept
    EveryAccessEnds
