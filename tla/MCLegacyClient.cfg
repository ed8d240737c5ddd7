CONSTANTS
    c1 = c1
    c2 = c2
    circuit = circuit
    options = options
    backend = backend
    u1 = u1
    vlq = vlq
    eqe = eqe
    p1 = p1
    p2 = p2
    None = None
    Callers = {c1, c2}
    Files = {circuit, options, backend}
    Workers = 2
    TTL = 2
    MaxTime = 2
    MaxSets = 2
    MaxJobs = 2
    MaxFaults = 2
    Kinds = {vlq, eqe}
    Queues = {"qinit", "qexe"}
    Version <- MCVersion
    Worlds <- MCWorlds
SPECIFICATION FairSpec
CHECK_DEADLOCK FALSE
INVARIANTS
    LoginIsSound
    QueuedIsComplete
    UploadsEndWithTheirCall
    DefaultSetIsCurrent
    ArchitectureAgeIsBounded
PROPERTIES
    EveryCallEnds
