CONSTANTS
    cell = cell
    thread = thread
    client = client
    view = view
    Threads = {thread}
    Cells = {cell}
    Client = client
    Views = {view}
    None = None
    Scenarios = {{"http", "cancel"}, {"interrupt"},
                 {"http", "overlap"}, {"interrupt close"}}
    MaxCalls = 4
    MaxOverlapping = 2
SPECIFICATION FairSpec
CHECK_DEADLOCK FALSE
INVARIANTS
    SessionTypeOK
    AuthenticatedIsConnected
    NothingIsLeaked
    SessionKeepsItsLoop
    SessionIsUsedAtHome
PROPERTIES
    EveryCarefulCallReturns
