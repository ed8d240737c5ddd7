CONSTANTS
    cell = cell
    thread = thread
    client = client
    view = view
    Threads = {thread}
    Cells = {cell}
    Client = client
    Views = {}
    None = None
    Scenarios = {{"overlap"}}
    MaxCalls = 0
    MaxOverlapping = 3
SPECIFICATION FairSpec
CHECK_DEADLOCK FALSE
PROPERTIES
    EveryCallReturns
