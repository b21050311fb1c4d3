CONSTANTS
    u = u
    c = c
    d = d
    o = o
    Stream = {u, c}
    Other = {o}
    Priority <- MCPriority
    BatchSize = 1
    Fault = {"store", "init"}
    MaxFault = 2
    MaxSwitch = 1
    CanStop = TRUE
SPECIFICATION FairSpec
CHECK_DEADLOCK FALSE
INVARIANTS NetworkIsLast RemoteLoadedIsTrue StopEndsSync
PROPERTIES SyncStarts RemoteLoaded
