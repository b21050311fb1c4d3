CONSTANTS
    a = a
    b = b
    Stream = {b}
    Priority <- MCPriority
    UseModifySync = FALSE
    SharedSyncer = FALSE
    MinInFlight = 0
    MaxInFlight = 1
    Fault = {"close", "conn", "modify", "refuse", "unpack", "down", "readd", "load"}
    MaxFault = 1
    MaxPos <- MCMaxPos1
    MaxJoin = 2
    CanStop = TRUE
SPECIFICATION FairSpec
CHECK_DEADLOCK FALSE
PROPERTIES StopCompletes 
