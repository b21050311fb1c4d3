CONSTANTS
    a = a
    b = b
    Stream = {a, b}
    Priority <- MCPriority
    UseModifySync = TRUE
    SharedSyncer = TRUE
    MinInFlight = 0
    MaxInFlight = 1
    Fault = {"close", "conn", "modify", "refuse", "unpack", "down", "readd", "load"}
    MaxFault = 1
    MaxPos <- MCMaxPos
    MaxJoin = 2
    CanStop = TRUE
SPECIFICATION Spec
CHECK_DEADLOCK FALSE
INVARIANTS SyncIdMatchesState NoStreamLeftOut NoSubscriptionForgotten MapFollowsMembership
PROPERTIES NoSkippedEvents ReplayedOnlyByRace
