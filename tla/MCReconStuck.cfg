SPECIFICATION FairSpec
CONSTANTS
    Stream = {s1}
    s1 = s1
    MaxNum = 2
    Errors = {"fatal"}
    MaxFailures = 1
    InitialPool = FALSE
    Shutdown = FALSE
PROPERTY CatchesUp
CHECK_DEADLOCK FALSE
