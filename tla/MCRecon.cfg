SPECIFICATION FairSpec
CONSTANTS
    Stream = {s1}
    s1 = s1
    MaxNum = 1
    Errors = {"retry", "fatal", "registry"}
    MaxFailures = 2
    InitialPool = TRUE
    Shutdown = TRUE
INVARIANTS TasksMatchEntries OnlinePoolOpen LostOnlyInRetryLoop
PROPERTY CatchesUpUnlessDropped
CHECK_DEADLOCK FALSE
