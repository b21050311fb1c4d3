CONSTANTS
    r1 = r1
    r2 = r2
    Responder = {r1, r2}
    Session = {1, 2, 3}
    MaxKeys = 2
    Start <- MCStart
    MaxContent <- MCMaxContent
    Fault = {"member", "import", "solicit", "restart", "share", "entitled", "crash"}
    MaxLag = 1
    MaxFault = 1
SPECIFICATION Spec
ACTION_CONSTRAINT StopsInTick
CHECK_DEADLOCK FALSE
INVARIANTS FulfilledIsShared  
