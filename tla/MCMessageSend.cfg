CONSTANTS
    Msg = {m1}
    MaxCall = 3
    MaxTries = 1
    MaxAttempts = 1
    MaxHeight = 1
    Fault = {"prepare", "store", "timeout", "node", "reset"}
    MaxFault = 2
SPECIFICATION FairSpec
CHECK_DEADLOCK FALSE
INVARIANTS SentIsDelivered  ShownExactlyOnce RejectedOnlyByRace
PROPERTIES  DeliveredIsShown
