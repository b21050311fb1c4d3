CONSTANTS
    r1 = r1
    u1 = u1
    Stream = {r1, u1}
    Replicated = {r1}
    Sealed = {}
    BatchSize = 3
    Freq = 3
    MaxNum <- MCMaxNum
    MaxCallbacks = 1
    HeadErrors = TRUE
SPECIFICATION FairSpec
CHECK_DEADLOCK FALSE
INVARIANTS CandidatesAreCollected OneJobPerStream AppliedIsConfirmed
PROPERTY EligibleUnlessAbandoned
