CONSTANTS
    Node = {n1, n2, n3}
    Event = {e1}
    Hash = {h1, h2}
    Genesis = Genesis
    NoHash = NoHash
    MinSnapshotEvents = 1
    RecencyGen = 1
    Producer = {n1, n2}
    CacheExpires = {}
    MaxCrash = 0
    Unreliable = FALSE
SPECIFICATION FairSpec
CHECK_DEADLOCK FALSE
PROPERTY EventRegistered
