CONSTANTS
    Node = {n1, n2}
    Event = {e1, e2}
    Hash = {h1, h2}
    Genesis = Genesis
    NoHash = NoHash
    MinSnapshotEvents = 1
    RecencyGen = 1
    Producer = {n1}
    CacheExpires = {}
    MaxCrash = 1
    Unreliable = TRUE
SPECIFICATION Spec
CHECK_DEADLOCK FALSE
SYMMETRY Symmetry
INVARIANTS IndInv CandidateAvailable
PROPERTY EventsKept
