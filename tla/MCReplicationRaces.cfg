CONSTANTS
    Node = {n1, n2, n3}
    Event = {e1}
    Hash = {h1, h2}
    Genesis = Genesis
    NoHash = NoHash
    MinSnapshotEvents = 1
    RecencyGen = 1
    Producer = {n1, n2}
    CacheExpires = {n3}
    MaxCrash = 0
    Unreliable = FALSE
SPECIFICATION Spec
CHECK_DEADLOCK FALSE
SYMMETRY Symmetry
INVARIANT CandidateAvailable
PROPERTY ImplementsLog
