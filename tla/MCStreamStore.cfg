CONSTANTS
    MaxBlock = 3
    CachedRounds = 3
    MaxCrash = 2
    MaxFailure = 1
SPECIFICATION Spec
CHECK_DEADLOCK FALSE
INVARIANTS ViewHasNoHole  
PROPERTY PrependsOnlyNew
