CONSTANTS
    K = 2
    N = 3
    Modules <- AllModules
    Scopes <- SomeScopes
    MaxInstrs = 4
SPECIFICATION FairSpec
INVARIANTS
    SummariesSound
    SummariesExact
    DefiniteIsReal
    PotentialIsReal
    MissedLeaks
PROPERTY
    Converges
CHECK_DEADLOCK FALSE
