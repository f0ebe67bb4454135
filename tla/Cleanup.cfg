CONSTANTS
    Kinds = {"struct", "list", "str"}
    FeatureSets = {{}, {"branch move", "early return", "untyped list"}}
    MaxSlots = 2
    MaxStmts = 4
    MaxDepth = 2
    MaxObjects = 3
SPECIFICATION Spec
INVARIANTS
    FreesLive
    UsesLive
    NothingLeaks
    OneCleanup
CHECK_DEADLOCK FALSE
