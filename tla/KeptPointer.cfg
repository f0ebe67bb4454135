CONSTANTS
    K = 2
    N = 3
    Modules <- KeepingModule
    Scopes <- KeepingScope
    MaxInstrs = 2
SPECIFICATION Spec
INVARIANT EscapesAreSeen
CHECK_DEADLOCK FALSE
