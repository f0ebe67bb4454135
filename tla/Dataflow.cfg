CONSTANTS
    N = 4
    Vars = {a, tmp}
    Tracked = {a}
    Problems <- MCProblems
SPECIFICATION Spec
CHECK_DEADLOCK FALSE
INVARIANTS SettledOffList ReturnsPaths LosesNothing
PROPERTY SolvesTheEquations
