CONSTANTS
    Var = {x, y, z}
    None = None
    MaxArgs = 2
    MaxDepth = 3
    MaxStmts = 4
    Features = {"block", "loop", "then", "elif", "else", "lambda", "uninit"}
CONSTRAINT UpToFirstError
SYMMETRY NameSymmetry
SPECIFICATION HSpec
INVARIANTS NoConflict MovedOnSomePath CertainMovesKnown
