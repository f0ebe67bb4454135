CONSTANTS
    Var = {x, y, z}
    None = None
    MaxArgs = 2
    MaxDepth = 3
    MaxStmts = 4
    Features = {"block", "loop", "then", "elif", "else", "lambda", "capture", "uninit"}
SYMMETRY NameSymmetry
SPECIFICATION Spec
INVARIANTS MapsAgree BorrowsNest
PROPERTY MovesSurvive
