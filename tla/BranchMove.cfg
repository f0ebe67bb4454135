CONSTANTS
    Var = {x, y}
    None = None
    MaxArgs = 1
    MaxDepth = 3
    MaxStmts = 4
    Features = {"then", "else"}
SPECIFICATION HSpec
INVARIANT NoUseAfterMove
