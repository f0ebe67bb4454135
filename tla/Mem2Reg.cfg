CONSTANTS
    Var = {x, y}
    None = None
    undef = undef
    N = 5
    MaxStmts = 4
    MaxBlock = 2
    Graphs <- Shapes
SYMMETRY VarSymmetry
SPECIFICATION Spec
INVARIANTS
    LoadsAgree
    UsesAreDominated
    PhisPlaced
