CONSTANTS
    Programs <- MCProgramsOfAllKinds
    StructNames = {"A", "B", "C", "S", "Undeclared"}
    MaxTurns = 2
SPECIFICATION Spec
INVARIANTS
    ScopesAgree
    IndexReportsReal
    FlowVerdicts
    DeadIsDead
    PassesAgree
    TypesHold
    CyclesAreReal
    NoneMissed
CHECK_DEADLOCK FALSE
