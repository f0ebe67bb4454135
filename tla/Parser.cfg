CONSTANTS
    Inputs <- MCInputs
    MaxDepth = 120
SPECIFICATION Spec
INVARIANTS
    CrashesKnown
    AcceptsTheGrammar
PROPERTIES
    ParsingEnds
CHECK_DEADLOCK FALSE
