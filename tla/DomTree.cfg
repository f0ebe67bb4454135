CONSTANTS
    N = 5
    MaxEdges = 6
    MaxAnyEdges = 4
    Graphs <- MCGraphs
SPECIFICATION FairSpec
INVARIANTS
    NothingMissed
    TreeIsExact
    NumbersAreExact
    FrontierIsExact
PROPERTIES
    IdomsRise
    Terminates
