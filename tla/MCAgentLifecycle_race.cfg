CONSTANTS
    a1 = a1
    c1 = c1
    c2 = c2
    c3 = c3
    g1 = g1
    g2 = g2
    g3 = g3
    None = None
    Agents <- OneAgent
    Callers <- TwoCallers
    Graphs <- TwoGraphs
    Faults <- AllFaults
    MaxCalls = 3
    MaxQueue = 1
SPECIFICATION FairSpec
INVARIANTS
    OneGraphPerAgent
    ReleasedIsQuiet
    ToldTurnsAreOwned
PROPERTIES
    CallsReturn
CHECK_DEADLOCK FALSE
