CONSTANTS
    a1 = a1
    c1 = c1
    c2 = c2
    c3 = c3
    g1 = g1
    g2 = g2
    g3 = g3
    None = None
    Agents <- OneAgent
    Callers <- ThreeCallers
    Graphs <- ThreeGraphs
    Faults <- NoFaults
    MaxCalls = 4
    MaxQueue = 1
SPECIFICATION Spec
PROPERTIES
    StartLeavesRunningGraphs
CHECK_DEADLOCK FALSE
