CONSTANTS
    t1 = t1
    t2 = t2
    e1 = e1
    e2 = e2
    ann = ann
    Turns <- OneTurn
    AgentOf <- SameAgent
    Effects <- OneEffect
    TurnOf <- BothOfFirst
    Background <- OneEffect
    Faults <- None
    MaxCrashes = 1
SPECIFICATION Spec
PROPERTIES
    BootLeavesNoReceiptOpen
CHECK_DEADLOCK FALSE
