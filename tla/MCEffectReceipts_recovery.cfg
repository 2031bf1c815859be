CONSTANTS
    t1 = t1
    t2 = t2
    e1 = e1
    e2 = e2
    ann = ann
    Turns <- TwoTurns
    AgentOf <- SameAgent
    Effects <- TwoEffects
    TurnOf <- OnePerTurn
    Background <- OneEffect
    Faults <- AllFaults
    MaxCrashes = 1
SPECIFICATION FairSpec
INVARIANTS
    OneOutcome
    WakeOwedOrDelivered
    DispatchedOnlyRecorded
    ProgramToldWhatIsRecorded
    RecoveredTurnsHaveNoOpenReceipt
    NoSilentOrphan
PROPERTIES
    ReceiptsAreFinal
    ReferencesAreSettled
CHECK_DEADLOCK FALSE
