CONSTANTS
    s1 = s1
    s2 = s2
    Submissions <- Two
    Foreground <- One
    IoParallelism = 1
    QueueDepth = 0
SPECIFICATION FairSpec
INVARIANTS
    AnsweredAtMostOnce
    RefusedNeverRuns
    AdmissionBounded
    RunningWithinParallelism
    StoppedMeansAnswered
    SlotsConserved
PROPERTIES
    ImplementsBoundedSettlement
    AcceptedIsAnswered
CHECK_DEADLOCK FALSE
