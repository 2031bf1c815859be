CONSTANTS
    s1 = s1
    s2 = s2
    Submissions <- One
    Foreground <- One
    IoParallelism = 1
    QueueDepth = 0
SPECIFICATION Spec
INVARIANTS
    InterruptedWhileQueuedNeverRuns
CHECK_DEADLOCK FALSE
