CONSTANTS
    a1 = a1
    m1 = m1
    m2 = m2
    Agents <- OneAgent
    Messages <- TwoMessages
    AddressedTo <- ToTheAgent
    Outside <- Outer
    Inboxed <- Inner
    RunLimit = 2
    RefusalBound = 1
    MaxMishaps = 1
    InboxSize = 1
SPECIFICATION FairSpec
INVARIANTS
    TypeOK
    NothingIsForgotten
    AnsweredWasShown
PROPERTIES
    WakesAreAttended
CHECK_DEADLOCK FALSE
