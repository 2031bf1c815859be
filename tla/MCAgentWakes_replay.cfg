CONSTANTS
    a1 = a1
    m1 = m1
    m2 = m2
    Agents <- OneAgent
    Messages <- Outer
    AddressedTo <- ToTheAgent
    Outside <- Outer
    Inboxed <- None
    RunLimit = 1
    RefusalBound = 1
    MaxMishaps = 1
    InboxSize = 1
SPECIFICATION Spec
PROPERTIES
    NothingIsReplayed
CHECK_DEADLOCK FALSE
