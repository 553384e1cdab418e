SPECIFICATION FairSpec
INVARIANTS
    TicketOfItsDialog
PROPERTIES
    RepromptsArePlain
    UserIsTold
CONSTANTS
    p1 = p1
    p2 = p2
    p3 = p3
    Problems <- AllProblems
    Ignored <- IgnoredProblems
    None = None
    Silent = FALSE
    Window = 2
    KeepFor = 2
    MapLimit = 1
    MaxFailures = 2
    MaxTime = 3
CHECK_DEADLOCK FALSE
