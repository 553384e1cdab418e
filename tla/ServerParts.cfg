SPECIFICATION PartsSpec
CONSTANTS
    s1 = s1  s2 = s2  h1 = h1  h2 = h2  o1 = o1  o2 = o2  t1 = t1  t2 = t2
    Sessions = {s1, s2}
    Hash = {}
    OccId = {}
    TicketId = {t1}
    Users = {u1}
    Agents = {a1}
    System = System
    None = None
    Status <- SeededStatus
    Terminal <- SeededTerminal
    Paused <- SeededPaused
    Transitions <- SeededTransitions
    NeedsAssignee <- SeededNeedsAssignee
    AttachRecurrence = TRUE
    RuleThreshold = 1
    TriageChoices = {}
    MaxSightings = 0
    MaxHistory = 4
    Crashes = FALSE
    Callers = {s1, s2}
    Nobody = Nobody
    LastDay = 1
    MaxReferences = 2
    Threads = {s1, s2}
    Clients = {p1, p2, p3, p4}
    NoClient = NoClient
    Burst = 2
    Rate = 1
    TrackedCap = 2
    SweepEvery = 1
    SweepPause = 1
    MaxRequests = 4
    LastMoment = 1
SYMMETRY Symmetry
INVARIANTS EveryChangeQueued ReferencesExact ThrottleHolds
PROPERTIES KeepsPromise
CHECK_DEADLOCK FALSE
