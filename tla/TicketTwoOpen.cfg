SPECIFICATION Spec
CONSTANTS
    s1 = s1  s2 = s2  h1 = h1  h2 = h2  o1 = o1  o2 = o2  t1 = t1  t2 = t2
    Sessions = {s1}
    Hash = {h1}
    OccId = {o1, o2}
    TicketId = {t1, t2}
    Users = {u1}
    Agents = {a1}
    System = System
    None = None
    Status <- SeededStatus
    Terminal <- SeededTerminal
    Paused <- SeededPaused
    Transitions <- SeededTransitions
    NeedsAssignee <- SeededNeedsAssignee
    AttachRecurrence = TRUE
    RuleThreshold = 1
    TriageChoices = {}
    MaxSightings = 2
    MaxHistory = 6
    Crashes = FALSE
VIEW WithoutOutbox
INVARIANT AtMostOneOpenTicket
CHECK_DEADLOCK FALSE
