SPECIFICATION Spec
CONSTANTS
    s1 = s1  s2 = s2  h1 = h1  h2 = h2  o1 = o1  o2 = o2  t1 = t1  t2 = t2
    Sessions = {s1, s2}
    Hash = {h1}
    OccId = {o1, o2}
    TicketId = {t1, t2}
    Users = {}
    Agents = {a1}
    System = System
    None = None
    Status <- ShortStatus
    Terminal <- ShortTerminal
    Paused = {}
    Transitions <- ShortTransitions
    NeedsAssignee <- ShortNeedsAssignee
    AttachRecurrence = TRUE
    RuleThreshold = 1
    TriageChoices = {}
    MaxSightings = 2
    MaxHistory = 3
    Crashes = TRUE
VIEW WithoutOutbox
SYMMETRY SymmetricProblem
INVARIANTS TypeOK OpenTicketLive CountersExact GaplessHistory HistoryTellsStatus
CHECK_DEADLOCK FALSE
