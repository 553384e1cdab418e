SPECIFICATION PartsSpec
CONSTANTS
    Filters = {"all", "high"}
    NoPage = NoPage
    MaxPages = 2
    MaxAsked = 3
    Tickets = {t1, t2}
    Agents = {sam, lee}
    Nil = Nil
    MaxClicks = 3
    MaxLost = 1
    MyTickets = {m1}
    Texts = {a, b}
    Blank = Blank
    MaxPresses = 2
    MaxLosses = 1
    None = None
    Undefined = Undefined
    Places <- TwoPlaces
    Errors <- AllErrors
    Categories <- Hints
    Names <- SomeNames
    Keys <- SomeKeys
    GivenOptions <- SomeOptions
    Responses <- SomeResponses
    ChunkMessages <- ChunkOnes
    RenderMessages <- RenderOnes
    IgnoredMessages <- IgnoredOnes
    IgnoredPaths <- IgnoredUrls
    Peels = 1
    Frames = 2
    MaxWraps = 2
    MaxFailures = 1
    MaxReports = 2
    MaxMoves = 1
    AllowedKeys <- Allowed
    AllowedHeaders <- AllowedHeads
    Credentials <- Tokens
    MaxDepth = 2
    MaxItems = 3
    JsonValues <- Values
    ValuePaths <- AllPaths
    ControlPaths <- ShortPaths
    FailedRules <- RuleEntries
    Controls <- Levels
    Deepest = 2
    Bodies <- Documents
    HeaderLists <- HeaderSets
    Queries <- QuerySets
    Forms <- RefusedForms
    Results <- SomeResults
SYMMETRY Symmetry
INVARIANTS
    ListMatchesControls PickBelongsToTicket OwnChangeShown PostedOnce
    HooksAgree JoinedUnlessMoved RedactionKeepsOnlyNamed BrokenRulesListed
CHECK_DEADLOCK FALSE
