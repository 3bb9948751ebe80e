SPECIFICATION StatusSpec
CONSTANTS
    Cooldown <- TenthsOfSecond
    IdleTimeout = 30
    RateWindow = 20
    PaneKey = {k1, k2}
    PaneStatus = {"working", "asking"}
    MaxTracked = 2
    MaxInbox = 2
    Workspace = {w1, w2}
    NoWorkspace = none
    Tab = {t1}
    MaxClock = 2
    MaxPolls = 2
    ListedName = {"s1", "s2", "s3"}
    Program = {"bash", "claude"}
    Shell = {"bash"}
    TypeRow = {"bash", "claude"}
    Folder = {"/", "app"}
    InRepo = {"app"}
    RootFolder = "/"
    EnrichConcurrency = 2
    MaxPanesListed = 2
    MaxWorldChanges = 1
    SessionName = {s1, s2}
    NoName = none
    Place = {"p1", "p2"}
    NoIdent = 0
    MaxSessions = 2
    MaxRequests = 2
    MaxSent = 2
SYMMETRY StatusSymmetry
INVARIANTS
    ListingWasTrue
    SessionsAreAsShown
    QuestionIsShown
    RealWorkSettles
    StatusMapIsCurrent
    BadgesMatchOutput
PROPERTIES
    NoFlicker
CHECK_DEADLOCK FALSE
