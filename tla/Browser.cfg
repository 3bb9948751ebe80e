SPECIFICATION BrowserSpec
CONSTANTS
    Session = {a, b}
    MaxSockets = 2
    MaxFetches = 2
    Ttl = 1
    MaxTokens = 1
    MaxIssued = 2
    Local = local
    RemoteHost = {r1, r2}
    MaxLoads = 2
    Named = {"s1", "s2"}
    MaxPages = 3
    MaxQueries = 3
    Content = {c, d}
    EmptyPane = empty
    MaxLevels = 6
    MaxPanesShown = 5
    MaxLayoutPanes = 5
    MaxLayoutDepth = 5
    MaxLayoutChildren = 5
    MaxBox = 3
    MinSize = 2
    MaxSize = 3
    MaxWire = 2
    Gateway = {g1}
    Direct = direct
    NoContainer = nocontainer
    ManagedHost = {h1}
    NoForm = noform
    AddForm = addform
    MaxContainerLoads = 2
    MaxHostSaves = 1
    Space = {1, 2}
    NoSpace = nospace
    NoTarget = notarget
    NoFocus = nofocus
    EmptyId = emptyid
    MaxPanesHeld = 3
    MaxEdits = 2
SYMMETRY BrowserSymmetry
INVARIANTS
    HeaderHasAReason
    StraySocketWasOvertaken
    HeldTokenIsKnown
    HostIsListedOnce
    ViewerIsTheOneOpened
    LayoutIsSavable
    PtySizeFollowsBox
    ContainerIsOfItsGateway
    TargetIsItsPane
PROPERTY ImplementsPaneSequence
CHECK_DEADLOCK FALSE
