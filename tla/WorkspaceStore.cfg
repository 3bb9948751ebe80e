SPECIFICATION WorkspacesSpec
CONSTANTS
    Session = {a, b}
    Shape = {wide}
    MaxWs = 2
    MaxRequests = 2
    MaxCommits = 1
    SpaceName = {"p1", "p2"}
    NoSpaceName = "none"
    MaxCalls = 2
    MaxOutside = 1
    MaxSpaces = 2
SYMMETRY SessionSymmetry
INVARIANTS
    UnsavedEditIsAccountedFor
    PendingSaveIsCurrent
    ScreenFollowsStore
    WizardIsForNewcomers
PROPERTIES
    DeletedStaysDeleted
