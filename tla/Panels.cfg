SPECIFICATION PanelsSpec
CONSTANTS
    MaxLines = 20
    PhoneSession = {"a", "b"}
    Vacant = "vacant"
    Workspaces = {"w1", "w2"}
    NoActive = "none"
    MaxPhonePanes = 2
    MaxUncommitted = 1
    MaxPastes = 1
    MaxConnects = 2
    Setting = {"accent", "read only"}
    ReadOnlyDefault = "read only"
    SettingValue = {0, 1}
    FirstValue = 0
    ListName = {"types"}
    Guarded = {"types"}
    MaxListChanges = 2
    MaxRequests = 2
INVARIANTS
    EveryLineIsAccountedFor
    InputIsAsShown
    PanelsShowWhatIsKept
PROPERTIES
    WaitingLinesAreSent
CHECK_DEADLOCK FALSE
