SPECIFICATION ServerSpec
CONSTANTS
    Name = {n, m}
    MaxSessions = 2
    MaxOutput = 1
    MaxSyncs = 2
    MaxCommands = 1
    MaxLineNo = 5
    OverlapScanLines = 2
    MaxCachedLines = 2
    PageLimit = 1
    Key = {a, b, c}
    MaxFailures = 2
    LockMs = 2
    MaxKeys = 2
    MaxVerifying = 2
    MaxClock = 4
    KeyName = {k, l}
    MaxSaves = 3
    HostName = {x, y, z}
    TestConcurrency = 1
    MaxHostId = 3
    MaxTests = 1
    MaxEntries = 2
    SettingKey = {"accent_color"}
    AccentKey = "accent_color"
    TypeName = {"bash", "vim", "node"}
    DefaultTypes <- TwoDefaultTypes
    TemplateName = {p, q}
    Look = {"plain", "bright"}
    DefaultLook = "plain"
    BadName = "bad name"
    BadLook = "bad look"
    SavedHost = {"jump", "app"}
    MaxImportSettings = 1
    MaxImportHosts = 2
    MaxImportTypes = 2
    MaxImportTemplates = 1
    MaxTableChanges = 3
    MaxStarts = 2
    MaxScans = 1
    RowId = {h1}
    MaxRowChanges = 4
    MaxExchanges = 2
    HostAlias = {"volcano", "box"}
    Address = {"10.0.0.1"}
    DefaultGroup <- KnownGroups
    SectionGroup <- Titles
    LocalName = {"reliant", "localhost"}
    LocalAddress = {"127.0.0.1"}
    DEFAULT_HOST = "reliant"
    UserValue = {"u", "v"}
    MaxConfigLines = 4
SYMMETRY ServerSymmetry
INVARIANTS
    HistoryFollowsSession
    FailuresAreBounded
    PublicKeyMatches
    GatewaysEnd
    ResultIsOfThisHost
    DiagnosisWasTrue
    DefaultTypesAreThere
    RowsAreThoseOfTheTable
    HostsAreAsWritten
PROPERTY ImportRestoresExport
CHECK_DEADLOCK FALSE
