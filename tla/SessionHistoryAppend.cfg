SPECIFICATION HistorySpec
CONSTANTS
    Name = {n}
    MaxSessions = 1
    MaxOutput = 2
    MaxSyncs = 1
    MaxCommands = 1
    MaxLineNo = 20
    OverlapScanLines = 4
    MaxCachedLines = 100
    PageLimit = 2
INVARIANT CapturedLinesAreCached
CHECK_DEADLOCK FALSE
