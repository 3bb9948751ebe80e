SPECIFICATION Spec
CONSTANTS
    Key = {k1}
    Size = {s1}
    NoSize = noSize
    MaxConn = 2
    MaxMs = 0
    MaxActive = 2
    MaxPanes = 2
PROPERTY EndsOnlyByItself
CHECK_DEADLOCK FALSE
