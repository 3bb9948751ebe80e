SPECIFICATION Spec
CONSTANTS
    Cooldown <- TenthsOfSecond
    IdleTimeout = 30
    RateWindow = 20
INVARIANT WorkingMeansRecentOutput
