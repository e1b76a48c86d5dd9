SPECIFICATION MCSpec
CONSTANTS
    MaxTime = 5
    StaleAfter = 2
    ProbeStale = 2
    HistoryMax = 2
    Window = 3
    Freshness = 2
    TTL = 2
    MaxQuery = 1
    Horizon = 6
    Nothing = Nothing
    Keys = {k1, k2}
    MaxKeys = 1
    EvidenceTTL = 2
    Stale = 2
SYMMETRY Symmetry
INVARIANTS
    ResolvedIsTrue
    CompleteTelemetryCatchesBypass
    HealthyIsRecent
    FailureIsShown
    VerifiedIsRecent
    AllowedIsMitigation
PROPERTY ChangeIsNeverDenied
CHECK_DEADLOCK FALSE
