SPECIFICATION Spec
CONSTANTS
    MaxTime = 5
    StaleAfter = 2
    ProbeStale = 2
    HistoryMax = 2
INVARIANTS DeniedProvesNoMutation
CHECK_DEADLOCK FALSE
