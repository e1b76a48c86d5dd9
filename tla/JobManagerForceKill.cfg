SPECIFICATION FairSpec
CONSTANTS
    Jobs = {j1, j2}
    TimeoutSet = FALSE
    None = None
PROPERTY CancelledProcessIsKilled
CHECK_DEADLOCK FALSE
