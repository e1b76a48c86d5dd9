SPECIFICATION ConsoleFairSpec
CONSTANTS
    Jobs = {j1, j2}
    Tabs = {t1}
    TimeoutSet = TRUE
    None = None
INVARIANTS
    OutcomesAreReported
    ShownVerdictIsReal
    RearmedAfterEnd
PROPERTIES
    EndedProcessIsReported
    ImplementsSlot
    CompletionEndsRun
CHECK_DEADLOCK FALSE
