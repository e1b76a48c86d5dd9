SPECIFICATION MCSpec
CONSTANTS
    Own = {s1}
    Others = {n1}
    OwnStates <- MCOwnStates
    OtherStates <- MCOtherStates
    Replicas = 1
    NoPod = NoPod
    Pending = Pending
    Failed = Failed
    MaxRows = 2
    NoAnswer = NoAnswer
    Pages = {w1, w2}
    Questions = {q1, q2}
    None = None
    PodRows = {p1}
    ItemRows = {i1, i2}
    Loads = {l1, l2}
    NoRow = NoRow
INVARIANTS
    NominalIsBacked
    FallbackAgrees
    EvidenceBacked
    SlotIsHeld
    DrawerShowsSelection
