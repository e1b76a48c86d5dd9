CONSTANTS
    o1 = o1
    o2 = o2
    l1 = l1
    Ops <- MCOps
    Listers <- MCListers
    Callers <- MCCallers
    Children = {c1, c2}
    t0 = t0
    t1 = t1
    t2 = t2
    Threads <- MCThreads
    Earlier <- MCEarlier
    MaxThreads = 2
    None = None
    NoOp = NoOp
    NoThread = NoThread
SPECIFICATION FairSpec
INVARIANTS NothingLeftBehind IdleSparesCalls AnsweredIsRecorded
PROPERTIES CancelledStaysSilent OneChildAtATime OperationEnds
CHECK_DEADLOCK FALSE
