SPECIFICATION MCSpec
CONSTANTS
    MaxRounds = 2
    Scenarios = {OOMKilled, MongoDBDown}
    Reqs = {r1, r2}
    Tabs = {page}
    NoTab = NoTab
    Nothing = Nothing
    oom = oom
    net = net
    mongo = mongo
    policy1 = policy1
    Registry <- MCRegistry
    Extras <- MCExtras
    BaseBacked = {oom, mongo}
    Clicks = {c1, c2}
    MaxFaults = 1
    NoName = NoName
    NoList = NoList
    Names = {run1, run2}
    Presses = {b1, b2}
    MaxSaves = 2
    NoActive = NoActive
SYMMETRY Symmetry
INVARIANTS
    ReadyIsBacked
    EffectsComeFirst
    CompletedThisRound
    ConfirmedWasGranted
    OnePageInStep
    EnabledMatchesCluster
    FixAllHeals
    PanelInStep
PROPERTY QuietRequestsKeepBook
