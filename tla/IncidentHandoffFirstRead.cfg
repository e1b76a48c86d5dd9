SPECIFICATION Spec
CONSTANTS
    Clients = {c1, c2}
    Keys = {k1}
    Natives = {}
    MaxIncidents = 2
    FileExists = FALSE
INVARIANTS AnswersAlwaysHold
