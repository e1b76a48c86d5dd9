SPECIFICATION FairSpec
CONSTANTS
    Clients = {c1, c2}
    Keys = {k1}
    Natives = {n1}
    MaxIncidents = 2
    FileExists = FALSE
INVARIANTS AnswersHold OneOpenPerKey
PROPERTIES EveryRequestEnds
