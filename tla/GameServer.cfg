SPECIFICATION ServerSpec
CONSTANTS
    MaxClients = 2
    MaxRequests = 2
    IntLimit = 2
    Sessions = {1, 2}
    Players = {p1, p2}
    Nobody = Nobody
INVARIANTS
    ServerTypeOK
    AnswersGoHome
    ToldIsTrue
CHECK_DEADLOCK FALSE
