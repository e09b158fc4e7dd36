SPECIFICATION Spec
CONSTANTS
    NClients = 3
    NEarly = 2
    MaxIds = 3
    MaxAsks = 2
    MaxQuits = 1
INVARIANTS
    TypeOK
    AnswersAreAskedFor
    WaitingMeansAnAnswerIsComing
    LobbySeesWhereEveryoneIs
PROPERTIES
    EveryVisitorIsAnswered
CHECK_DEADLOCK FALSE
