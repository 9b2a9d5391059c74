\* One tab, two matches, one broken connection, two commands of the user.
CONSTANTS
    None = None
    MaxIds = 2
    MaxMatch = 2
    MaxVersion = 1
    MaxDrops = 1
    MaxHandlers = 2
SPECIFICATION FairSpec
CHECK_DEADLOCK FALSE
INVARIANTS
    CardsMatchTable
    AnswersAgree
    SettledTableIsCurrent
PROPERTIES
    PendingEnds
