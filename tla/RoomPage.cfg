\* One tab and another player; two visits of the page, one lost connection.
CONSTANTS
    None = None
    Me = me
    Other = other
    Forms <- MCForms
    MaxVisits = 2
    MaxTroubles = 1
    MaxMatches = 1
    MaxDown = 3
SPECIFICATION FairSpec
CHECK_DEADLOCK FALSE
INVARIANTS
    LeavingLeaves
    ShownIsMember
    ResultCoversNoMatch
    RefusalIsKnown
PROPERTIES
    LoadingEnds
