\* Progress in a timed room.
CONSTANTS
    None = None
    Accounts = {a1, a2}
    CommandIds = {i1}
    Calls = {c1, c2}
    Timed = TRUE
    ShowdownChoice = FALSE
    DealtOver = FALSE
    StartsConnected = TRUE
    MaxVersion = 2
    Lag = 0
    MaxLate = 0
SPECIFICATION FairSpec
PROPERTIES
    CallsAnswered
    TimedDecisionsEnd
    FinishedActorStops
