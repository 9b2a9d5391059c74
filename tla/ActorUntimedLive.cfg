\* Progress in an untimed room whose players leave and return.
CONSTANTS
    None = None
    Accounts = {a1, a2}
    CommandIds = {i1}
    Calls = {c1}
    Timed = FALSE
    ShowdownChoice = FALSE
    DealtOver = TRUE
    StartsConnected = TRUE
    MaxVersion = 2
    Lag = 1
    MaxLate = 1
SPECIFICATION FairSpec
PROPERTIES
    AbsentDecisionsEnd
