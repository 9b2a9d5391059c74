\* A room without a decision time, where players come and go.
CONSTANTS
    None = None
    Accounts = {a1, a2}
    CommandIds = {i1}
    Calls = {c1, c2}
    Timed = FALSE
    ShowdownChoice = FALSE
    DealtOver = TRUE
    StartsConnected = TRUE
    MaxVersion = 2
    Lag = 1
    MaxLate = 2
SPECIFICATION Spec
SYMMETRY Symmetry
INVARIANTS
    TimersAreCurrent
    DeadlineIsHonest
    CommandQueuedOnce
