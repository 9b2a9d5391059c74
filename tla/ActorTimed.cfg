\* A room with a decision time and no showdown choice.
CONSTANTS
    None = None
    Accounts = {a1, a2}
    CommandIds = {i1, i2}
    Calls = {c1, c2}
    Timed = TRUE
    ShowdownChoice = FALSE
    DealtOver = TRUE
    StartsConnected = TRUE
    MaxVersion = 2
    Lag = 1
    MaxLate = 1
SPECIFICATION Spec
SYMMETRY Symmetry
INVARIANTS
    TypeOK
    NothingBehindStop
    CallersAgree
    HandledOnce
PROPERTIES
    AutomaticIsDefault
    ImplementsSerialMatch
