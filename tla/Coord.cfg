\* Three players, three hands if nobody wins before, two betting rounds in each.
CONSTANTS
    N = 3
    StartingChips = 3
    SmallBlind = 1
    IncreaseEvery = 2
    FixedHands = 3
    ShowdownChoice = FALSE
    LastStreet = 2
    MaxHands = 4
SPECIFICATION Spec
CHECK_DEADLOCK FALSE
INVARIANTS
    ChipsAccounted
    MatchEndsOnTime
    BlindsFollowTheDealer
PROPERTIES
    QuitIsFair
