\* A quit after the first betting round.
CONSTANTS
    N = 3
    StartingChips = 3
    SmallBlind = 1
    IncreaseEvery = 2
    FixedHands = 0
    ShowdownChoice = FALSE
    LastStreet = 2
    MaxHands = 2
SPECIFICATION Spec
CHECK_DEADLOCK FALSE
INVARIANTS
    ChipsConserved
