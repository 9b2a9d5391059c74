CONSTANTS
    None = None
    Accounts = {a1, a2}
    Handlers = {h1, h2}
    MaxPlayers = 2
    MaxRooms = 1
    MaxMatches = 2
    Trouble = {"admin", "restart"}
    MaxTroubles = 1
SPECIFICATION Spec
SYMMETRY Symmetry
INVARIANTS
    MatchHasRoom
    OneMatch
    RowsTellOutcome
