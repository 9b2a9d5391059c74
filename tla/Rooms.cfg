CONSTANTS
    None = None
    Accounts = {a1, a2}
    Handlers = {h1, h2}
    MaxPlayers = 2
    MaxRooms = 2
    MaxMatches = 1
    Trouble = {"database", "early"}
    MaxTroubles = 1
SPECIFICATION Spec
SYMMETRY Symmetry
INVARIANTS
    TypeOK
    SomebodyGoesOn
    ActiveRoomHasMatch
PROPERTIES
    HostStays
