\* Two accounts and one to be created; two logins or two changes in the tab and one change elsewhere.
CONSTANTS
    None = None
    Unknown = Unknown
    Accounts = {a1, a2, a3}
    Bootstrap = a1
    MaxChanges = 2
    MaxOthers = 1
    MaxLogins = 2
    MaxMoves = 2
    MaxAsked = 2
SPECIFICATION Spec
CHECK_DEADLOCK FALSE
CONSTRAINT LoginsOrChanges
INVARIANTS
    SettledPagesAreCurrent
    
    RoleRemains
