\* Four players, versions 0 to 2, one reconnect, two messages.
CONSTANTS
    None = None
    Me = me
    o1 = o1
    o2 = o2
    o3 = o3
    Others = {o1, o2, o3}
    SeatOf <- MCSeatOf
    MaxVersion = 2
    LimitsAt <- MCLimitsAt
    Typed = {3, 9}
    MaxChat = 2
    ChatCap = 1
    MaxMounts = 2
SPECIFICATION Spec
CONSTRAINT OneConcern
INVARIANTS
    BetFits
    
    RingIsTurned

    
