SPECIFICATION FairSpec
CONSTANTS
    Accounts = {a1, a2}
    Rooms = {r1}
    Clients = {c1, c2}
    None = None
CHECK_DEADLOCK FALSE
INVARIANT
    MissOnlyIfEarly
    OffersFollowList
PROPERTY
    HangUpClearsEntry
