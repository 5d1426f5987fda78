SPECIFICATION Spec
CONSTANTS
    Accounts = {a1, a2}
    Rooms = {r1, r2}
    Conns = {c1, c2, c3}
    Routes = {}
    None = None
SYMMETRY Symmetry
CHECK_DEADLOCK FALSE
INVARIANTS
    TypeOK
    RegisteredIsServed
    PresenceNeedsRival
    NoStranger
    UnlistedHasRival
PROPERTY
    ImplementsLobby
