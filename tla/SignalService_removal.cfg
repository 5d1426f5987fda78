SPECIFICATION Spec
CONSTANTS
    Accounts = {a1}
    Rooms = {r1}
    Conns = {c1, c2}
    Routes = {}
    None = None
CHECK_DEADLOCK FALSE
PROPERTY
    RemoveIfClosed
