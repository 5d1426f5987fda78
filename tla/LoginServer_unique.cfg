SPECIFICATION Spec
CONSTANTS
    Calls = {c1, c2}
    Names = {n1}
    Pwds = {w1, w2}
    None = None
CHECK_DEADLOCK FALSE
INVARIANT
    UniqueAccountName
