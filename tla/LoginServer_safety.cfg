SPECIFICATION Spec
CONSTANTS
    Calls = {c1, c2, c3}
    Names = {n1}
    Pwds = {w1, w2}
    None = None
SYMMETRY Symmetry
CHECK_DEADLOCK FALSE
INVARIANTS
    CredentialsMatch
    NoOlderSession
    RefusedOnlyIfReplaced
    GapOnlyInLogin
    CurrentKeyIsLive
PROPERTY
    ImplementsSessionTable
