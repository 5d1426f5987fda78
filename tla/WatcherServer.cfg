SPECIFICATION WatchFairSpec
CONSTANTS
    Servers = {s1, s2}
    DeregisterFirst = FALSE
    CrashLimit = 1
    Events = {e1, e2}
    Startup = startup
    GlitchLimit = 1
CHECK_DEADLOCK FALSE
INVARIANTS
    KnowsAllWhenSettled
PROPERTY
    RegisteredIsFound
