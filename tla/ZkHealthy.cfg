SPECIFICATION FairSpec
CONSTANTS
    Servers = {s1, s2, s3}
    DeregisterFirst = TRUE
    CrashLimit = 2
CHECK_DEADLOCK FALSE
INVARIANTS
    RunningIsOwner
    RegisteredIsListening
PROPERTY
    DownComesUp
