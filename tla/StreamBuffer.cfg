SPECIFICATION FairSpec
CONSTANTS
    Producers = {p1, p2}
    Disposers = {d1}
    Max = 1
    PushLimit = 2
CHECK_DEADLOCK FALSE
INVARIANTS
    TypeOK
    BacklogBounded
    NoLostWakeup
    SenderOrder
    AtMostOneAfterClose
PROPERTIES
    ImplementsMailbox
    CloseEndsPull
    CancelEndsPull
    QueuedIsTaken
