SPECIFICATION FairSpec
CONSTANTS
    Peers = {q1, q2}
    Calls = {k1}
    None = None
CHECK_DEADLOCK FALSE
INVARIANTS
    TypeOK
    LiveIsListed
    HearsOneAnswer
    DescribedByPeer
    ShownIsConnected
PROPERTY
    JoinEnds
