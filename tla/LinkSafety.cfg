SPECIFICATION Spec
CONSTANTS
    Dest = {d1}
    d1 = d1
    PeerDest <- MCPeerDest
    None = None
    State = {2}
    Peer = {1}
    Patience = 1
    LateCloses = FALSE
    MaxIteration = 2
    MaxAccepts = 1
    QueueCap = 1
    MaxUpdates = 2
    MaxTroubles = 2
CONSTRAINT Narrow
CHECK_DEADLOCK FALSE
INVARIANTS TypeOK DialingNotStuck IndexAgrees NoLeakedLink NotifiedMeansTold FaultNotForgotten
