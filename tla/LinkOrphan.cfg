SPECIFICATION Spec
CONSTANTS
    Dest = {d1}
    d1 = d1
    PeerDest <- MCPeerDest
    None = None
    State = {2}
    Peer = {}
    Patience = 1
    LateCloses = FALSE
    MaxIteration = 2
    MaxAccepts = 1
    QueueCap = 1
    MaxUpdates = 2
    MaxTroubles = 1
CHECK_DEADLOCK FALSE
PROPERTIES OnlyEntriesAreDialed
