SPECIFICATION FairSpec
CONSTANTS
    Dest = {d1}
    d1 = d1
    PeerDest <- MCPeerDest
    None = None
    State = {2}
    Peer = {}
    Patience = 1
    LateCloses = FALSE
    MaxIteration = 3
    MaxAccepts = 1
    QueueCap = 2
    MaxUpdates = 1
    MaxTroubles = 1
CHECK_DEADLOCK FALSE
PROPERTIES  NewLinkTold FaultsSettle
