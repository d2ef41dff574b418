SPECIFICATION FairSpec
CONSTANTS
    Batch = {b1}
    Socket = {s1}
    Poll = {p1}
    WireCap = 1
    MaxMade = 2
    MaxResets = 1
    MaxTroubles = 1
CHECK_DEADLOCK FALSE
INVARIANTS TypeOK FeedComplete ViewNoDuplicates
PROPERTY Converges
