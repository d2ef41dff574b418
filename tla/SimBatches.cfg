SPECIFICATION SimSpec
CONSTANTS
    LongPause = FALSE
    MaxBatches = 3
    Count = 2
    MaxResets = 2
    MaxLive = 1
CHECK_DEADLOCK FALSE
INVARIANTS SimTypeOK    
 
