SPECIFICATION MCSpec
CONSTANTS
    source = source
    target = target
    other = other
    Router = {source, target, other}
    Path <- MCPath
    Retries = 2
    MaxTroubles = 1
CHECK_DEADLOCK FALSE
INVARIANT WaitsForAttempt
