SPECIFICATION Spec
CONSTANTS
    Readers = {r1, r2}
    TTL = 2
    StaleTTL = 4
    FailureTTL = 1
    MaxRetry = 5
    MaxClock = 6
    None = None
INVARIANTS
    StaleIsLabeled
CHECK_DEADLOCK FALSE
