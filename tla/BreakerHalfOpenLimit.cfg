SPECIFICATION CallerSpec
CONSTANTS
    Procs = {p1, p2}
    FailureThreshold = 1
    RecoveryTime = 1
    HalfOpenMaxRequests = 1
INVARIANTS
    HalfOpenLimit
