\* Two goroutines, a user on two routes with one key, fail-open, breaker on.
SPECIFICATION Spec
CONSTANTS
    Procs = {p1, p2}
    Requests <- Colliding
    Parts <- FewParts
    Actions <- OneAction
    FailureMode = "fail_open"
    CircuitBreakerEnabled = TRUE
    DefaultPolicyScope <- DefaultScope
    CacheTTL = 1
    CacheFailedTTL = 1
    FailureThreshold = 1
    RecoveryTime = 1
    HalfOpenMaxRequests = 1
SYMMETRY Symmetry
INVARIANTS
    TypeOK
    AllowIsBacked
    CacheHoldsAnswers
    NobodyWaits
PROPERTIES
    WedgedForGood
