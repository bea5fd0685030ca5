\* Two goroutines, a user and a client without a name, no breaker: Sets in every order.
SPECIFICATION TimedSpec
CONSTANTS
    Procs = {p1, p2}
    Requests <- AliceAndNobody
    Parts <- FewParts
    Actions <- OneAction
    FailureMode = "fail_closed"
    CircuitBreakerEnabled = FALSE
    DefaultPolicyScope <- DefaultScope
    CacheTTL = 2
    CacheFailedTTL = 1
    FailureThreshold = 1
    RecoveryTime = 1
    HalfOpenMaxRequests = 1
    Latency = 1
SYMMETRY Symmetry
INVARIANTS
    StaleTypeOK
    AllowIsBacked
    AnonymousOnlyPublic
    StoredIsRecent
PROPERTIES
    HitsAreRecent
