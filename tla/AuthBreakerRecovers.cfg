SPECIFICATION FairSpec
CONSTANTS
    Procs = {p1}
    Requests <- OnlyAlice
    Parts <- FewParts
    Actions <- OneAction
    FailureMode = "fail_closed"
    CircuitBreakerEnabled = TRUE
    DefaultPolicyScope <- DefaultScope
    CacheTTL = 1
    CacheFailedTTL = 1
    FailureThreshold = 1
    RecoveryTime = 1
    HalfOpenMaxRequests = 1
PROPERTIES
    BreakerRecovers
