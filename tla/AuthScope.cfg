SPECIFICATION Spec
CONSTANTS
    Procs = {p1}
    Requests <- TwoScopes
    Parts <- FewParts
    Actions <- OneAction
    FailureMode = "fail_closed"
    CircuitBreakerEnabled = TRUE
    DefaultPolicyScope <- DefaultScope
    CacheTTL = 1
    CacheFailedTTL = 1
    FailureThreshold = 1
    RecoveryTime = 1
    HalfOpenMaxRequests = 1
INVARIANTS
    ScopeRespected
