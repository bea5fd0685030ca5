\* Three goroutines, one probe allowed: the smallest instance in which two
\* late calls meet a half-open breaker.
SPECIFICATION FairSpec
CONSTANTS
    Procs = {p1, p2, p3}
    FailureThreshold = 2
    RecoveryTime = 2
    HalfOpenMaxRequests = 1
INVARIANTS
    TypeOK
    ClosedBelowThreshold
    HalfOpenProbesInFlight
PROPERTIES
    OpenIsLeft
    HalfOpenResolves
