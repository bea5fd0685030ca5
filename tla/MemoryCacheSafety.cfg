\* Three keys compete for two places; the clock runs past every TTL.
SPECIFICATION Spec
CONSTANTS
    Procs = {p1, p2}
    Keys = {k1, k2, k3}
    Values <- Decisions
    TTLs = {0, 1}
    MaxMemorySize = 2
    MaxTime = 3
SYMMETRY Symmetry
INVARIANTS
    TypeOK
    WithinCapacity
    SizeIsUpperBound
PROPERTIES
    EvictsExpiredFirst
    KeepsThePromise
