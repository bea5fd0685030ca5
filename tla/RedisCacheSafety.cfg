\* One key, opposite decisions, commands up to one tick late.
SPECIFICATION Spec
CONSTANTS
    Keys = {k1}
    Values <- Decisions
    TTLs = {1, 2}
    Lag = 1
    Readers = {p1}
INVARIANTS
    TypeOK
PROPERTIES
    KeepsItsPromise
