\* Two goroutines, a key that stays and one that comes and goes; and tokens of
\* every origin, at every second of their lives.
SPECIFICATION Spec
CONSTANTS
    Procs = {p1, p2}
    Kids = {k1, k2}
    Stable = {k1}
    CacheTTL = 1
    GraceTTL = 2
    Timeout = 1
    ExpectedIssuer = "idp"
    RoleLists <- SmallRoleLists
    Tokens <- SmallTokens
    Keyrings <- SmallKeyrings
    Instants = {1, 2, 3, 4}
SYMMETRY Symmetry
INVARIANTS
    TypeOK
    FreshKeysAreRecent
    NoOutageWithinGrace
PROPERTIES
    RolesListedOnce
    NamedPrincipalsAreGenuine
