\* Two goroutines on one route while the mappings change.
SPECIFICATION Spec
CONSTANTS
    Procs = {p1, p2}
    Routes <- OneRoute
    Characters = {"/", "a", "$"}
    Parameters = {":p", ":q"}
    Patterns <- SmallPatterns
    OwnRegexes <- OwnExpressions
    Paths <- SmallPaths
    Catalogues <- Changing
    LookupTTL = 2
    Latency = 1
SYMMETRY Symmetry
INVARIANTS
    TypeOK
    LookupIsRecent
PROPERTIES
    PatternsMeanTheirInstances
    OwnRegexIsDecisive
    ChangesTakeHold
