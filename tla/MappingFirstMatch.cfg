SPECIFICATION SettledSpec
CONSTANTS
    Procs = {p1}
    Routes <- OneRoute
    Characters = {"/", "a", "$"}
    Parameters = {":p", ":q"}
    Patterns <- SmallPatterns
    OwnRegexes <- OwnExpressions
    Paths <- SmallPaths
    Catalogues <- Settled
    LookupTTL = 1
    Latency = 1
INVARIANTS
    FirstMatchWins
