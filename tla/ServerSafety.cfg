\* One call at a time, every environment that is off in one variable.
SPECIFICATION FairSpec
CONSTANTS
    InternalHosts <- Internal
    Escapes <- PercentEscapes
    EnvironmentsTried <- OneOff
    Messages <- Envoy
    Calls = {c1}
CHECK_DEADLOCK FALSE
INVARIANTS
    TypeOK
    RunsOnUsableConfig
    AskedAlike
    PassedWasAllowed
    LossHasACause
PROPERTIES
    StartEnds
    StopEnds
