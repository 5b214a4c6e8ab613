CONSTANTS
    t1 = t1
    t2 = t2
    None = None
    v1 = v1
    v2 = v2
    Tasks = {t1, t2}
    Values = {v1, v2}
    Attempts = 4
    RetryTimeouts = TRUE
SPECIFICATION FairSpec
INVARIANTS
    UnitTypeOK
    RetryOverwritesNothing
PROPERTIES
    RequestsEnd
    ImplementsExchange
