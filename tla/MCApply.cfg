CONSTANTS
    c1 = c1
    poll = poll
    None = None
    Callers = {c1}
    Poller = poll
    Full = 2
    Fence = 1
    Requests <- AllModes
    InitialWires <- AllWires
    MayIgnore = {}
    Unserved = {}
SPECIFICATION Spec
INVARIANTS
    TypeOK
PROPERTIES
    NoReversalAtNewPower
    ForcedStartsAsAsked
    LimitsStayWhileForced
    FencesAfterRestoring
