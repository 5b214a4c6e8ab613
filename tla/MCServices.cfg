CONSTANTS
    c1 = c1
    poll = poll
    None = None
    Callers = {c1}
    Poller = poll
    Full = 2
    Fence = 1
    Requests <- AllCalls
    Services <- StopOrFence
    InitialWires <- ForcedWire
    MayIgnore = {"ems_mode"}
    Unserved = {}
SPECIFICATION FairRunSpec
INVARIANTS
    ShownIsTrue
PROPERTIES
    VerifiedRunIsInForce
    StopFindsSelfConsumption
    ServicesEnd
