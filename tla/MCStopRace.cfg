CONSTANTS
    c1 = c1
    c2 = c2
    poll = poll
    None = None
    Callers = {c1, c2}
    Poller = poll
    Full = 2
    Fence = 1
    Requests <- AllCalls
    Services <- StopAndForce
    InitialWires <- RestWire
    MayIgnore = {}
    Unserved = {}
SPECIFICATION RunSpec
PROPERTIES
    StopFindsSelfConsumption
