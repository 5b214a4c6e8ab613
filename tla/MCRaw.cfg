CONSTANTS
    c1 = c1
    e1 = e1
    poll = poll
    None = None
    Callers = {c1, e1}
    Entities = {e1}
    Poller = poll
    Full = 2
    Fence = 1
    Requests <- FencingCalls
    Services <- FencingServices
    Settings <- LimitSettings
    Faults = {"unanswered", "cancelled"}
    InitialWires <- RestWire
    MayIgnore = {"max_charge_power"}
    Unserved = {}
SPECIFICATION RawSpec
INVARIANTS
    RawTypeOK
    MarksAreTrue
