CONSTANTS
    c1 = c1
    c2 = c2
    poll = poll
    None = None
    Callers = {c1, c2}
    Poller = poll
    Full = 2
    Fence = 1
    Requests <- RacingModes
    InitialWires <- RacingWires
    MayIgnore = {"ems_mode", "forced_power", "pv_power_limitation"}
    Unserved = {}
SPECIFICATION Spec
SYMMETRY Symmetry
INVARIANTS
    OneCallAtATime
    FreshMatchesWire
PROPERTIES
    UnchangedIsInForce
    VerifiedIsInForce
