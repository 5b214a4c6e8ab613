CONSTANTS
    c1 = c1
    poll = poll
    None = None
    Callers = {c1}
    Poller = poll
    Full = 2
    Fence = 1
    Requests <- OtherCalls
    InitialWires <- DoubtWires
    MayIgnore = {}
    Unserved = {"ems_mode"}
SPECIFICATION FairSpec
PROPERTIES
    CallsEnd
    DoubtedModeIsLeft
