CONSTANTS
    None = None
    Realtime <- RealtimePart
    Slow <- SlowPart
    Optional = {"start_power"}
    Devices <- Some
    StandsFor <- Standing
    MaxFaults = 2
SPECIFICATION EntitiesSpec
CHECK_DEADLOCK FALSE
INVARIANTS
    PollTypeOK
    SetupSettles
    OnlySilenceCounts
PROPERTIES
    StuckLinkRecovers
    ServedIsShown
    EntitiesAreShown
