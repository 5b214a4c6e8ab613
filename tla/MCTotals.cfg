CONSTANTS
    None = None
    Readings = {0, 98, 99, 100, 200}
    MaxChanges = 4
    MaxFaults = 3
SPECIFICATION Spec
INVARIANTS
    TotalTypeOK
    HeldIsClose
    TotalIsKept
PROPERTIES
    OnlyResetsLower
