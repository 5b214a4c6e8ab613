CONSTANTS
    None = None
    Nominal = 8000
    Low = 0
    High = 8800
    Limits = {0, 50, 60, 68, 70, 4000, 8000, 8500, 9000}
    HalfUp = {60}
    Ratios = {0, 6, 7, 8, 10, 500, 1000}
SPECIFICATION Spec
INVARIANTS
    LimitInForce
    NeverMismatch
    RepeatWritesNothing
PROPERTIES
    EnablingAppliesTarget
    CapStaysBelow
