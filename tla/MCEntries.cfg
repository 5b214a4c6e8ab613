CONSTANTS
    e1 = e1
    e2 = e2
    f1 = f1
    f2 = f2
    None = None
    Entries = {e1, e2}
    Flows = {f1, f2}
    Inverters <- SomeInverters
    Addresses <- SomeAddresses
    MaxMoves = 2
SPECIFICATION Spec
SYMMETRY Symmetry
INVARIANTS
    EntryTypeOK
    OneEntryEach
    EntryFindsItsInverter
    SpacingFollowsEntries
