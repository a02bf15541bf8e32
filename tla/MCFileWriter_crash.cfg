SPECIFICATION Spec
CONSTANTS
    Paths = {a, b}
    NoPath = NoPath
    MaxSaves = 2
    Debounce = 2
    MaxTime = 6
    MaxCrashes = 1
    MaxFaults = 1
SYMMETRY Symmetry
INVARIANTS
    TypeOK
    TargetWhole
    UniqueDeadlines
    NewestNotForgotten
PROPERTIES
    DebounceHonoured
    StoreSpec
