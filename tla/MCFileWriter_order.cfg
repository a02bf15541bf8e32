SPECIFICATION Spec
CONSTANTS
    Paths = {a}
    NoPath = NoPath
    MaxSaves = 2
    Debounce = 2
    MaxTime = 9
    MaxCrashes = 0
    MaxFaults = 0
PROPERTIES
    NoRegress
