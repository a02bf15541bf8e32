SPECIFICATION PromptFairSpec
CONSTANTS
    Paths = {a}
    NoPath = NoPath
    MaxSaves = 3
    Debounce = 2
    MaxTime = 7
    MaxCrashes = 0
    MaxFaults = 0
PROPERTIES
    NoRegress
    SaveLands
    LastSaveStays
