CONSTANTS
    Documents <- Headless
    Formulas <- None
    Diagrams <- None
    MaxBoxes = 4
    MaxLinks = 4
    MaxMembers = 2
    MaxDepth = 4
    Jobs <- None
    NameMax = 4
    PathMax = 4
    ListMax = 16
    ListSpare = 4
    EntrySize = 2
SPECIFICATION FairSpec
CHECK_DEADLOCK FALSE
PROPERTY DocumentEnds
