CONSTANTS
    Documents <- MCDocuments
    Formulas <- MCFormulas
    Diagrams <- MCDiagrams
    MaxBoxes = 4
    MaxLinks = 4
    MaxMembers = 2
    MaxDepth = 4
    Jobs <- MCJobs
    NameMax = 4
    PathMax = 4
    ListMax = 16
    ListSpare = 4
    EntrySize = 2
SPECIFICATION FairSpec
CHECK_DEADLOCK FALSE
INVARIANTS
    TypeOK
    EachLineOnce
    MarkersHonoured
    ErrorIffUnterminated
    EachTokenOnce
    Faithful
    LinksAsWritten
    OneBoxEach
    RanksInBounds
    LinksGoDown
    SavedAsTyped
    ShownAsSaved
    AnswerIsJson
PROPERTY ConversionEnds
