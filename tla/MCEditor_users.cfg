SPECIFICATION FairSpec
CONSTANTS
    a = a
    b = b
    Files = {a, b}
    NoFile = NoFile
    Users <- WaitingAndHasty
    Broken <- FirstBroken
    ServedInOrder = TRUE
    BodiesPrompt = TRUE
INVARIANTS
    TypeOK
    OwnFile
    NoLostEdit
    PanesAgree
    ShownIsSaved
PROPERTY Settles
