SPECIFICATION Spec
CONSTANTS
    a = a
    b = b
    Files = {a, b}
    NoFile = NoFile
    Users <- Idle
    Broken <- NoneBroken
    ServedInOrder = TRUE
    BodiesPrompt = TRUE
INVARIANTS
    OwnFile
