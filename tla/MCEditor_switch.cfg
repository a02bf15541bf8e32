SPECIFICATION Spec
CONSTANTS
    a = a
    b = b
    Files = {a, b}
    NoFile = NoFile
    Users <- Opening
    Broken <- NoneBroken
    ServedInOrder = TRUE
    BodiesPrompt = TRUE
INVARIANTS
    NoMixing
