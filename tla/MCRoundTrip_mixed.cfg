CONSTANTS
    Letters <- MCLetters
    Mixed = 6
    Plain = 1
    Size = 1
    Sources <- MixedSources
    Fragments = {}
SPECIFICATION Spec
INVARIANT FixedPoint
