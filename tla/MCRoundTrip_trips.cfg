CONSTANTS
    Letters <- MCLetters
    Mixed = 6
    Plain = 7
    Size = 5
    Sources <- MCSources
    Fragments <- MCFragments
SPECIFICATION Spec
INVARIANTS
    TypeOK
    PairsNest
    DelimitersKept
    OnlySkippedLost
    OneKindFixed
