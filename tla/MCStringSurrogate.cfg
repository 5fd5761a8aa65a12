\* Strings with low surrogates that have no high one before them.
CONSTANTS
    Texts <- LoneSurrogates
    Chunk = 4
    Garbage = {34}
    PieceCount = 2
    TailLength = 2
SPECIFICATION Spec
INVARIANT
    NoSurrogateEncoded
