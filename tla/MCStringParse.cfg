\* Chunks of 4 bytes.
CONSTANTS
    Texts <- MCTexts
    Chunk = 4
    Garbage = {34, 48}
    PieceCount = 3
    TailLength = 2
SPECIFICATION Spec
INVARIANTS
    BuffersInRange
    UnescapedRight
    RestUntouched
