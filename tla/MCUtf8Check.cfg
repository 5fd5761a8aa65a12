\* Lanes of 3 bytes, blocks of 6.
CONSTANTS
    InputTexts <- MCTexts
    Lane = 3
    EdgeLength = 3
    KindLength = 4
SPECIFICATION Spec
INVARIANTS
    ErrorSoFar
    VerdictCorrect
