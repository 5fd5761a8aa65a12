\* Words of 17 bits.
CONSTANTS
    NumberTexts <- MCNumberTexts
    WordBits = 17
    SignedDigits = 4
    Eight = 2
    MaxExponent = 308
SPECIFICATION Spec
INVARIANTS
    ValueRight
    RefusalsAreKnown
