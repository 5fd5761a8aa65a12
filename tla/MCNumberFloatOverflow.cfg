\* Floats whose integer part is just beyond a word.
CONSTANTS
    NumberTexts <- LongFloats
    WordBits = 17
    SignedDigits = 4
    Eight = 2
    MaxExponent = 308
SPECIFICATION Spec
INVARIANT
    FloatsNeverOverflow
