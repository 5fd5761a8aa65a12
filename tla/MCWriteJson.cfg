\* Blocks of 4 and 2 bytes; a letter, a quote, a newline and a control character.
\* An indentation that overflows at the fourth level.
CONSTANTS
    Values <- MCValues
    Parts <- MCParts
    Wide = 4
    Narrow = 2
    Spaces = 2
    Width = 8
    LongLength = 9
    Alphabet = {97, 34, 10, 31}
    TextLength = 5
    LongText = 11
SPECIFICATION JsonSpec
INVARIANTS
    ReadsBack
    WrittenInOrder
    RoundTrip
    WrittenSoFar
    Indented
