\* validate on every document of up to ShortLength characters, and on the
\* texts of up to LongLength characters with one character changed.
CONSTANTS
    Documents <- MCDocuments
    Uninit = Uninit
    ShortLength = 3
    LongLength = 8
SPECIFICATION Spec
INVARIANTS
    TypeOK
    UncheckedAccessesGood
    CountsInitialised
    CountsMatchElements
    AcceptsExactlyJson
