\* Documents of up to LongLength structural characters, and those of up to
\* MarkedLength with the other kinds of numbers and the names; no tuple struct inside
\* another container.
CONSTANTS
    Documents <- MCDocuments
    Types <- MCTypes
    Uninit = Uninit
    GarbageCount = 2
    LongLength = 11
    MarkedLength = 9
SPECIFICATION SerdeSpec
INVARIANTS
    SerdeCursorInRange
    ReadsWhatFits
    ReadsNothingElse
