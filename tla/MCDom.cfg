\* to_value on the texts of up to LongLength structural characters.
CONSTANTS
    Documents <- MCDocuments
    Uninit = Uninit
    GarbageCount = 2
    LongLength = 9
SPECIFICATION DomSpec
INVARIANTS
    CursorInRange
    WalkOnTrack
    OnlyLeavesFail
PROPERTIES
    Termination
    KeepsPromise
