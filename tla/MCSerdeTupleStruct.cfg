\* Tuple structs inside other containers.
CONSTANTS
    Documents <- MCDocuments
    Types <- NestedTupleStructs
    Uninit = Uninit
    GarbageCount = 2
    LongLength = 9
    MarkedLength = 1
SPECIFICATION SerdeSpec
INVARIANT
    ReadsWhatFits
