\* Integers of 2 and 3 bits stand for those of 8 and 64.
CONSTANTS
    Sources <- MCSources
    Targets <- MCTargets
    WideBits = 3
    NarrowBits = 2
    Letters = {"a", "b", "1", "3"}
    Digits <- MCDigits
SPECIFICATION Spec
INVARIANTS
    ValueDenotes
    FailsOnKeysOnly
    ReadsBackItself
    ReadsBackUnless
    NothingUnread
