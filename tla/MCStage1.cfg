\* Blocks of 4 bytes; texts of up to three blocks, and some beyond IndexLimit.
CONSTANTS
    InputTexts <- MCTexts
    Width = 4
    IndexLimit = 12
    AllLength = 5
    RunLength = 9
    GapLength = 6
SPECIFICATION Spec
INVARIANTS
    TypeOK
    CarriesMatch
    IndexesMatch
    ScanCorrect
