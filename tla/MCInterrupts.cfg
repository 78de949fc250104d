SPECIFICATION LiveSpec
CONSTANTS
    Wired <- MC_Wired
INVARIANTS
    TypeOK
    NeverStuck
    KeyHasInterrupt
PROPERTIES
    EoiEndsOwnLine
    TickServed
    KeyRead
