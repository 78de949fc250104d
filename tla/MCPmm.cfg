SPECIFICATION LiveSpec
CONSTANTS
    SignBit = 8
    LowTop = 4
    HighBase = 6
    Boots <- MC_Boots
    MaxRequest = 3
    Contents <- MC_Contents
INVARIANTS
    TypeOK
    ListIntact
    NoDoubleAlloc
    Conserved
    WindowOK
PROPERTIES
    NoMemoryLeft
    PoolSpec
    CallsReturn
