SPECIFICATION Spec
CONSTANTS
    SignBit = 8
    LowTop = 4
    HighBase = 6
    Boots <- MC_BigBoots
    MaxRequest = 3
    Contents <- MC_Contents
PROPERTIES
    NoMemoryLeft
