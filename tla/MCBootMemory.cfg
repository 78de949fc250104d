SPECIFICATION Spec
CONSTANTS
    W = 32
    PageSize = 2
    OneMB = 4
    SixteenMB = 20
    KB = 2
    KB64 = 4
    LowTop = 10
    HighBase = 14
    Kend = 6
    NSlots = 2
    Maps <- MC_Maps
    Services <- MC_Services
INVARIANTS
    TypeOK
    MapIsRam
    E820Exact
    PmmRegionsAreRam
PROPERTIES
    DetectionEnds
