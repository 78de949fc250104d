SPECIFICATION Spec
CONSTANTS
    NSectors = 24
    Segment = 9
    Track = 3
    Heads = 3
    DefaultTrack = 2
    DefaultHeads = 2
    Cylinders = 4
    Reserved = 1
    FatCount = 2
    SectorsPerFat = 3
    ClusterSize = 3
    RootEntries = 4
    EntriesPerSector = 2
    NibblesPerSector = 8
    Machines <- MC_HardDisks
INVARIANTS
    KernelLoaded
