SPECIFICATION Spec
CONSTANTS
    Files <- MC_Files
    Names <- MC_Names
    NameLen <- MC_NameLen
    Ranges <- MC_Ranges
    MaxFaults = 2
    Word = 8
INVARIANTS
    TypeOK
    NothingLeaks
    CrashIsExplained
    RefusalIsTrue
    OutputExact
    TextRange
