SPECIFICATION Spec
CONSTANTS
    Inputs <- MC_Inputs
    BUFFSZ = 4
    MAXARGS = 2
    MaxFaults = 1
INVARIANTS
    TypeOK
    CommandsTrue
    NothingLeft
