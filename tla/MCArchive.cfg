SPECIFICATION Spec
CONSTANTS
    MaxErrors = 2
    SARMAG = 2
    SAR_HDR = 4
    NameField = 2
    NameMax = 5
    Archives <- MC_Archives
    Args <- MC_Args
INVARIANTS
    TypeOK
    HeaderTrue
    MembersReported
    NothingOpen
PROPERTIES
    WalkEnds
