SPECIFICATION Spec
CONSTANTS
    NSegs = 4
    NLists = 4
    Quantum = 2
    Base = 3
    Span = 13
    Half = 16
    Sizes <- MC_Sizes
INVARIANTS AllocatedLeavesList
