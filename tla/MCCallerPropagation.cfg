CONSTANTS
    fa = fa
    fb = fb
    fc = fc
    init = init
    Functions <- MCFunctions
    Insts <- MCInsts
    Owner <- MCOwner
    DirectTargets <- MCDirectTargets
    IndirectTargets <- MCIndirectTargets
    PointerTargets <- MCPointerTargets
    InitFunctions <- MCInitFunctions
    MapOrders <- MCMapOrders
    MaxResults = 1
    MaxRounds = 2
SPECIFICATION Spec
INVARIANTS
    TypeOK
    RecordedLeadsToResult
    OutcomeIsOrderIndependent
    OneSitePerPair
PROPERTIES
    PassEnds
    ImplementsClosure
CHECK_DEADLOCK FALSE
