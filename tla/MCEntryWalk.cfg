SPECIFICATION Spec
CONSTANTS
    open = open
    load = load
    load_isra = load_isra
    add = add
    hook = hook
    lib = lib
    Functions <- MCFunctions
    Insts <- MCInsts
    Owner <- MCOwner
    DirectTargets <- MCDirectTargets
    IndirectTargets <- MCIndirectTargets
    PointerTargets <- MCPointerTargets
    RealNames <- MCFunctions
    RealName <- MCRealName
    PossibleName = {add}
    SkippedFunctions = {lib}
    CheckerResults <- MCCheckerResults
    InstOf <- MCInstOf
    Results <- MCResults
    EntryFunctions = {open}
    MapOrders <- MCMapOrders
    MAX_FUNC_DEPTH = 2
    MAX_CALLEE_COUNT = 4
INVARIANTS
    TypeOK
    NothingSpurious
    NothingMissed
    CollectedOnce
PROPERTIES
    WalkEnds
CHECK_DEADLOCK FALSE
