SPECIFICATION ExplorationSpec
CONSTANTS
    open = open
    reg = reg
    cb = cb
    late = late
    probe = probe
    lib = lib
    Functions <- MCFunctions
    Insts = {1, 2, 3, 4, 5, 6, 7, 8, 9, 10}
    AllCallee <- MCAllCallee
    Owner <- MCOwner
    RealNames <- MCFunctions
    RealName <- MCRealName
    CheckerResults <- MCCheckerResults
    InstOf <- MCInstOf
    Results <- MCResults
    NamesIn <- MCNamesIn
    SkippedFunctions = {lib}
    EntryFunctions = {open, late}
    ParentPointers <- MCParentPointers
    HeapOrders <- MCHeapOrders
    MapOrders <- MCMapOrders
    MAX_FUNC_DEPTH = 3
    MAX_CALLEE_COUNT = 9
INVARIANTS
    WalkTypeOK
    SurePointersCollected
    SureResultsCollected
    IndirectCallsAreJustified
PROPERTIES
    ImplementsPointerClosure
    ExplorationEnds
CHECK_DEADLOCK FALSE
