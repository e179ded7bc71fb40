SPECIFICATION Spec
CONSTANTS
    run = run
    probe = probe
    init = init
    init_5 = init_5
    NoFunction = NoFunction
    Functions <- MCFunctions
    Insts <- MCInsts
    Owner <- MCOwner
    DirectCallee <- MCDirectCallee
    Pointed <- MCPointed
    MltaResults <- MCMltaResults
    Levels <- MCLevels
    RealNames <- MCFunctions
    RealName <- MCRealName
    InitSection <- MCInitSection
    InitcallLists <- MCInitcallLists
INVARIANTS
    InitIsNoTarget
CHECK_DEADLOCK FALSE
