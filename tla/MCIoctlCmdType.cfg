SPECIFICATION Spec
CONSTANTS
    ioctl = ioctl
    sub = sub
    aux = aux
    foreign = foreign
    copy_from_user = copy_from_user
    copy_to_user = copy_to_user
    memdup_user = memdup_user
    h1 = h1
    h2 = h2
    h3 = h3
    h4 = h4
    h5 = h5
    h6 = h6
    g1 = g1
    g2 = g2
    g3 = g3
    k1 = k1
    k2 = k2
    k3 = k3
    hfile = hfile
    hcmd = hcmd
    harg = harg
    gcmd = gcmd
    garg = garg
    kcmd = kcmd
    karg = karg
    Null = Null
    Garbage = Garbage
    NoConstant = NoConstant
    Functions <- MCFunctions
    Declared <- MCDeclared
    Blocks <- MCBlocks
    FunctionOf <- MCFunctionOf
    EntryBlock <- MCEntryBlock
    Succs <- MCSuccs
    Insts <- MCInsts
    BlockOf <- MCBlockOf
    Kind <- MCKind
    Operands <- MCOperands
    StoredTo <- MCStoredTo
    CaseValues <- MCCaseValues
    Compared <- MCCompared
    Params <- MCParams
    Arguments <- MCArguments
    DirectTargets <- MCDirectTargets
    IndirectTargets <- MCIndirectTargets
    BlockOrders <- MCBlockOrders
    CopyIn = {copy_from_user}
    CopyOut = {copy_to_user}
    MemdupUser = {memdup_user}
    FunctionPointers = {aux, foreign}
    Handler = ioctl
    CmdArguments = {2}
    TypeArguments = {3}
    MAX_FUNC_DEPTH = 2
    MAX_CALLEE_COUNT = 100
    DefaultMaxBBsToExplore = 4
INVARIANTS
    TypeOK
    CommandsAreSound
    CommandIsKnown
    CommandsAreComplete
PROPERTIES
    WalkEnds
CHECK_DEADLOCK FALSE
