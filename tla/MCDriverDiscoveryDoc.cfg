SPECIFICATION Spec
CONSTANTS
    init_a = init_a
    init_b = init_b
    ctl_a = ctl_a
    ctl_b = ctl_b
    ctl_c = ctl_c
    probe = probe
    f1 = f1
    f2 = f2
    f3 = f3
    n1 = n1
    n2 = n2
    n3 = n3
    n4 = n4
    n5 = n5
    n6 = n6
    dev_a = dev_a
    dev_b = dev_b
    file_a = file_a
    file_b = file_b
    file_c = file_c
    NoHandler = NoHandler
    FunctionNames <- MCFunctionNames
    InitFunctions <- MCInitFunctions
    Pointers <- MCPointers
    Cmds <- MCCmds
    Findings <- MCFindings
    FoundIn <- MCFoundIn
    Needs <- MCNeeds
    OpsName <- MCOpsName
    SourceLines <- MCSourceLines
    FileOps <- MCFileOps
    Through <- MCThrough
    IoctlHandler <- MCIoctlHandler
    WalkOrders <- MCWalkOrders
INVARIANTS
    FunctionPointersTellApart
CHECK_DEADLOCK FALSE
