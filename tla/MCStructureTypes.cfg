SPECIFICATION Spec
CONSTANTS
    list = list
    listcopy = listcopy
    node = node
    Integer = Integer
    Structures <- MCStructures
    RealName <- MCRealName
    Types <- MCTypes
    Bodies <- MCBodies
    Commands <- MCCommands
INVARIANTS
    NamesAreDefined
    CyclesAreOptional
CHECK_DEADLOCK FALSE
