SPECIFICATION Spec
CONSTANTS
    first = first
    second = second
    handler = handler
    opsA = opsA
    opsB = opsB
    opsC = opsC
    nameA = nameA
    pattern = pattern
    foreign = foreign
    device = device
    minorC = minorC
    fileOps = fileOps
    install = install
    late = late
    InitEntries = {first, second}
    Handlers = {handler}
    Installs <- MCInstalls
    CheckerResults <- MCCheckerResults
    Outcomes <- MCOutcomes
    EntryOf <- MCEntryOf
    Checker <- MCChecker
    Id <- MCId
    Chain <- MCChain
    Value <- MCValue
    SamePlace <- MCSamePlace
INVARIANTS
    MappingTypeOK
    GivenToNearest
    OwnNameIsUsed
CHECK_DEADLOCK FALSE
