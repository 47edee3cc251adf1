CONSTANTS
    f1 = f1
    f2 = f2
    f3 = f3
    f4 = f4
    ControlFlow = zero
    Flows = {f1, f2, f3, f4}
    LossyFlows = {f1, f2, f4}
    Hash <- MCHash
    CellBit <- MCCellBit
    RerouteBits <- MCRerouteBits
    CounterMod = 256
    MaxCollisions = 1
    MinCost <- MCMinCost
    Attributes <- MCAttributes
    MaxPackets <- MCMaxPackets
SPECIFICATION Spec
INVARIANTS TypeOK DifferencesAreLosses PathsBlameLosers FoundWithinDepth
PROPERTY AllFailuresRerouted
CHECK_DEADLOCK FALSE
