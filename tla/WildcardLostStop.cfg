SPECIFICATION Spec
CONSTANTS
    Kind = "wildcard"
    Lossy = {"STOP"}
    SeqMod = 16
    Word = 64
    CostType = "ABSOLUTE"
    MinCost <- MC_AnyLoss
    Maxima = {0}
    HistDepth = 1
    MaxSeq = 2
    MaxPkts = 2
    MaxChan = 4
INVARIANT CountersExact
CHECK_DEADLOCK FALSE
