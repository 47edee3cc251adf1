SPECIFICATION Spec
CONSTANTS
    Kind = "wildcard"
    Lossy = {"DATA", "PLAIN", "SACK", "COUNTER", "START"}
    SeqMod = 16
    Word = 64
    CostType = "ABSOLUTE"
    MinCost <- MC_AnyLoss
    Maxima = {0}
    HistDepth = 1
    MaxSeq = 3
    MaxPkts = 3
    MaxChan = 5
INVARIANT CountersExact
PROPERTY ImplementsMeter
CHECK_DEADLOCK FALSE
