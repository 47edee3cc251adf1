SPECIFICATION Spec
CONSTANTS
    Kind = "dedicated"
    Lossy = {"CACK"}
    SeqMod = 16
    Word = 64
    CostType = "RELATIVE"
    MinCost <- MC_AnyLoss
    Maxima = {0}
    HistDepth = 1
    MaxSeq = 2
    MaxPkts = 2
    MaxChan = 4
INVARIANT NoFalseAlarm
CHECK_DEADLOCK FALSE
