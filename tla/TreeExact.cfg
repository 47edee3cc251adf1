SPECIFICATION Spec
CONSTANTS
    Kind = "tree"
    Lossy = {"START", "STOP", "DATA", "SACK", "COUNTER"}
    SeqMod = 16
    Word = 64
    CostType = "RELATIVE"
    MinCost <- MC_AnyLoss
    Maxima = {0, 1, 2}
    HistDepth = 3
    MaxSeq = 3
    MaxPkts = 2
    MaxChan = 5
INVARIANT SameHistory
PROPERTIES ImplementsMeter ShiftOncePerSession
CHECK_DEADLOCK FALSE
