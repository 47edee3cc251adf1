SPECIFICATION FairSpec
CONSTANTS
    Kind = "dedicated"
    Lossy = {"START", "STOP", "CACK", "DATA", "SACK", "COUNTER"}
    SeqMod = 2
    Word = 64
    CostType = "RELATIVE"
    MinCost <- MC_AnyLoss
    Maxima = {0}
    HistDepth = 1
    MaxSeq = 3
    MaxPkts = 2
    MaxChan = 4
INVARIANTS TypeOK SessionsAgree NoUnderflow EventsBounded
PROPERTIES ResetOnlyForNewSession SessionsComplete
CHECK_DEADLOCK FALSE
