SPECIFICATION Spec
CONSTANTS
    Kind = "dedicated"
    Lossy = {"START", "STOP", "DATA", "SACK", "COUNTER"}
    SeqMod = 16
    Word = 64
    CostType = "RELATIVE"
    MinCost <- MC_HalfLost
    Maxima = {0}
    HistDepth = 1
    MaxSeq = 3
    MaxPkts = 3
    MaxChan = 6
INVARIANTS CountersExact NoFalseAlarm CounterNotSentYet
PROPERTY ImplementsMeter
CHECK_DEADLOCK FALSE
