CONSTANTS
    p1 = p1
    p2 = p2
    p3 = p3
    Packets = {p1, p2, p3}
    NumCells = 3
    NumHashes = 2
    Hash <- MCHash
    NumBatches = 2
    BatchTime = 4
    TmDrops = FALSE
    MaxDelay = 1
    CounterMod = 256
    MaxMetered <- MCMaxMetered
SPECIFICATION Spec
INVARIANTS TypeOK BatchComplete MetersConserve ReportTrue DecodingMaximal
PROPERTY DecodingTerminates
