SPECIFICATION Spec
CONSTANTS
    Flows = {"zero", "a", "b"}
    ZeroFlow = "zero"
    BufferSize = 3
    CacheSize = 2
    Hash <- MC_Hash
    EventCounter = 2
    NackLossy = TRUE
    MaxSeq = 6
    MaxChan = 5
INVARIANTS TypeOK OnlyRealLosses NoLossForgotten EventsConserveLosses
CHECK_DEADLOCK FALSE
