SPECIFICATION Spec
CONSTANTS
    Flows = {"zero", "a", "b"}
    ZeroFlow = "zero"
    BufferSize = 3
    CacheSize = 2
    Hash <- MC_Hash
    EventCounter = 2
    NackLossy = FALSE
    MaxSeq = 5
    MaxChan = 4
INVARIANT FlowNotOverblamed
CHECK_DEADLOCK FALSE
