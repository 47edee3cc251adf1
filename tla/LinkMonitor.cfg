SPECIFICATION Spec
CONSTANTS
    CheckPortStateMs = 5
    TicksPerMs = 1
    LinkDelay = 3
    StartDelay = 13
INVARIANTS TypeOK NoFalseLinkFailure DetectedInTime RestoredInTime
