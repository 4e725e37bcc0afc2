SPECIFICATION FairSpec
CONSTANTS
    MaxAttempts = 3
    EventBound = 3
INVARIANTS
    TypeOK
    LedTells
    NeverStranded
PROPERTIES
    BootSpec
    BootEnds
    Reconnects
