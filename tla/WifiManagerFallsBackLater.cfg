SPECIFICATION FairSpec
CONSTANTS
    MaxAttempts = 3
    EventBound = 3
PROPERTY
    FallsBackLater
