SPECIFICATION FairSpec
CONSTANTS
    QueueLen = 2
    Blinks = 2
    Tasks = {http}
    http = http
    TimerQueueLen = 2
INVARIANTS
    TypeOK
    NoLostRequest
    LedSettles
PROPERTIES
    RequestsAnswered
    BootSettles
