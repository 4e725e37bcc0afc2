SPECIFICATION Spec
CONSTANTS
    Command <- OneKey
    Wrap = 20
    MaxAge = 9
    KeyHold = 1
    InterKey = 1
    TypeStart = 1
    RunRelease = 1
    RunDelay = 2
    EnterDelay = 1
    EnterEnd = 2
    AcpiDelay = 1
    SysRelease = 1
INVARIANT
    SysReleasedWhenIdle

