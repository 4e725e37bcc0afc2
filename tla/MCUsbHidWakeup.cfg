SPECIFICATION ComponentSpec
CONSTANTS
    Layouts = {"azerty", "us"}
    Texts <- MCTexts
INVARIANT
    TypedFaithfully
PROPERTIES
    AwakeShownWasAwake
    ShownCatchesUp
CHECK_DEADLOCK FALSE
