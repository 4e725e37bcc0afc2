SPECIFICATION FairSpec
PROPERTY
    ActiveHostShownOn
CHECK_DEADLOCK FALSE
