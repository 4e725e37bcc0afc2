SPECIFICATION FairSpec
CONSTANT
    Rollback = FALSE
INVARIANTS
    TypeOK
    LastRunBootable
PROPERTIES
    AckedRuns
    ComesBack
