SPECIFICATION Spec
CONSTANT
    Rollback = FALSE
PROPERTY
    RollsBack
