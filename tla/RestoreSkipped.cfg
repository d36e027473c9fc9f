SPECIFICATION FaultlessSpec
CONSTANTS
    Address = {a1}
    NoAddress = none
    StaleReads = FALSE
    ShootStates <- MCHibernating
CHECK_DEADLOCK FALSE
INVARIANTS
    TraefikGoneWhenDeleted
