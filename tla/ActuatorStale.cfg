SPECIFICATION Spec
CONSTANTS
    Address = {a1}
    NoAddress = none
    StaleReads = TRUE
    ShootStates <- MCUsableOnly
CHECK_DEADLOCK FALSE
INVARIANTS
    AnyReadInv
    ReleasedAfterSuccess
