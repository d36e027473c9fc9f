SPECIFICATION Spec
CONSTANTS
    Address = {a1}
    NoAddress = none
    StaleReads = FALSE
    ShootStates <- MCUsableOnly
CHECK_DEADLOCK FALSE
INVARIANTS
    EntryGoneWhenDeleted
