SPECIFICATION Spec
CONSTANTS
    Address = {a1, a2}
    NoAddress = none
    StaleReads = FALSE
    ShootStates <- MCShootStates
CHECK_DEADLOCK FALSE
INVARIANTS
    IInv
    HandedOver
    DeletionNotBlocked
    CleanAfterSuccess
    ForcedLeavesNoShootMR
    DNSFirst
    TargetsAreAddresses
PROPERTIES
    KeepsPromise
    OnlyDeleteRemovesTraefik
    SilentAfterwards
