SPECIFICATION FairSpec
CONSTANTS
    Address = {a1, a2}
    NoAddress = none
    StaleReads = FALSE
    ShootStates <- MCUsableOnly
CHECK_DEADLOCK FALSE
PROPERTIES
    DeletionCompletes
    MigrationCompletes
    EntryWithdrawn
    DNSConverges
    NeverUnsettled
