SPECIFICATION FairSpec
CONSTANTS
    RenewIntervals <- MCRenewIntervals
    Backoff = 2
    MaxFailures = 3
    MaxAge = 20
CHECK_DEADLOCK FALSE
INVARIANTS
    LeaseFresh
    Scheduled
PROPERTIES
    BeatsForEver
