SPECIFICATION FairSpec
CONSTANTS
    Replicas = {r1, r2}
    Specs <- MCSpecs
CHECK_DEADLOCK FALSE
INVARIANTS
    TypeOK
    OnlyLegacyOffends
PROPERTIES
    DeletionCompletes
