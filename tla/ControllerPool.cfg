SPECIFICATION FairSpec
CONSTANTS
    Replicas = {r1, r2}
    Extensions = {x1, x2}
    Stuck = {x1}
    Flags <- MCFlags
CHECK_DEADLOCK FALSE
INVARIANTS
    TypeOK
    OneWorkerPerExtension
    NothingForgotten
    HeartbeatMeansService
PROPERTIES
    OnlyCrashesForget
    KeepsToDispatch
    EveryoneServed
    ResyncGoesOn
