SPECIFICATION FairSpec
CONSTANTS
    Handles = {h1, h2}
    NULL = NULL
INVARIANTS
    TypeOK
    OneClient
    GateTruthful
    TeardownHitsDeadClient
    DeadClientScheduled
    WaitsForLeavingTask
PROPERTIES
    Recovers
    DeadClientFreed
    ImplementsChannel
