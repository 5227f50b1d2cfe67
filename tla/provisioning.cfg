SPECIFICATION FairSpec
CONSTANTS
    MaxSources = 2
    MaxKeys = 2
    MaxRefused = 1
INVARIANTS
    TypeOK
    RestartChangesNothing

    
    
CHECK_DEADLOCK FALSE
