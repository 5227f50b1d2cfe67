SPECIFICATION Spec
CONSTANTS
    MaxSources = 1
    MaxKeys = 1
    MaxRefused = 1
INVARIANTS
    AuthFrameNamesDevice
CHECK_DEADLOCK FALSE
