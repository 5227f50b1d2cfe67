SPECIFICATION FairSpec
CONSTANTS
    MaxUpdates = 2
INVARIANTS
    TypeOK
    NoLinkDuringDownload
    FallbackImage
    NeverClaimsNewer
    SuccessIsFinal
PROPERTIES
    UpdateReported
    BackOnline
    ImplementsSafeUpdate
CHECK_DEADLOCK FALSE
