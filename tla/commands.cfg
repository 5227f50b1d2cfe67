SPECIFICATION FairSpec
CONSTANTS
    NULL = NULL
    MaxHandlers = 4
    Builtins <- MCBuiltins
    AppNames = {"relay", "DEVICE_STATUS"}
    AppHandlers = {"application"}
    Messages <- MCMessages
    Pins = {4, 5}
    ManagedPins = {4}
    GpioActs <- MCGpioActs
INVARIANTS
    TypeOK
    BuiltinsRouted
    CrashNeedsRegistration
    PinKeepsCommand
PROPERTIES
    ImplementsDispatcher
    RoutesStable
    StatusAnswered
