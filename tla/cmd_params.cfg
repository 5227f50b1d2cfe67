SPECIFICATION Spec
CONSTANTS
    NULL = NULL
    MaxHandlers = 4
    Builtins <- MCBuiltins
    AppNames = {"relay", "DEVICE_STATUS"}
    AppHandlers = {"application"}
    Messages <- MCMessages
    Pins = {4, 5}
    ManagedPins = {4}
    GpioActs <- MCGpioActs
INVARIANTS
    ParamsFound
CHECK_DEADLOCK FALSE
