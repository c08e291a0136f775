SPECIFICATION FairSpec
CONSTANTS
    Threads <- MCThreads
    TrigModes <- BothModes
    FrameCounts = {1, 2}
    ExtraGates = 1
    Policy = "any"
    MaxStarts = 1
    MaxStops = 1
    MaxFaults = 0
    SpuriousWakeups = FALSE
    CallbackMayRefuse = TRUE
    Resets = TRUE
    DeleteWithin = 0
PROPERTIES
    CallsReturn
    AbortHonoured
    DeleteReturns
    LateStopHonoured
    PromiseKept
