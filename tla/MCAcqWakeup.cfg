SPECIFICATION FairSpec
CONSTANTS
    Threads <- MCThreads
    TrigModes <- Internal
    FrameCounts = {1}
    ExtraGates = 0
    Policy = "any"
    MaxStarts = 1
    MaxStops = 0
    MaxFaults = 0
    SpuriousWakeups = FALSE
    CallbackMayRefuse = FALSE
    Resets = FALSE
    DeleteWithin <- Never
PROPERTIES
    AllReadGoesIdle
