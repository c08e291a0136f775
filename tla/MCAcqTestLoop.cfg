SPECIFICATION Spec
CONSTANTS
    Threads <- MCThreads
    TrigModes <- Internal
    FrameCounts = {1}
    ExtraGates = 0
    Policy = "running"
    MaxStarts = 1
    MaxStops = 0
    MaxFaults = 0
    SpuriousWakeups = FALSE
    CallbackMayRefuse = FALSE
    Resets = FALSE
    DeleteWithin <- Never
INVARIANTS
    NotRunningMeansFinished
