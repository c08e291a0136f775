SPECIFICATION Spec
CONSTANTS
    Threads <- MCThreads
    TrigModes <- Internal
    FrameCounts = {2}
    ExtraGates = 0
    Policy = "control"
    MaxStarts = 2
    MaxStops = 1
    MaxFaults = 0
    SpuriousWakeups = FALSE
    CallbackMayRefuse = FALSE
    Resets = FALSE
    DeleteWithin <- Never
INVARIANTS
    CountMatchesDelivered
