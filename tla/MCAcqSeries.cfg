SPECIFICATION Spec
CONSTANTS
    Threads <- MCThreads
    TrigModes <- BothModes
    FrameCounts = {1, 2, 3}
    ExtraGates = 1
    Policy = "finish"
    MaxStarts = 3
    MaxStops = 1
    MaxFaults = 1
    SpuriousWakeups = FALSE
    CallbackMayRefuse = TRUE
    Resets = TRUE
    DeleteWithin <- Never
INVARIANTS
    SeriesInv
    DeliveredInOrder
    ReadBehindAcquired
    CountMatchesDelivered
    IdleMeansAllRead
    IdleMeansStopped
    ExternalFramesWhole
PROPERTIES
    PromiseKept
