SPECIFICATION Spec
CONSTANTS
    Threads <- MCThreads
    TrigModes <- BothModes
    FrameCounts = {1, 2, 3}
    ExtraGates = 1
    Policy = "any"
    MaxStarts = 1
    MaxStops = 1
    MaxFaults = 1
    SpuriousWakeups = TRUE
    CallbackMayRefuse = TRUE
    Resets = TRUE
    DeleteWithin <- Never
INVARIANTS
    TypeOK
    DeliveredInOrder
    ReadBehindAcquired
    CountMatchesDelivered
    CountingHoldsMutex
    ExternalFramesWhole
    DeliveryInv
PROPERTIES
    StopIsBounded
