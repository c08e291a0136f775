SPECIFICATION Spec
CONSTANTS
    NbCards = 2
    UintMax = 15
    NbFrames <- MCNbFrames
    ExpTimes <- MCExpTimes
    TimeSrcs <- MCTimeSrcs
    AltTtlModes <- MCAltTtlModes
    Debounces <- MCDebounces
    TriggerModes <- MCTriggerModes
    GapModes <- MCGapModes
    HasSettings = TRUE
INVARIANTS
    SetupTypeOK
    ConfiguredAsReported
    AllCardsSelected
PROPERTIES
    ProgrammedTimeIsReported
