SPECIFICATION Spec
CONSTANTS
    NbCards = 2
    NbChans = 2
    ChansPerCard = 1
    MaxFrames = 2
    Generation = 3
    HasSettings = TRUE
    SavedCont <- MCSavedCont
    NbFrames <- MCNbFrames
    ChanArgs <- MCChanArgs
    RunModes <- MCRunModes
    DataSources <- MCDataSources
    FormatArgs <- MCFormatArgs
    Scalings <- MCScalings
    ClockArgs <- MCClockArgs
    MaxCalls = 2
    MaxFaults = 0
CHECK_DEADLOCK FALSE
INVARIANTS
    StopFlushes
