SPECIFICATION FairSpec
CONSTANTS
    NbCards = 2
    NbChans = 2
    ChansPerCard = 1
    MaxFrames = 2
    Generation = 3
    HasSettings = TRUE
    SavedCont <- MCSavedCont
    NbFrames <- MCNbFrames
    ChanArgs <- MCChanArgs
    RunModes <- MCRunModes
    DataSources <- MCDataSources
    FormatArgs <- MCFormatArgs
    Scalings <- MCScalings
    ClockArgs <- MCClockArgs
    MaxCalls = 3
    MaxFaults = 1
CHECK_DEADLOCK FALSE
INVARIANTS
    ControlTypeOK
    OwnCounts
    CardsTogether
    StopReaches
    ReportedAsSet
    FormatAsAsked
    PlaybackPlays
    InitialisedWhole
PROPERTIES
    ReadModifyWriteKeeps
    StopReturns
