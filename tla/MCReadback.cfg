SPECIFICATION Spec
CONSTANTS
    NPixels = 2
    NScalers = 9
    NbChans = 2
    NbBuffers = 2
    BufferOf <- MCBufferOf
    Correction = 3
    MaxFrames = 3
    MaxAcqs = 2
INVARIANTS
    ReadbackTypeOK
    KeptIsIntact
    AvailableIsAnnounced
    ReturnsWhatWasAsked
    ScalersAsCommented
