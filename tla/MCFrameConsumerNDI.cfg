SPECIFICATION Spec
CONSTANTS
    FrameBufferSize = 3
    SemInitial = {0}
    TimedWait = TRUE
    Frame <- MCFrame
    Null = Null
    MaxFrames = 7
INVARIANTS
    IInv
    NoNullFrame
    StopsBetweenPairs
PROPERTIES
    ImplementsPipe
    QuietAfterStop
    StopReturns
