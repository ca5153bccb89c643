SPECIFICATION Spec
CONSTANTS
    FrameBufferSize = 3
    SemInitial = {0, 1}
    TimedWait = FALSE
    Frame <- MCFrame
    Null = Null
    MaxFrames = 7
INVARIANT NoNullFrame
\* The program ends when it dereferences null, and the untimed wait may never end.
CHECK_DEADLOCK FALSE
