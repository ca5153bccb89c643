SPECIFICATION ChannelSpec
CONSTANTS
    QueueLimit = 1
    FrameBufferSize = 1
    Surroundings <- Ample
    SemInitial = {0}
    TimedWait = TRUE
    FileOpens = {TRUE}
    NDIStarts = {TRUE}
    Null = Null
    MaxBuilds = 4
PROPERTY ExitReached
