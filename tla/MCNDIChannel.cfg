SPECIFICATION ChannelSpec
CONSTANTS
    QueueLimit = 2
    FrameBufferSize = 1
    Surroundings <- AmpleOrScarce
    SemInitial = {0}
    TimedWait = TRUE
    FileOpens = {TRUE, FALSE}
    NDIStarts = {TRUE, FALSE}
    Null = Null
    MaxBuilds = 6
INVARIANTS
    PoolSuffices
    NoUseAfterDelete
PROPERTIES
    ChannelImplementsPipe
    ExitUnlessListFull
