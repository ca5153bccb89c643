SPECIFICATION PlaybackSpec
CONSTANTS
    Formats <- Listed
    VideoFiles <- GoodFiles
    MaxTimes = 25
    WindowsFiles = {}
    LinuxFiles <- Hole
    Buffers <- Dirty
    Behind <- Junk
    NbRecorders = 3
INVARIANTS
    StopsAtHole
CHECK_DEADLOCK FALSE
