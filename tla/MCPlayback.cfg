SPECIFICATION PlaybackSpec
CONSTANTS
    Formats <- Listed
    VideoFiles <- GoodFiles
    MaxTimes = 25
    WindowsFiles <- AnyWindows
    LinuxFiles = {}
    Buffers <- Clean
    Behind <- Junk
    NbRecorders = 3
INVARIANTS
    WithinOneSample
    TablesAgree
    StopsAtHole
    OwnFiles
PROPERTIES
    PicturesInOrder
CHECK_DEADLOCK FALSE
