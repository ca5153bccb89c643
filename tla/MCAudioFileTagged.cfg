SPECIFICATION FileSpec
CONSTANTS
    Files <- TaggedFiles
    SampleCounts = {1, 2, 3, 4}
    Counts = {1, 2, 3, 4}
    InitSamples = 2
    InitChannels = 3
    NbChannel = 3
    MaxSamples = 3
    BitsPerSample = {16, 24, 32}
    NumChannels = {1, 2, 3}
    MaxFrames = 3
    Mute = Mute
    Garbage = Garbage
INVARIANT
    HeardIsData
CHECK_DEADLOCK FALSE
