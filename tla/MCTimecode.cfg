SPECIFICATION Spec
CONSTANTS
    Rates <- KnownRates
    Hours = {0, 1, 23}
    Minutes = {0, 1, 2, 9, 10, 11, 59}
    Seconds = {0, 1, 30, 59}
    MaxFrames = 4
INVARIANTS
    IncreaseCounts
    FromFrameInverse
    DecreaseCounts
    CompareOrders
CHECK_DEADLOCK FALSE
