SPECIFICATION Spec
CONSTANTS
    p1 = p1
    p2 = p2
    Threads = {t1, t2}
    Paths = {p1, p2}
    NoPath = NoPath
    None = None
    Calls <- MCCalls
    QueueLimit = 1
    Stuck = {p2}
    MaxLines = 3
INVARIANTS
    IInv
    OneAppender
PROPERTIES
    ImplementsLogBook
    WriteReturns
CHECK_DEADLOCK FALSE
