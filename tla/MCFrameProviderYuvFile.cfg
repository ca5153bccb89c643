SPECIFICATION Spec
CONSTANTS
    QueueLimit = 2
    Null = Null
    MaxBuilds = 5
INVARIANTS
    IInv
    NoReadAfterClose
    QuietWhenClosed
PROPERTIES
    ImplementsPipe
    NumbersGrow
    CloseReturns
