SPECIFICATION Spec
CONSTANTS
    Frame = {f1, f2, f3}
    Thread = {reader, sender, ndi}
    Null = Null
INVARIANTS
    IInv
    BuffersAllocated
PROPERTIES
    ImplementsLoan
    NoLeak
