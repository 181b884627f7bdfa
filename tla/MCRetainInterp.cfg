CONSTANTS
    b1 = b1
    b2 = b2
    b3 = b3
    Buffer <- MCBuffer
    Borrowed <- MCBorrowed
    Null = Null
    MaxOwned = 3
    MaxRetained = 3
SPECIFICATION Spec
INVARIANTS IInv NeverFails StatsExact
PROPERTIES ImplementsOwnership
