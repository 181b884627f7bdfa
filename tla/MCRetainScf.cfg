CONSTANTS
    b1 = b1
    b2 = b2
    b3 = b3
    b4 = b4
    Buffer <- MCBuffer
    Borrowed <- MCBorrowed
    Base <- MCBase
    Null = Null
    MaxOwned = 3
    MaxRetained = 3
SPECIFICATION Spec
INVARIANTS HeldOnce
PROPERTIES ImplementsOwnership
