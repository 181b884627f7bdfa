CONSTANTS
    b1 = b1
    b2 = b2
    b3 = b3
    b4 = b4
    Buffer <- MCBuffer
    Borrowed <- MCBorrowed
    Null = Null
    MaxOwned = 4
    MaxRetained = 3
SPECIFICATION Spec
INVARIANTS UniqueOwner NoLeak
PROPERTIES Lifecycle
