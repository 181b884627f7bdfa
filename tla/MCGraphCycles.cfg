CONSTANTS
    NumNodes = 4
    None = None
SPECIFICATION FairSpec
INVARIANTS Ranked MarksCleared IInv MergeNeverRefused NeverCyclic PostOrderRespectsPaths
PROPERTIES ImplementsDag CallsReturn
