CONSTANTS
  FirstFresh = 100
  Programs <- SameOperands
  MaxTrips = 3
  MaxCalls = 3
SPECIFICATION Spec
INVARIANT NoUseAfterFree
