CONSTANTS
  FirstFresh = 100
  Programs <- Regular
  MaxTrips = 3
  MaxCalls = 3
SPECIFICATION Spec
INVARIANTS Verdict NoUseAfterFree FreesOnce BlocksBalance CallerKeeps
