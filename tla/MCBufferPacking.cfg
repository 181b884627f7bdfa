CONSTANTS
  Allocs = {1, 2, 3}
  DefinedAt <- Defined
  UseRanges <- AscendingRanges
  MaxSegments = 3
  WindowSizes = {0, 1, 5}
SPECIFICATION Spec
INVARIANTS NoClobber GapsAreFree PackedOnce
