SPECIFICATION Spec
CONSTANTS
  MaxPosition = 7
  MaxIntervals = 3
  Programs <- SomePrograms
INVARIANTS IntersectExact MergeCovers InterfereSound RangeCovers
