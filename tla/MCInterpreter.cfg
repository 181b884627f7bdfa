SPECIFICATION Spec
CONSTANTS
  Programs <- SomePrograms
  Regions <- AllRegions
  MaxTrips = 2
  MaxSteps = 16
  MaxArguments = 1
INVARIANTS OwnChannel 
PROPERTIES RunEnds
