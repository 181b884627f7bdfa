CONSTANTS
  FirstFresh = 100
  NumElements <- Elements
  MaxStack = 4
  Programs <- SomePrograms
  MaxChoices = 4
SPECIFICATION Spec
INVARIANTS ReadsPreserved NoFaults NothingLeaks
PROPERTIES Terminates
