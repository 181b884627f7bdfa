CONSTANTS
  Sizes <- MCSizes
  Elements <- MCElements
  ProgramsToAnalyze <- SomePrograms
  ClientsOf <- PatternClients
  RequestsOf <- RequestsBy
SPECIFICATION Spec
INVARIANTS LookupsSucceed ExprsHold RewritesHold
