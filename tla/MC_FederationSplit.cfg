SPECIFICATION Spec
CONSTANTS
  Requests = {r1}
  SupergraphOutcomes <- FederatedOutcomes
  Apis <- MCSplit
  MaxChanges = 0
  Malformed = {"bad"}
  HopByHop <- MCHopByHop
  Methods <- MCMethods
  MaxRetries = 2
  MaxPluginTimeout = 2
  PluginMemory <- MCPluginMemory
INVARIANT SpecCorrectAnswers
CHECK_DEADLOCK FALSE
