SPECIFICATION Spec
CONSTANTS
  Requests = {r1, r2}
  SupergraphOutcomes <- FederatedOutcomes
  Apis <- MCJoined
  MaxChanges = 0
  Malformed = {"bad"}
  HopByHop <- MCHopByHop
  Methods <- MCMethods
  MaxRetries = 2
  MaxPluginTimeout = 2
  PluginMemory <- MCPluginMemory
INVARIANT VerbatimNeverLeaks
CHECK_DEADLOCK FALSE
