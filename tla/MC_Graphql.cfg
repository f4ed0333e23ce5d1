SPECIFICATION Spec
CONSTANTS
  Requests = {r1, r2}
  SupergraphOutcomes <- FederatedOutcomes
  Apis <- MCApis
  MaxChanges = 2
  Malformed = {"bad"}
  HopByHop <- MCHopByHop
  Methods <- MCMethods
  MaxRetries = 2
  MaxPluginTimeout = 2
  PluginMemory <- MCPluginMemory
INVARIANTS OnlyPermittedRuns GraphqlHitSound PersistedStayValid GatewayAnswersWhole
PROPERTY SchemaFollows
CHECK_DEADLOCK FALSE
