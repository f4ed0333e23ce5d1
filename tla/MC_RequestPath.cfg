SPECIFICATION Spec
CONSTANTS
  Requests = {r1, r2}
  Worlds <- MCWorlds
  Malformed = {"bad"}
  HopByHop <- MCHopByHop
  Methods <- MCMethods
  MaxRetries = 2
  MaxPluginTimeout = 2
  PluginMemory <- MCPluginMemory
  JwtLeeway = 1
  DefaultMaxBody = 1
  EmptyText = EmptyText
INVARIANTS AuthMatchesSpec RevokedNeverServed ServedIsMetered CacheSound CorsReadable HeadersClean
CHECK_DEADLOCK FALSE
