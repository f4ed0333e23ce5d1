SPECIFICATION Spec
CONSTANTS
  Requests = {r1, r2}
  Refresher = refresher
  KeySets <- MCKeySets
  Cooldown = 2
  MaxTime = 4
  MaxRotations = 1
  Capacity = 1
  BatchSize = 2
  Worlds <- MCWorlds
INVARIANTS MissRefetchesSpaced DrainDelivers
PROPERTIES KnownKeysStay KeysConverge ShutdownEnds
CHECK_DEADLOCK FALSE
