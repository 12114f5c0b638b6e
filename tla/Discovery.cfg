CONSTANTS
  i1 = i1
  i2 = i2
  Indexer = {i1, i2}
  Explicit = explicit
  NoOne = none
  Sub = s
  Query = {q}
  User = {s, q}
  Score <- Scores
  TTL = 1
  Registries <- Lists
  MaxAttempts = 2
  Capacity = 1
SPECIFICATION DiscoverySpec
INVARIANTS EndsJustified EvictionsDeserved
PROPERTIES FailsOver CancelEnds
CHECK_DEADLOCK FALSE
