SPECIFICATION Spec
CONSTANTS
  Host = {"a", "b"}
  Facts = {0, 1}
  Choice = {0, 1}
  Broken = Broken
  NoFacts = 0
  NoChoice = 0
  MaxFaults = 1
INVARIANTS CacheTrue
PROPERTIES SilentGoesOffline
