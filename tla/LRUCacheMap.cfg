SPECIFICATION CacheSpec
CONSTANTS
  HighBits = 3
  Hashes <- Colliding
  Offsets = {1, 2, 3, 4}
  CacheEntries <- TwoForOne
  Capacities = {0, 1, 3}
INVARIANT IteratorsValid
PROPERTY ImplementsCache
VIEW View
