SPECIFICATION Spec
CONSTANTS
  Unused = Unused
  MaxRuns = 3
  MaxCrashes = 2
  Module = {m1, m2, m3}
  MaxImports = 2
  Signal = {s1, s2, s3}
  Callback = {f, g}
  MaxListeners = 2
  MaxRemovals = 1
SYMMETRY Symmetry
INVARIANTS
  CacheEntryIsWhole
  
  LoadingIsActive
  
  ImportNeverBlocks
  DependentFollows
  HeardExactlyOnce
CHECK_DEADLOCK FALSE
