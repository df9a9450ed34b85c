SPECIFICATION FairSpec
CONSTANTS
  MaxOps = 6
  Nested = TRUE
  ClearBy = {"id"}
  
PROPERTIES  LoopEnds
