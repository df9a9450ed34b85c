SPECIFICATION Spec
CONSTANTS
  MaxPromises = 3
  MaxPairs = 2
  MaxOps = 4
  Vals = {v1, v2}
  Thenable = thenable
  Broken = broken
  Reason = reason
CHECK_DEADLOCK FALSE
INVARIANT UnattachedIsReported
