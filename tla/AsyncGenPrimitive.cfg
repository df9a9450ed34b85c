SPECIFICATION Spec
CONSTANTS
  MaxRequests = 2
  MaxAwaits = 1
  Kinds = {"next"}
  Usages = {"primitive"}
CHECK_DEADLOCK FALSE
INVARIANT AwaitIsNoAnswer
