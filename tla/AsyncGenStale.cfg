SPECIFICATION Spec
CONSTANTS
  MaxRequests = 3
  MaxAwaits = 2
  Kinds = {"next"}
  Usages = {"mixed"}
CHECK_DEADLOCK FALSE
INVARIANT AnswersInOrder
