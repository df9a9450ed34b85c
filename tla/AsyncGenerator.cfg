SPECIFICATION FairSpec
CONSTANTS
  MaxRequests = 4
  MaxAwaits = 3
  Kinds = {"next", "throw", "return"}
  Usages = {"overlap", "for await", "any"}
CHECK_DEADLOCK FALSE
INVARIANT AnswersInOrder
PROPERTY EveryCallAnswered
