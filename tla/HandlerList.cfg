\* The counter has its 16 bits and never wraps on five reactions.
SPECIFICATION Spec
CONSTANTS
  MaxHandlers = 5
  Awaits = {2, 3, 5}
  CountMod = 65536
INVARIANTS SettledIsScheduled WaitingIsReachable
PROPERTY RunsLikeAQueue
CHECK_DEADLOCK FALSE
