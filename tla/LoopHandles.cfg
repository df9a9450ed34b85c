SPECIFICATION Spec
CONSTANTS
  Unused = Unused
  Thread = {t1, t2}
  MaxQueue = 2
  MaxCalls = 4
  MaxOps = 3
  Incoming = {c1, c2, c3}
  Waiter = {e1, e2, e3}
  Address = {x, y}
  None = None
  MaxNotify = 3
  Conn = {k1, k2}
  ClientConn = {k1}
  MaxConnections = 1
  MaxListens = 2
INVARIANTS
  NoOperationLost
  AnsweredOnceThenFreed
  NotifyCountExact
  FreedAfterHandles
  FreedWhenQuiet
  ServerClosesLast
  CloseTellsError
PROPERTIES
  
  HandlesAnswer
CHECK_DEADLOCK FALSE
