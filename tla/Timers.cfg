SPECIFICATION FairSpec
CONSTANTS
  Timer = {t1, t2}
  None = None
  MaxOps = 7
INVARIANT CountsExact
PROPERTIES ClearedNeverFires 
CHECK_DEADLOCK FALSE
