SPECIFICATION Spec
CONSTANTS
  MaxPromises = 3
  MaxPairs = 2
  MaxOps = 5
  Vals = {v1}
  Thenable = thenable
  Broken = broken
  Reason = reason
INVARIANTS
  OutcomeIsAdopted
  RejectionsAccounted
PROPERTY AdoptionCompletes
CHECK_DEADLOCK FALSE
