SPECIFICATION Spec
CONSTANTS
  Coro = {c1, c2, c3}
  Promise = {p1, p2}
  None = None
  GenAwaits = {"promise"}
  MaxOps = 7
INVARIANTS
  RefcountExact
  ActiveIsStack
  AwaitIsAnswered
  GeneratorOutlivesBody
CHECK_DEADLOCK FALSE
