SPECIFICATION Spec
CONSTANTS
  MaxChunks = 2
  MaxReads = 3
  MaxWrites = 3
  MaxHwm = 1
INVARIANTS
  ChunksInOrder
  SinkSeesOneCallAtATime
  ReadyTellsBackpressure
  PipeDelivers
PROPERTY StreamsAnswer
CHECK_DEADLOCK FALSE
