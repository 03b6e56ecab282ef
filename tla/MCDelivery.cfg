CONSTANTS
  Capacity = 3
  MaxPushed = 9
  Kinds = {"state", "event"}
  SinkCalls = {"ack", "preempt", "close"}
  MaxValues = 7
  MaxDepth = 3
SPECIFICATION DeliverySpec
INVARIANT IndicesAndSlots
INVARIANT TypeOK
INVARIANT OneUnackedBatch
INVARIANT Gapless
INVARIANT TerminalIsLast
INVARIANT ValuesKept
PROPERTY ImplementsFifo
PROPERTY ImplementsAckedStream
PROPERTY EverythingGoesOut
