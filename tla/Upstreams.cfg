CONSTANTS
  Kinds = {"state", "broadcast", "scoped"}
  NumConsumers = 3
  MaxValues = 3
  SourceCalls = {"connect", "close", "emit", "end"}
  SinkCalls = {"connect", "close", "emit", "end"}
  EndingCalls = {"close", "emit", "end"}
  ClosingCalls = {"connect", "close", "emit"}
  MaxDepth = 3
SPECIFICATION Spec
INVARIANT OneUpstream
INVARIANT ConsumersServed
INVARIANT UpstreamsReleased
CHECK_DEADLOCK FALSE
