CONSTANTS
  Kinds = {"state"}
  NumConsumers = 2
  MaxValues = 2
  SourceCalls = {}
  SinkCalls = {"emit"}
  EndingCalls = {}
  ClosingCalls = {}
  MaxDepth = 2
SPECIFICATION Spec
INVARIANT LastValueReaches
CHECK_DEADLOCK FALSE
