CONSTANTS
  Keys = {"k1", "k2"}
  NumSubscriptions = 2
  MaxValues = 1
  MaxSubscriptions = 2
  SinkCalls = {"open"}
SPECIFICATION Spec
INVARIANT ArrivesInOrder
CHECK_DEADLOCK FALSE
