CONSTANTS
  Keys = {"k1", "k2"}
  NumSubscriptions = 2
  MaxValues = 2
  MaxSubscriptions = 2
  SinkCalls = {"close", "dispose"}
SPECIFICATION FairSpec
INVARIANT MessagesArrive
INVARIANT InSync
INVARIANT NeverStalls
PROPERTY EveryoneHears
CHECK_DEADLOCK FALSE
