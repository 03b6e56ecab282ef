CONSTANTS
  NumSessions = 1
  NumIds = 2
  MaxSubscriptions = 2
  AuthorizeOptions = {TRUE, FALSE}
  Reasons = {"detach", "replaced"}
  ReentrantCalls = {"subscribe", "unsubscribe", "retire", "emit", "end", "ack", "dispose"}
  MaxDepth = 2
  MaxMessages = 2
SPECIFICATION Spec
INVARIANT SlotsAndMaps
INVARIANT MessageProtocol
INVARIANT EveryoneIsTold
INVARIANT SourcesEnd
PROPERTY NoSourceForRetired
CHECK_DEADLOCK FALSE
