CONSTANTS
  Kinds = {"state", "event"}
  NumListeners = 1
  MaxSubscribers = 3
  MaxJoins = 2
  MaxBatches = 1
  BatchSize = 2
  InnerCalls = {"subscribe", "leave", "listen", "unlisten", "deliver", "dispose"}
  Entrances = {}
  MaxDepth = 2
SPECIFICATION Spec
INVARIANT GenerationsAgree
INVARIANT BatchesAcknowledged
INVARIANT StoreAgrees
CHECK_DEADLOCK FALSE
