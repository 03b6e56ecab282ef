CONSTANTS
  NumCalls = 3
  NumIds = 2
  MaxConcurrentRpc = 2
  AuthorizeOptions = {TRUE, FALSE}
  DeadlineOptions = {TRUE, FALSE}
  ReentrantCalls = {"dispatch", "cancel", "retire"}
  MaxDepth = 2
SPECIFICATION FairSpec
INVARIANT SlotsBound
INVARIANT Cancellation
PROPERTY CancelledComesFirst
PROPERTY EveryoneIsAnswered
CHECK_DEADLOCK FALSE
