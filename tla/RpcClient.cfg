CONSTANTS
  NumCalls = 3
  NumSignals = 1
  OutsideCalls = {"call", "abort", "dispose"}
  MaxDepth = 2
SPECIFICATION ClientFairSpec
INVARIANT SettledOnce
PROPERTY EveryCallEnds
CHECK_DEADLOCK FALSE
