CONSTANTS
  n1 = n1
  n2 = n2
  w1 = w1
  Namespaces = {n1, n2}
  Contents = {w1}
  NumDocuments = 2
  NumServers = 2
  InnerCalls = {"bind", "attach", "detach", "dispose", "server.dispose"}
  MaxBindings = 2
  MaxAttachments = 2
  MaxRequests = 2
  MaxDepth = 3
SYMMETRY Symmetry
SPECIFICATION Spec
INVARIANT ChannelsBound
INVARIANT AnsweredOnce
INVARIANT WorkIsHeld
CHECK_DEADLOCK FALSE
