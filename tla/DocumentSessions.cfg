CONSTANTS
  Contents = {1}
  NumDocuments = 2
  ClientsPerDocument = 2
  MaxRetired = 2
  MaxAttachments = 3
  MaxSessions = 5
  SinkCalls = {"attach", "detach", "dispose"}
  ListenerCalls = {"attach", "detach", "establish", "dispose"}
  MaxDepth = 6
SPECIFICATION Spec
INVARIANT AttachmentsConsistent
INVARIANT OwnDocument
INVARIANT RetiredStaysRetired
CHECK_DEADLOCK FALSE
