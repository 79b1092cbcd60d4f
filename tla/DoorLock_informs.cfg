SPECIFICATION Spec
CONSTANTS
  a = a
  b = b
  NoNode = NoNode
  Nodes <- MCNodes
  Lifeline <- MCLifeline
  Callbacks <- LockCallbacks
  Reports <- LockReports
  Triggers = 2
  QueueSize = 2
  CcQueueSize = 2
  MaxCommands = 3
PROPERTIES InformsLifeline
CHECK_DEADLOCK FALSE
