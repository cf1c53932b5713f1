\* A sender of each kind, a channel of one, two connections.
CONSTANTS
  metrics = metrics
  terminal = terminal
  Bound = {metrics}
  Unbound = {terminal}
  QueueSize = 1
  MaxMessages = 2
  MaxConnections = 2
SPECIFICATION FairSpec
\* Every event has been sent and the last connection lasts.
CHECK_DEADLOCK FALSE
INVARIANTS
  DepthExact
  InOrder
PROPERTIES
  SendsEnd
