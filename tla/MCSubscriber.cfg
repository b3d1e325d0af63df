SPECIFICATION Spec
CONSTANTS
  Ours <- OurIds
  Theirs <- TheirIds
  Tracks = {t1}
  Streams = {1}
  MaxObjects = 1
  MaxSubscriptions = 2
  Timed = {0, 1}
  Draft22 = FALSE
  Aliases = {0, 1, 2}
  Alias <- PerRequest
  None = None
INVARIANTS
  TypeOK RouteTable NoEstablishedDrop NoOrphan
PROPERTIES
  StreamsStopped
CHECK_DEADLOCK FALSE
