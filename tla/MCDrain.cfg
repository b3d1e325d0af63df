SPECIFICATION Spec
CONSTANTS
  Ours <- OneOfOurs
  Theirs <- TheirIds
  Tracks = {t1}
  Streams = {1}
  MaxObjects = 1
  MaxSubscriptions = 2
  Timed = {0, 1}
  Draft22 = FALSE
  Aliases = {0, 1}
  Alias <- PerRequest
  None = None
PROPERTIES
  DrainKept
CHECK_DEADLOCK FALSE
