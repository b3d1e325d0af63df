SPECIFICATION FairSpec
CONSTANTS
  Ours <- OneOfOurs
  Theirs <- TheirIds
  Tracks = {t1, t2}
  Streams = {1}
  MaxObjects = 1
  MaxSubscriptions = 2
  Timed = {0, 1}
  Draft22 = FALSE
  Aliases = {0}
  Alias <- SameForAll
  None = None
PROPERTIES
  LivesOnce EndedIsForgotten
CHECK_DEADLOCK FALSE
