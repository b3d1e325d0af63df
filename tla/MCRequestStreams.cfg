SPECIFICATION FairSpec
CONSTANTS
  Requests = {r1}
  KindsUsed <- AllKinds
  Suffixes = {s1, s2}
  MaxUpdates = 4
  MaxInbox = 2
  MaxRequestUpdates = 2
  SharedSession = TRUE
INVARIANTS
  TypeOK NoFalseViolation UpdateQueueSound UpdatesAgree NamespacesAgree
PROPERTIES
  SettledOnce UpdateSettles
CHECK_DEADLOCK FALSE
