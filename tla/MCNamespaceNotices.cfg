SPECIFICATION FairSpec
CONSTANTS
  c1 = c1
  c2 = c2
  Fields = {"a", "b", "c"}
  Requests = {r1, r2}
  Calls = {c1, c2}
  Job <- AnnounceOnce
  Namespaces <- OneNamespace
  Prefixes <- ThreePrefixes
  MaxPrefixUpdates = 1
  NoCall = NoCall
INVARIANTS
  TypeOK ViewAgrees NoticesMakeSense
PROPERTIES
  EventuallyTold
CHECK_DEADLOCK FALSE
