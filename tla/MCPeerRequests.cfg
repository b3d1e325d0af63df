SPECIFICATION Spec
CONSTANTS
  r1 = r1
  r2 = r2
  t1 = t1
  a = a
  ab = ab
  c = c
  Requests <- TwoRequests
  Tracks = {t1}
  Prefixes = {a, ab, c}
  Jobs <- JobsOfAll
  Overlap <- OverlapsOfAll
  MaxTracks = 1
  MaxUpdates = 1
  Draft22 = TRUE
  None = None
INVARIANTS
  TypeOK AnswersInOrder TablesAgree OverlapOnlyWhenRaced
SYMMETRY
  Symmetry
CHECK_DEADLOCK FALSE
