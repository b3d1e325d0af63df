SPECIFICATION Spec
CONSTANTS
  GroupOf <- ThreeGroups
  Serialized = TRUE
  MaxStreams = 3
  MaxOpenStreams = 2
  EndGroup = 2
  MaxPauses = 1
INVARIANTS
  TypeOK DeltasDecode OneStreamPerSubgroup FirstObjectOnce DoneIsFinal
CHECK_DEADLOCK FALSE
