SPECIFICATION FairSpec
CONSTANTS
  Groups = {1, 2, 3}
  LastOf <- MCLastOf
  MaxGroups = 2
  Grace = 2
INVARIANTS
  TypeOK DecoderFollows
PROPERTIES
  InOrder Progress
CHECK_DEADLOCK FALSE
