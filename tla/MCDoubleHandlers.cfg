SPECIFICATION Spec
CONSTANTS
  AutoMigrate = TRUE
  MaxAttempts = 2
  MaxConnects = 2
  MaxCalls = 0
  PromptSetup = TRUE
INVARIANTS
  NeverAccused
CHECK_DEADLOCK FALSE
