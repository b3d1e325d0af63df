SPECIFICATION FairSpec
CONSTANTS
  AutoMigrate = TRUE
  MaxAttempts = 2
  MaxConnects = 2
  MaxCalls = 1
  PromptSetup = TRUE
INVARIANTS
  TypeOK NeverAccusedAtFirst CallsAgree ConnectAnswered
PROPERTIES
  AttemptsEnd
CHECK_DEADLOCK FALSE
