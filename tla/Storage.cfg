SPECIFICATION Spec
CONSTANTS
  MaxResets = 1
  MaxTasks = 1
  LoginRetryMax = 1
  WriteRetries = 1
  ProbeBudget = 2
INVARIANTS TypeOK AnsweredOnce CommandsWithinLogin StopDrains
PROPERTIES NoSilentRelogin
CHECK_DEADLOCK FALSE
