SPECIFICATION QueueSpec
CONSTANTS
  MergeGroups = {d1}
  MaxAttempts = 3
  MaxCrashes = 1
INVARIANTS
  PendingIsHeld
  RetryOnlyAfterError
  MergedWasVerified
CHECK_DEADLOCK FALSE
