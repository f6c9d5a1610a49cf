SPECIFICATION FairSpec
CONSTANTS
  None = None
  MaxSize = 2
  Grace = 1
  MaxTime = 1
  MaxWrites = 2
  MaxPolls = 1
  Written = {"call", "ok", "error", "usage", "junk"}
  Limits <- SmallLimits
  Found <- SmallFiles
INVARIANTS
  CleanMeansWithin
PROPERTIES
  NeverForgets
  PollsSettle
CHECK_DEADLOCK FALSE
