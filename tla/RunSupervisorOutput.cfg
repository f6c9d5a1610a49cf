SPECIFICATION FairSpec
CONSTANTS
  MaxChunks = 1
  MaxDescendants = 0
  Refusable = FALSE
INVARIANTS
  ExitedWhole
  FailureShown
PROPERTIES
  EndsWithReceipt
CHECK_DEADLOCK FALSE
