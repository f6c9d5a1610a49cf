SPECIFICATION Spec
CONSTANTS
  MaxChunks = 0
  MaxDescendants = 2
  Refusable = TRUE
INVARIANTS
  ExitedVerified
  ContainedMeansGone
PROPERTIES
  NotRelabelled
CHECK_DEADLOCK FALSE
