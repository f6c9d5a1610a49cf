SPECIFICATION Spec
CONSTANTS
  Trees <- MCTrees
  Configs <- MCConfigs
  Outcomes <- MCOutcomes
  Starts <- MCStarts
  MaxEdits = 2
  MaxChecks = 1
  Narrow = TRUE
INVARIANTS
  VerdictOfRecorded
  SafeIsUnanimous
  RowsWereIssued
CHECK_DEADLOCK FALSE
