SPECIFICATION Spec
CONSTANTS
  Dirs = {"repo", "head", "base", "candidate"}
  MaxEdits = 1
  Codes = {"old", "new"}
  Policies = {"trusted", "lax"}
  Profiles <- MCProfiles
  Pinned = {"developer"}
  MaxCommits = 2
  MaxRuns = 2
  Changes <- MCChanges
  AuthorityPolicies <- MCAuthorityPolicies
CONSTRAINT Relevant
INVARIANTS
  PassedAsCommitted
  GatePassIsBacked
  RegressionShown
  NothingLeftRunning
  
CHECK_DEADLOCK FALSE
