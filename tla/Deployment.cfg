SPECIFICATION FairSpec
CONSTANTS
  Deliveries = {d1, d2}
  Authorizations = {a1, a2}
  NoAuthorization = NoAuthorization
  MaxValidity = 1
  AuthorizationRetention = 1
  RedeliveryRetention = 2
  RedeliveryWindow = 2
  LastStart = 1
  MaxTime = 5
PROPERTIES
  CleanedUp
  KeptCalledOnce
  AuthorizationKept
CHECK_DEADLOCK FALSE
