SPECIFICATION Spec
CONSTANTS
  Deliveries = {d1}
  Authorizations = {a1}
  NoAuthorization = NoAuthorization
  MaxValidity = 1
  AuthorizationRetention = 2
  RedeliveryRetention = 3
  RedeliveryWindow = 3
  LastStart = 1
  MaxTime = 10
PROPERTIES
  CalledOnce
CHECK_DEADLOCK FALSE
