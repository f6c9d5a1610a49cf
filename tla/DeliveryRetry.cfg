SPECIFICATION FairSpec
CONSTANTS
  Events = {d1}
  Reruns = {r1, r2}
  Legacy = {d1}
  CheckIds = {c1}
  NoCheck = NoCheck
  NoDelivery = NoDelivery
  Soon = 0
  DeliveryRetry = 1
  CheckTimeout = 1
  RedeliveryRetention = 1
  RedeliveryWindow = 1
  MaxDeliveryFailures = 1
  Crashable = {r1}
  MaxCrashes = 1
INVARIANTS
  OneRetryPerCheck
  RetryOnlyCompleted
PROPERTIES
  KeepsPromise
CHECK_DEADLOCK FALSE
