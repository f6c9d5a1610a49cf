SPECIFICATION FairSpec
CONSTANTS
  Events = {d1}
  Reruns = {}
  Legacy = {}
  CheckIds = {c1, c2}
  NoCheck = NoCheck
  NoDelivery = NoDelivery
  Soon = 1
  DeliveryRetry = 2
  CheckTimeout = 7
  RedeliveryRetention = 10
  RedeliveryWindow = 10
  MaxDeliveryFailures = 3
  Crashable = {d1}
  MaxCrashes = 2
INVARIANTS
  RequestedOnce
  RedeliveryRemembered
  TerminalTruth
  WatchedWhileRunning
PROPERTIES
  NotCheckedOnlyLate
  NoSilentCheck
  KeepsPromise
CHECK_DEADLOCK FALSE
