SPECIFICATION Spec
CONSTANTS
  r1 = r1
  a = a
  b = b
  c = c
  Runs = {r1}
  Jobs = {a, b, c}
  Owners = {o1}
  NoOwner = nobody
  RunOf <- JoinRun
  DependsOn <- JoinDeps
  GenericJobs = {a}
  MaxAttempts <- JoinTries
  AttemptLimit = 2
  MaxDeliveries = 1
  EventLimit = 0
  LeaseLosses = 0
  DeliveryLosses = 0
INVARIANTS
  OneLiveAttempt
  QuiescentRun
  OutcomesAreEarned
  KnownRunsAreCancelled
PROPERTIES
  ImplementsLifecycle
CHECK_DEADLOCK FALSE
