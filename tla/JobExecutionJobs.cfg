SPECIFICATION FairSpec
CONSTANTS
  r1 = r1
  a = a
  b = b
  c = c
  Runs = {r1}
  Jobs = {a}
  Owners = {o1, o2}
  NoOwner = nobody
  RunOf <- OneJobRun
  DependsOn <- OneJobDeps
  GenericJobs = {a}
  MaxAttempts <- OneTry
  AttemptLimit = 1
  MaxDeliveries = 2
  EventLimit = 1
  LeaseLosses = 2
  DeliveryLosses = 2
INVARIANTS
  TypeOK
  NothingOutlivesItsAttempt
  NoStrandedAttempt
PROPERTIES
  OutcomesAreFinal
  AttemptsEnd
CHECK_DEADLOCK FALSE
