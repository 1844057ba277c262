SPECIFICATION EffectSpec
CONSTANTS
  comment = comment  branch = branch  pilot = pilot  main = main
  w1 = w1  w2 = w2
  Effects = {comment, branch}
  Exclusive = {branch}
  Unmarked = {branch}
  Policies = {pilot}
  PolicyOf <- OnePolicy
  Workers = {w1, w2}
  Handles <- SharedBranch
  Processes = {main}
  ProcessOf <- OneProcess
  NoKey = NoKey
  Threshold = 2
  MaxFailures = 2
  MaxEvents = 2
INVARIANTS
  EffectInv
  FailuresSuspend
PROPERTIES
  ReceiptsAreKept
CHECK_DEADLOCK FALSE
