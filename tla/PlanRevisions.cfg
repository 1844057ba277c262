SPECIFICATION Spec
CONSTANTS
  first = first
  second = second
  Programs = {first, second}
  Targets = {main}
  Lanes = {merge}
  Imported = {base}
  Absent = absent
  MaxWorkflows = 1
  MaxAttention = 2
  MaxPolicies = 2
  MaxTargets = 2
  MaxGraphs <- OneRevised
INVARIANTS
  PlanInv
  HeadsAreHistory
  DependentsFollow
CHECK_DEADLOCK FALSE
