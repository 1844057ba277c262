SPECIFICATION Spec
CONSTANTS
  x = x
  y = y
  z = z
  main = main
  other = other
  Candidates = {x, y, z}
  Targets = {main, other}
  Supervisors = {s1, s2}
  Nobody = nobody
  TargetOf <- Mixed
  Admission <- MixedOrder
  Creation <- MixedOrder
  Needs <- MixedNeeds
  Overlaps <- Shared
  Clashes <- Shared
  Straying = {z}
  Sound = {y}
  MaxReady = 2
  LeaseLosses = 1
  Mortal = {s1, s2}
INVARIANTS
  LaneInv
  RefIsRecordable
  PredecessorsPrecede
PROPERTIES
  ImplementsManagedRef
CHECK_DEADLOCK FALSE
