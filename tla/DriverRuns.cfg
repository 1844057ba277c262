SPECIFICATION Spec
CONSTANTS
  s1 = s1  s2 = s2
  Supervisors <- TwoSupervisors
  NoOne = NoOne
  MaxDeliveries = 2
  Breaches = {}
  EventLimit = 2
  MaxFaults = 1
INVARIANTS
  DriverInv
  EvidenceIsDurable
PROPERTIES
  KnownRunsStop
  CancellationsSettleUnlessMismatched
CHECK_DEADLOCK FALSE
