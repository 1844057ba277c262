SPECIFICATION FairSpec
CONSTANTS
  s1 = s1  s2 = s2  c1 = c1  c2 = c2  d1 = d1  p1 = p1  p2 = p2
  first = first  second = second  third = third  ask1 = ask1  b1 = b1
  None = None
  Subjects = {s1, s2}
  PriorOf <- Revised
  Cases = {c1, c2}
  Packets = {d1}
  CasesOf <- BothCases
  HoldoutOf <- BothCases
  Coverage = 50
  Policies = {p1, p2}
  SubjectOf <- OneSubject
  Invocations = {first, third, ask1}
  Asked <- AskOne
  About <- CasesAndPacket
  Ballots = {b1}
  Supervisors = 1
  Tries = 3
  Limit = 1
  AuditFirst = 1
  MaxAsked = 3
  MaxEvents = 1
INVARIANTS
  AdvisorInv
PROPERTIES
  SuspendedForGood
  FailuresEnd
CHECK_DEADLOCK FALSE
