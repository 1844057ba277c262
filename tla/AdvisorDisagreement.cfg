SPECIFICATION Spec
CONSTANTS
  s1 = s1  s2 = s2  c1 = c1  c2 = c2  d1 = d1  p1 = p1  p2 = p2
  first = first  second = second  third = third  ask1 = ask1  b1 = b1
  None = None
  Subjects = {s1}
  PriorOf <- Revised
  Cases = {c1}
  Packets = {d1}
  CasesOf <- OneCase
  HoldoutOf <- OneCase
  Coverage = 80
  Policies = {p1}
  SubjectOf <- OneSubject
  Invocations = {first, second, ask1}
  Asked <- AskOne
  About <- CasesAndPacket
  Ballots = {b1}
  Supervisors = 1
  Tries = 1
  Limit = 1
  AuditFirst = 1
  MaxAsked = 3
  MaxEvents = 0
PROPERTIES
  SeriousDisagreementSuspends
CHECK_DEADLOCK FALSE
