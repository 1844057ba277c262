SPECIFICATION FairSpec
CONSTANTS
  open = open
  again = again
  retry = retry
  broken = broken
  k1 = k1
  k2 = k2
  programs = programs
  runs = runs
  Clients = {p1, p2}
  Readers = {v}
  Nobody = nobody
  Requests <- TheRequests
  Valid = {open, again, retry}
  Keys = {k1, k2}
  KeyOf <- KeyMap
  Needs <- NeedMap
  Bars <- BarMap
  Streams = {programs, runs}
  Tables <- Reading
  Writes <- WriteMap
  Faulty = {p1}
  Mortal = {p1, p2}
  Fragile = {programs}
INVARIANTS
  TypeOK
  LogInv
  AnswersAreKept
PROPERTIES
  CommitsRepair
  ImplementsAtomicLog
  LockIsFreed
CHECK_DEADLOCK FALSE
