SPECIFICATION FairSpec
CONSTANTS
  issue1 = issue1
  ask = ask
  outcome1 = outcome1
  denial = denial
  Sources = {issue1, ask}
  Kind <- MixedKinds
  Reserved = {issue1}
  OneWay = {}
  Versioned = {ask}
  Timed = {ask}
  PagesRoutine = {}
  PageBudget <- OnePageEach
  Retries = 1
  Compilers = {c}
  Pagers = {w}
  None = None
  MaxPolicy = 1
  MaxRun <- OneRunEach
  MaxRevision = 3
  MaxSources = 2
  MaxChanges = 1
INVARIANTS
  AttentionInv
PROPERTIES
  QuestionsAreShownUnlessJammed
  PagesSettle
CHECK_DEADLOCK FALSE
