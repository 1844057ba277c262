SPECIFICATION Spec
CONSTANTS
  old = old  base = base  top = top
  old1 = old1  old2 = old2  base1 = base1  base2 = base2  top1 = top1
  clash = clash  src = src  lib = lib  gpu = gpu  agent = agent  s1 = s1
  Nothing = Nothing
  MaxExecuting = 2
  Skill <- OneSkill
  Supervisors = {s1}
  Programs = {base, top}
  Legacy = {}
  Created <- BaseThenTop
  Milestones = {base1, base2, top1}
  Nodes <- CompetingNodes
  TargetOf <- CompetingTargets
  Deps <- CompetingDeps
  CrossDeps <- CompetingCross
  Resources <- NoResources
  Surfaces <- CompetingSurfaces
  Paths <- Tree
  Capacity <- TwoAgents
  MaxPipelineWip = 2
  Issues = {clash}
  Affects <- OneAffects
  Contradictions = {clash}
  Fenceable = {top}
  MaxOutcomes <- CompetingBounds
INVARIANTS
  PortfolioInv
  ClaimsAreExclusive
CHECK_DEADLOCK FALSE
