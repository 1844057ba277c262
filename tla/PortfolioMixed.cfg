SPECIFICATION Spec
CONSTANTS
  old = old  base = base  top = top
  old1 = old1  old2 = old2  base1 = base1  base2 = base2  top1 = top1
  clash = clash  src = src  lib = lib  gpu = gpu  agent = agent  s1 = s1
  Nothing = Nothing
  MaxExecuting = 2
  Skill <- OneSkill
  Supervisors = {s1}
  Programs = {old, base, top}
  Legacy = {old}
  Created <- TopFirst
  Milestones = {old1, old2, base1, top1}
  Nodes <- MixedNodes
  TargetOf <- OneTarget
  Deps <- MixedDeps
  CrossDeps <- MixedCross
  Resources <- OneResource
  Surfaces <- MixedSurfaces
  Paths <- Tree
  Capacity <- OneAgent
  MaxPipelineWip = 1
  Issues = {}
  Affects <- NoAffects
  Contradictions = {}
  Fenceable = {}
  MaxOutcomes <- MixedBounds
INVARIANTS
  QuietPrograms
  RunsOnEvidence
CHECK_DEADLOCK FALSE
