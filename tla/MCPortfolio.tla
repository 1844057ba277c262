---------------------------- MODULE MCPortfolio ----------------------------
(* Small instances of Portfolio.                                           *)
EXTENDS Portfolio, TLC

CONSTANTS old, base, top, old1, old2, base1, base2, top1, clash, src, lib, gpu, agent, s1

\* Two graph_v2 programs that compete: base2 may run beside top1, base1 only once
\* top is on another revision of the target.
CompetingNodes == base :> <<<<base1, base2>>>> @@ top :> <<<<top1>>, <<top1>>>>
CompetingTargets == base :> <<1>> @@ top :> <<1, 2>>
CompetingDeps == base1 :> {} @@ base2 :> {base1} @@ top1 :> {}
CompetingCross == base :> {} @@ top :> {}
Tree == {<<src>>, <<src, lib>>, <<src, src>>}
Subtree(p) == [kind |-> "subtree", path |-> p]
File(p) == [kind |-> "file", path |-> p]
CompetingSurfaces ==
  base1 :> {Subtree(<<src>>)} @@ base2 :> {File(<<src, lib>>)} @@ top1 :> {File(<<src, src>>)}
CompetingBounds == base1 :> 2 @@ base2 :> 1 @@ top1 :> 1
BaseThenTop == <<base, top>>

\* A graph_v1 program with a second revision, and top, which needs base.
MixedNodes == old :> <<<<old1>>, <<old1, old2>>>> @@ base :> <<<<base1>>>> @@ top :> <<<<top1>>>>
OneTarget == [p \in Programs |-> [r \in DOMAIN Nodes[p] |-> 1]]
MixedDeps == old1 :> {} @@ old2 :> {old1} @@ base1 :> {} @@ top1 :> {}
MixedCross == old :> {} @@ base :> {} @@ top :> {base}
MixedSurfaces == [m \in Milestones |-> {Subtree(<<src>>)}]
NoResources == [m \in Milestones |-> {}]
OneResource == [m \in Milestones |-> {gpu}]
MixedBounds == old1 :> 2 @@ old2 :> 1 @@ base1 :> 1 @@ top1 :> 1
TopFirst == <<top, base, old>>

OneAgent == agent :> 1
TwoAgents == agent :> 2
OneSkill == [m \in Milestones |-> agent]
\* A contradiction: what depends on base1 is paused too.
OneAffects == clash :> {base1}
NoAffects == [i \in {} |-> {}]
=============================================================================
