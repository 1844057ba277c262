--------------------------- MODULE MCPlanRevisions ---------------------------
(* A small instance of PlanRevisions.                                      *)
EXTENDS PlanRevisions, TLC

CONSTANTS first, second

\* The graph of the first program may be revised once.
OneRevised == first :> 2 @@ second :> 1
=============================================================================
