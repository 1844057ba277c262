-------------------------- MODULE MCIntegrationLane --------------------------
(* A small instance of IntegrationLane.                                    *)
EXTENDS IntegrationLane, TLC

CONSTANTS x, y, z, main, other

\* x and y share a path of one target; z, on another target, needs x.
Mixed       == [c \in {x, y, z} |-> IF c = z THEN other ELSE main]
MixedOrder  == x :> 1 @@ y :> 2 @@ z :> 3
MixedNeeds  == [c \in {x, y, z} |-> IF c = z THEN {x} ELSE {}]
Shared      == {{x, y}}
=============================================================================
