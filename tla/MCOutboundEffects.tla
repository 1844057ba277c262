------------------------- MODULE MCOutboundEffects -------------------------
(* Small instances of OutboundEffects.                                     *)
EXTENDS OutboundEffects, TLC

CONSTANTS comment, branch, pilot, w1, w2, main

OnePolicy == [e \in Effects |-> pilot]
OneProcess == [w \in Workers |-> main]

\* Both may be at work on the branch, which GitHub creates once.
SharedBranch == w1 :> {comment, branch} @@ w2 :> {branch}

ASSUME InstanceAssumption == EffectsAreLocal /\ SharedAreMadeOnce
=============================================================================
