---------------------------- MODULE MCAttention ----------------------------
(* Small instances of Attention.                                           *)
EXTENDS Attention, TLC

CONSTANTS issue1, denial, outcome1, ask

KindOf == issue1 :> "issue" @@ denial :> "approval" @@ outcome1 :> "outcome" @@ ask :> "request"
MixedKinds == [s \in Sources |-> KindOf[s]]
OneRunEach == [s \in Sources |-> IF Kind[s] \in {"issue", "approval"} THEN 1 ELSE 0]
OnePageEach == [p \in 0..MaxPolicy |-> p]
=============================================================================
