----------------------------- MODULE ManagedRef -----------------------------
(***************************************************************************)
(* What the integration lane promises of a managed target: its head only   *)
(* grows, by one candidate at a time; the Git ref moves first and is at    *)
(* most that one candidate ahead of the kernel's record, which follows it. *)
(***************************************************************************)
EXTENDS Sequences

CONSTANTS Candidates, Targets, TargetOf

VARIABLES
  head,  \* target -> the candidates in the head the kernel has recorded
  ref    \* target -> the candidates in the commit the Git ref points to

vars == <<head, ref>>

Holds(h, c) == \E i \in DOMAIN h : h[i] = c

Init ==
  /\ head = [t \in Targets |-> <<>>]
  /\ ref = [t \in Targets |-> <<>>]

MoveRef(c) ==
  LET t == TargetOf[c] IN
  /\ ref[t] = head[t]
  /\ ~ Holds(head[t], c)
  /\ ref' = [ref EXCEPT ![t] = Append(head[t], c)]
  /\ UNCHANGED head

Record(t) ==
  /\ head' = [head EXCEPT ![t] = ref[t]]
  /\ UNCHANGED ref

Next == (\E c \in Candidates : MoveRef(c)) \/ (\E t \in Targets : Record(t))

Spec == Init /\ [][Next]_vars
=============================================================================
