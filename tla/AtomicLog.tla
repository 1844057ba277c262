------------------------------ MODULE AtomicLog ------------------------------
(***************************************************************************)
(* What the command log promises: a command takes effect whole, at one     *)
(* instant, and its key is used up by the outcome, whichever it is; what a *)
(* client is told of a key never changes.                                  *)
(***************************************************************************)
EXTENDS Sequences

CONSTANTS Requests, Keys, KeyOf, Valid, Permits(_, _)

VARIABLES
  log,      \* the accepted requests, in the order of their effects
  outcome,  \* key -> what became of it
  told      \* what clients were answered: pairs of a request and an answer

vars == <<log, outcome, told>>

Unused == [status |-> "none"]

Init == log = <<>> /\ outcome = [k \in Keys |-> Unused] /\ told = {}

\* The request decides the outcome of its key.
Execute(r) ==
  /\ r \in Valid /\ outcome[KeyOf[r]] = Unused
  /\ \/ Permits(r, log) /\ log' = Append(log, r)
        /\ outcome' = [outcome EXCEPT ![KeyOf[r]] = [status |-> "accepted", by |-> r]]
     \/ ~ Permits(r, log) /\ log' = log
        /\ outcome' = [outcome EXCEPT ![KeyOf[r]] = [status |-> "rejected", by |-> r]]
  /\ UNCHANGED told

Answer(r) ==
  IF r \notin Valid THEN "invalid"
  ELSE IF outcome[KeyOf[r]].by = r THEN outcome[KeyOf[r]].status ELSE "conflict"

Tell(r) ==
  /\ r \in Valid => outcome[KeyOf[r]] # Unused
  /\ told' = told \cup {<<r, Answer(r)>>}
  /\ UNCHANGED <<log, outcome>>

Next == \E r \in Requests : Execute(r) \/ Tell(r)

Spec == Init /\ [][Next]_vars
=============================================================================
