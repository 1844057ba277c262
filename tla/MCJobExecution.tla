--------------------------- MODULE MCJobExecution ---------------------------
(* Small instances of JobExecution: the workflow of the run and the        *)
(* policies of its jobs.                                                   *)
EXTENDS JobExecution, TLC

CONSTANTS r1, a, b, c

\* One milestone run with one job.
OneJobRun  == a :> r1
OneJobDeps == a :> {}
OneTry     == a :> 1

\* Two steps and a third that needs both.
JoinRun   == [j \in {a, b, c} |-> r1]
JoinDeps  == [j \in {a, b, c} |-> IF j = c THEN {a, b} ELSE {}]
JoinTries == [j \in {a, b, c} |-> IF j = a THEN 2 ELSE 1]
=============================================================================
