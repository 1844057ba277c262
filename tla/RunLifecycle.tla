---------------------------- MODULE RunLifecycle ----------------------------
(***************************************************************************)
(* What the execution core promises of a run, without leases, outbox,      *)
(* drivers or clocks: jobs are worked on in dependency order, each at most *)
(* as often as its policy allows; the run succeeds with its last job and   *)
(* ends at once, with all that is left of it, when a job fails or the      *)
(* operator cancels it.                                                    *)
(***************************************************************************)
EXTENDS Naturals

CONSTANTS Runs, Jobs, RunOf, DependsOn, MaxAttempts

VARIABLES
  run,    \* run -> status
  phase,  \* job -> where it stands
  tries   \* job -> attempts begun

vars == <<run, phase, tries>>

Over == {"succeeded", "failed", "cancelled"}

Init ==
  /\ run = [r \in Runs |-> "absent"]
  /\ phase = [j \in Jobs |-> "absent"]
  /\ tries = [j \in Jobs |-> 0]

Create(r) ==
  /\ run[r] = "absent"
  /\ run' = [run EXCEPT ![r] = "created"]
  /\ UNCHANGED <<phase, tries>>

Schedule(r) ==
  /\ run[r] \in {"absent", "created"}
  /\ run' = [run EXCEPT ![r] = "scheduled"]
  /\ phase' = [j \in Jobs |-> IF RunOf[j] = r THEN "waiting" ELSE phase[j]]
  /\ UNCHANGED tries

Begin(j) ==
  /\ run[RunOf[j]] \in {"scheduled", "running"}
  /\ phase[j] = "waiting"
  /\ \A d \in DependsOn[j] : phase[d] = "succeeded"
  /\ tries[j] < MaxAttempts[j]
  /\ run' = [run EXCEPT ![RunOf[j]] = "running"]
  /\ phase' = [phase EXCEPT ![j] = "working"]
  /\ tries' = [tries EXCEPT ![j] = @ + 1]

Retry(j) ==
  /\ phase[j] = "working"
  /\ tries[j] < MaxAttempts[j]
  /\ phase' = [phase EXCEPT ![j] = "waiting"]
  /\ UNCHANGED <<run, tries>>

Succeed(j) ==
  /\ run[RunOf[j]] = "running"
  /\ phase[j] = "working"
  /\ phase' = [phase EXCEPT ![j] = "succeeded"]
  /\ run' = [run EXCEPT ![RunOf[j]] =
               IF \A k \in Jobs : RunOf[k] = RunOf[j] => phase'[k] = "succeeded"
               THEN "succeeded" ELSE "running"]
  /\ UNCHANGED tries

\* The run r ends as `how'; each unfinished job of it is cancelled, but j fails.
End(r, how, failed) ==
  /\ run' = [run EXCEPT ![r] = how]
  /\ phase' = [j \in Jobs |->
                 IF RunOf[j] # r \/ phase[j] \in Over \cup {"absent"} THEN phase[j]
                 ELSE IF j \in failed THEN "failed" ELSE "cancelled"]
  /\ UNCHANGED tries

Fail(j) ==
  /\ run[RunOf[j]] = "running"
  /\ phase[j] = "working"
  /\ End(RunOf[j], "failed", {j})

Cancel(r) ==
  /\ run[r] \in {"created", "scheduled", "running"}
  /\ End(r, "cancelled", {})

Next ==
  \/ \E r \in Runs : Create(r) \/ Schedule(r) \/ Cancel(r)
  \/ \E j \in Jobs : Begin(j) \/ Retry(j) \/ Succeed(j) \/ Fail(j)

Spec == Init /\ [][Next]_vars
=============================================================================
