---------------------------- MODULE JobExecution ----------------------------
(***************************************************************************)
(* The execution core of the kernel: runs, their jobs, the attempts of a   *)
(* job, the verification of an attempt and the outbox of external effects. *)
(* Every action is one kernel command (`decide' in                         *)
(* packages/kernel/src/domain.ts, with the events it emits reduced by      *)
(* `evolve' in packages/kernel/src/model.ts), so every action is atomic:   *)
(* SqliteKernel.execute appends the events of one command in one           *)
(* transaction.  A command that the kernel rejects changes nothing here.   *)
(*                                                                         *)
(* Time is abstracted to what a command compares with the clock: whether a *)
(* lease is live or expired, whether a job or a message is due, whether    *)
(* the deadline of an attempt has passed.  The clock moves by the actions  *)
(* at the end of the module.                                               *)
(***************************************************************************)
EXTENDS Integers, FiniteSets

CONSTANTS
  Runs, Jobs, Owners,
  NoOwner,          \* leaseOwnerId = null
  RunOf,            \* job -> its run
  DependsOn,        \* job -> dependencyJobIds
  GenericJobs,      \* jobs with an executionContract (the container driver)
  MaxAttempts,      \* job -> policy.maxAttempts
  MaxDeliveries,    \* OUTBOX_RETRY_DELAYS.length + 1
  AttemptLimit,     \* the largest policy.maxAttempts (schema.ts: 10)
  EventLimit,       \* bound: driver events of one attempt
  LeaseLosses,      \* bound: a job lease is lost only at fences up to this one
  DeliveryLosses    \* bound: a message lease is lost only at deliveries up to this one

JobsOf(r) == {j \in Jobs : RunOf[j] = r}

\* validateWorkflowGraph: a step depends on other steps of its workflow, and the
\* steps that wait for each other never form a cycle.
ValidWorkflow(steps) ==
  /\ \A j \in steps : DependsOn[j] \subseteq steps \ {j}
  /\ \A waiting \in SUBSET steps :
       waiting # {} => \E j \in waiting : DependsOn[j] \cap waiting = {}

ASSUME JobExecutionAssumption ==
  /\ NoOwner \notin Owners
  /\ RunOf \in [Jobs -> Runs]
  /\ DependsOn \in [Jobs -> SUBSET Jobs]
  /\ \A r \in Runs : ValidWorkflow(JobsOf(r))
  /\ GenericJobs \subseteq Jobs
  /\ AttemptLimit \in Nat \ {0}
  /\ MaxAttempts \in [Jobs -> 1..AttemptLimit]
  /\ MaxDeliveries \in Nat \ {0}
  /\ EventLimit \in Nat
  /\ LeaseLosses \in Nat
  /\ DeliveryLosses \in Nat

VARIABLES
  run,      \* run -> status
  job,      \* job -> status, attempts so far, active ordinal, lease, due
  attempt,  \* <<job, ordinal>> -> the attempt, its verification and receipt
  outbox    \* <<attempt, effect>> -> the outbox message

vars == <<run, job, attempt, outbox>>

-----------------------------------------------------------------------------
Ordinals == 1..AttemptLimit
Attempts == Jobs \X Ordinals
Effects  == {"start", "verify", "cancel"}
Messages == Attempts \X Effects
Cursors  == 0..EventLimit

\* A fence is handed out at most once per lost lease and once per attempt.
Fences     == 1..(LeaseLosses + AttemptLimit + 1)
Deliveries == 1..(DeliveryLosses + MaxDeliveries + 1)

TerminalRuns     == {"succeeded", "failed", "cancelled"}
TerminalJobs     == {"succeeded", "failed", "cancelled"}
TerminalAttempts == {"succeeded", "failed", "timed_out", "cancelled"}

RunStatuses == {"absent", "created", "scheduled", "running"} \cup TerminalRuns
JobStatuses == {"absent", "blocked", "ready", "active", "retry_wait"} \cup TerminalJobs
LiveAttempts == {"starting", "running", "verifying"}
AttemptStatuses ==
  {"absent", "approval_required"} \cup LiveAttempts \cup TerminalAttempts

NonretryableOutcomes ==
  {"approval_required", "protocol_invalid", "capability_violation", "operator_cancelled"}
ReceiptOutcomes == {"succeeded", "failed", "timed_out"} \cup NonretryableOutcomes
Reasons == {"none", "completed", "driver_error", "timed_out", "run_failed",
            "verification_failed", "verification_invalid"} \cup NonretryableOutcomes
Verifications == {"none", "requested", "passed", "failed", "invalid", "cancelled"}
Leases == {"none", "live", "expired"}

NoJob == [status |-> "absent", attempts |-> 0, active |-> 0, owner |-> NoOwner,
          fence |-> 0, lease |-> "none", due |-> FALSE]
NoAttempt == [status |-> "absent", reason |-> "none", external |-> FALSE, overdue |-> FALSE,
              cursor |-> 0, receipt |-> "none", verification |-> "none"]
NoMessage == [status |-> "absent", deliveries |-> 0, owner |-> NoOwner,
              lease |-> "none", due |-> FALSE]

JobRecord ==
  [status : JobStatuses, attempts : Nat, active : Nat, owner : Owners \cup {NoOwner},
   fence : Nat, lease : Leases, due : BOOLEAN]
AttemptRecord ==
  [status : AttemptStatuses, reason : Reasons, external : BOOLEAN, overdue : BOOLEAN,
   cursor : Cursors, receipt : ReceiptOutcomes \cup {"none"}, verification : Verifications]
MessageRecord ==
  [status : {"absent", "pending", "leased", "delivered", "dead_letter", "obsolete"},
   deliveries : Nat, owner : Owners \cup {NoOwner}, lease : Leases, due : BOOLEAN]

\* Every field of the state has its kind.
TypeOK ==
  /\ run \in [Runs -> RunStatuses]
  /\ job \in [Jobs -> JobRecord]
  /\ attempt \in [Attempts -> AttemptRecord]
  /\ outbox \in [Messages -> MessageRecord]

Init ==
  /\ run = [r \in Runs |-> "absent"]
  /\ job = [j \in Jobs |-> NoJob]
  /\ attempt = [a \in Attempts |-> NoAttempt]
  /\ outbox = [x \in Messages |-> NoMessage]

-----------------------------------------------------------------------------
(* Leases: validateJobLease and validateOutboxLease.  A message's fencing  *)
(* token and its delivery count are both set by OutboxLeaseAcquired, to    *)
(* one more than before, and by nothing else: `deliveries' is both.        *)

HoldsJob(o, f, j) ==
  /\ job[j].owner = o
  /\ job[j].fence = f
  /\ job[j].lease = "live"

HoldsMessage(o, g, x) ==
  /\ outbox[x].owner = o
  /\ outbox[x].deliveries = g
  /\ outbox[x].lease = "live"

IsActive(a) == job[a[1]].active = a[2]

(* What the events of a transition make of one record. *)

Enqueued == [NoMessage EXCEPT !.status = "pending", !.due = TRUE]

Closed(x, status) ==
  [outbox[x] EXCEPT !.status = status, !.owner = NoOwner, !.lease = "none"]

Ended(j, status) ==
  [job[j] EXCEPT !.status = status, !.active = 0, !.owner = NoOwner, !.lease = "none"]

\* Fault (TypeOK): the outcome of a protocol violation is taken for a status.
StatusForDriverOutcome(why) ==
  CASE why \in {"driver_error", "verification_failed", "verification_invalid",
                "capability_violation"} -> "failed"
    [] why \in {"operator_cancelled", "run_failed"} -> "cancelled"
    [] why = "completed" -> "succeeded"
    [] OTHER -> why

StatusFor(why) ==
  CASE why \in {"driver_error", "verification_failed", "verification_invalid",
                "protocol_invalid", "capability_violation"} -> "failed"
    [] why \in {"operator_cancelled", "run_failed"} -> "cancelled"
    [] why = "completed" -> "succeeded"
    [] OTHER -> why

\* The deadline of an ended attempt is of no more interest.
Finished(a, why) ==
  [attempt[a] EXCEPT !.status = StatusFor(why), !.reason = why, !.overdue = FALSE,
                     !.verification = IF @ = "requested" THEN "cancelled" ELSE @]

\* Fault (NothingOutlivesItsAttempt): an effect that a supervisor is delivering is left alone.
EffectsAfterPendingOnly(over, told) ==
  [x \in Messages |->
     CASE x[1] \in over /\ x[2] # "cancel" /\ outbox[x].status = "pending" -> Closed(x, "obsolete")
       [] x[1] \in told /\ x[2] = "cancel" /\ outbox[x].status = "absent" -> Enqueued
       [] OTHER -> outbox[x]]

(* cancellationEvents and the loops over state.outbox: the effects left    *)
(* when the attempts of `over' end and those of `told' must also be        *)
(* cancelled at the driver, which happens once per attempt.                *)
EffectsAfter(over, told) ==
  [x \in Messages |->
     CASE x[1] \in over /\ x[2] # "cancel" /\ outbox[x].status \in {"pending", "leased"} ->
            Closed(x, "obsolete")
       [] x[1] \in told /\ x[2] = "cancel" /\ outbox[x].status = "absent" -> Enqueued
       [] OTHER -> outbox[x]]

\* Fault (QuiescentRun): only the jobs that are being worked on go down with the run.
OpenJobsActive(r) == {j \in JobsOf(r) : job[j].status = "active"}

OpenJobs(r) == {j \in JobsOf(r) : job[j].status \notin TerminalJobs \cup {"absent"}}

\* Fault (OneLiveAttempt): an attempt that is being verified is forgotten.
ActiveAttemptsDriven(K) ==
  {a \in Attempts : a[1] \in K /\ IsActive(a) /\ attempt[a].status \in {"starting", "running"}}

\* The unfinished attempts that go down with the jobs in K.
ActiveAttempts(K) ==
  {a \in Attempts : a[1] \in K /\ IsActive(a) /\ attempt[a].status \notin TerminalAttempts}

Known(A) == {a \in A : attempt[a].external}

Siblings(a) == OpenJobs(RunOf[a[1]]) \ {a[1]}

\* Fault (OutcomesAreEarned): the last attempt of the policy is never made.
RetryableOnceLess(a) == job[a[1]].attempts + 1 < MaxAttempts[a[1]]

Retryable(a) == job[a[1]].attempts < MaxAttempts[a[1]]

\* The job of attempt a fails and takes the run and its other jobs along.
FailRun(a, ended) ==
  /\ run' = [run EXCEPT ![RunOf[a[1]]] = "failed"]
  /\ job' = [j \in Jobs |-> CASE j = a[1] -> Ended(j, "failed")
                              [] j \in Siblings(a) -> Ended(j, "cancelled")
                              [] OTHER -> job[j]]
  /\ attempt' = [b \in Attempts |->
                   CASE b = a -> ended
                     [] b \in ActiveAttempts(Siblings(a)) -> Finished(b, "run_failed")
                     [] OTHER -> attempt[b]]

\* Fault (KnownRunsAreCancelled): the driver is not told of the attempts that fall with the run.
RunFailedEffectsUntold(a, told) ==
  EffectsAfter({a} \cup ActiveAttempts(Siblings(a)), told)

RunFailedEffects(a, told) ==
  EffectsAfter({a} \cup ActiveAttempts(Siblings(a)), told \cup Known(ActiveAttempts(Siblings(a))))

\* failureTransitionEvents: `ended' is what becomes of the attempt itself.
FailAttempt(a, ended) ==
  \/ /\ Retryable(a)
     /\ job' = [job EXCEPT ![a[1]] = [Ended(a[1], "retry_wait") EXCEPT !.due = FALSE]]
     /\ attempt' = [attempt EXCEPT ![a] = ended]
     /\ UNCHANGED run
  \/ /\ ~Retryable(a)
     /\ FailRun(a, ended)

FailureEffects(a, why) ==
  LET told == IF why = "timed_out" THEN Known({a}) ELSE {}
  IN  IF Retryable(a) THEN EffectsAfter({a}, told) ELSE RunFailedEffects(a, told)

-----------------------------------------------------------------------------
(* Commands of operators: creating, scheduling and cancelling runs.        *)

CreateRun(r) ==
  /\ run[r] = "absent"
  /\ run' = [run EXCEPT ![r] = "created"]
  /\ UNCHANGED <<job, attempt, outbox>>

\* Fault (ImplementsLifecycle): every step starts ready, whatever it depends on.
ScheduleAllReady(r) ==
  /\ run' = [run EXCEPT ![r] = "scheduled"]
  /\ job' = [j \in Jobs |-> IF RunOf[j] = r THEN [NoJob EXCEPT !.status = "ready", !.due = TRUE]
                            ELSE job[j]]
  /\ UNCHANGED <<attempt, outbox>>

\* JobScheduled for every step of the workflow, then RunScheduled.
Schedule(r) ==
  /\ run' = [run EXCEPT ![r] = "scheduled"]
  /\ job' = [j \in Jobs |->
               IF RunOf[j] = r
               THEN [NoJob EXCEPT !.status = IF DependsOn[j] = {} THEN "ready" ELSE "blocked",
                                  !.due = TRUE]
               ELSE job[j]]
  /\ UNCHANGED <<attempt, outbox>>

ScheduleRun(r) ==
  /\ run[r] = "created"
  /\ Schedule(r)

\* milestone.start: a one-step workflow with an execution contract, created
\* and scheduled in one command.
StartMilestone(r) ==
  /\ run[r] = "absent"
  /\ \E j \in GenericJobs : JobsOf(r) = {j} /\ DependsOn[j] = {}
  /\ Schedule(r)

\* Fault (OutcomesAreFinal): a run that is over can be cancelled again.
CancelRunAnyTime(r) ==
  /\ run[r] # "absent"
  /\ run' = [run EXCEPT ![r] = "cancelled"]
  /\ UNCHANGED <<job, attempt, outbox>>

\* run.cancel (cancellationForRun).
CancelRun(r) ==
  /\ run[r] \notin TerminalRuns \cup {"absent"}
  /\ run' = [run EXCEPT ![r] = "cancelled"]
  /\ job' = [j \in Jobs |-> IF j \in OpenJobs(r) THEN Ended(j, "cancelled") ELSE job[j]]
  /\ LET cancelled == ActiveAttempts(OpenJobs(r))
     IN  /\ attempt' = [a \in Attempts |->
                          IF a \in cancelled THEN Finished(a, "operator_cancelled")
                                             ELSE attempt[a]]
         /\ outbox' = EffectsAfter(cancelled, Known(cancelled))

-----------------------------------------------------------------------------
(* Commands of supervisors on a job.  o is the command's ownerId, f its    *)
(* fencingToken.                                                           *)

Leased(j, o) ==
  [job[j] EXCEPT !.status = "active", !.owner = o, !.fence = @ + 1, !.lease = "live"]

RunStarted(r) == run' = [run EXCEPT ![r] = IF @ = "scheduled" THEN "running" ELSE @]

\* job.lease.acquire on an active job whose lease was lost: the attempt goes on.
ResumeJob(o, j) ==
  /\ run[RunOf[j]] \notin TerminalRuns
  /\ job[j].status = "active" /\ job[j].active # 0
  /\ job[j].lease # "live"
  /\ RunStarted(RunOf[j])
  /\ job' = [job EXCEPT ![j] = Leased(j, o)]
  /\ UNCHANGED <<attempt, outbox>>

\* job.lease.acquire on a job that waits: a new attempt and its agent.start.
AcquireJob(o, j) ==
  /\ run[RunOf[j]] \notin TerminalRuns
  /\ job[j].status \in {"ready", "retry_wait"}
  /\ job[j].due
  /\ job[j].active = 0
  /\ LET n == job[j].attempts + 1
     IN  /\ RunStarted(RunOf[j])
         /\ job' = [job EXCEPT ![j] = [Leased(j, o) EXCEPT !.attempts = n, !.active = n]]
         /\ attempt' = [attempt EXCEPT ![<<j, n>>] = [NoAttempt EXCEPT !.status = "starting"]]
         /\ outbox' = [outbox EXCEPT ![<<<<j, n>>, "start">>] = Enqueued]

\* job.lease.renew: a live lease stays live.
RenewJob(o, f, j) ==
  /\ HoldsJob(o, f, j)
  /\ UNCHANGED vars

\* job.lease.release: the job stays active with its attempt, without an owner.
ReleaseJob(o, f, j) ==
  /\ HoldsJob(o, f, j)
  /\ f <= LeaseLosses
  /\ job' = [job EXCEPT ![j].owner = NoOwner, ![j].lease = "none"]
  /\ UNCHANGED <<run, attempt, outbox>>

\* attempt.driver-events.observe: n more events after the stored cursor.
ObserveDriverEvents(o, f, a, after, n) ==
  /\ HoldsJob(o, f, a[1])
  /\ IsActive(a) /\ attempt[a].status = "running"
  /\ after = attempt[a].cursor
  /\ after + n <= EventLimit
  /\ attempt' = [attempt EXCEPT ![a].cursor = after + n]
  /\ UNCHANGED <<run, job, outbox>>

\* AttemptVerificationRequested, VerificationRequested and the verification.run
\* effect; `to' is the attempt these events start from.
RequestVerification(a, to) ==
  /\ attempt' = [attempt EXCEPT ![a] = [to EXCEPT !.status = "verifying",
                                                  !.verification = "requested"]]
  /\ outbox' = [outbox EXCEPT ![<<a, "verify">>] = Enqueued]
  /\ UNCHANGED <<run, job>>

\* driver.receipt.record: the container driver's evidence ends the run phase.
RecordDriverReceipt(o, f, a, outcome, count) ==
  /\ HoldsJob(o, f, a[1])
  /\ IsActive(a) /\ attempt[a].status = "running" /\ attempt[a].external
  /\ a[1] \in GenericJobs
  /\ count = attempt[a].cursor
  /\ attempt[a].receipt = "none"
  /\ \/ /\ outcome = "succeeded"
        /\ RequestVerification(a, [attempt[a] EXCEPT !.receipt = outcome])
     \/ /\ outcome \in {"failed", "timed_out"}
        /\ LET why == IF outcome = "timed_out" THEN "timed_out" ELSE "driver_error"
           IN  /\ FailAttempt(a, [Finished(a, why) EXCEPT !.receipt = outcome])
               /\ outbox' = FailureEffects(a, why)
     \/ /\ outcome \in NonretryableOutcomes
        /\ FailRun(a, [Finished(a, outcome) EXCEPT !.receipt = outcome])
        /\ outbox' = RunFailedEffects(a, {})

\* attempt.observe: the outcome a legacy driver reports by itself.
ObserveAttempt(o, f, a, outcome) ==
  /\ HoldsJob(o, f, a[1])
  /\ IsActive(a) /\ attempt[a].status = "running"
  /\ ~attempt[a].overdue
  /\ \/ /\ outcome = "failed"
        /\ FailAttempt(a, Finished(a, "driver_error"))
        /\ outbox' = FailureEffects(a, "driver_error")
     \/ /\ outcome = "succeeded"
        /\ attempt[a].verification = "none" /\ outbox[<<a, "verify">>].status = "absent"
        /\ RequestVerification(a, attempt[a])

\* Fault (AttemptsEnd): only an attempt whose external run goes on is overdue.
TimeoutRunning(o, f, a) ==
  /\ HoldsJob(o, f, a[1])
  /\ attempt[a].status = "running"
  /\ IsActive(a)
  /\ attempt[a].overdue
  /\ FailAttempt(a, Finished(a, "timed_out"))
  /\ outbox' = FailureEffects(a, "timed_out")

\* attempt.timeout, in whatever phase the attempt is.
TimeoutAttempt(o, f, a) ==
  /\ HoldsJob(o, f, a[1])
  /\ attempt[a].status \notin TerminalAttempts
  /\ IsActive(a)
  /\ attempt[a].overdue
  /\ FailAttempt(a, Finished(a, "timed_out"))
  /\ outbox' = FailureEffects(a, "timed_out")

-----------------------------------------------------------------------------
(* Commands on the verification of an attempt: both leases must be held.   *)

HoldsVerification(o, f, g, a) ==
  /\ attempt[a].verification = "requested"
  /\ HoldsJob(o, f, a[1])
  /\ HoldsMessage(o, g, <<a, "verify">>)
  /\ attempt[a].status = "verifying"
  /\ IsActive(a)

Unblocked(j) ==
  {k \in JobsOf(RunOf[j]) :
     /\ job[k].status = "blocked"
     /\ \A d \in DependsOn[k] : d = j \/ job[d].status = "succeeded"}

SucceedJob(j) ==
  /\ job' = [k \in Jobs |-> CASE k = j -> Ended(k, "succeeded")
                              [] k \in Unblocked(j) -> [job[k] EXCEPT !.status = "ready",
                                                                     !.due = TRUE]
                              [] OTHER -> job[k]]
  /\ run' = [run EXCEPT ![RunOf[j]] =
               IF \A k \in JobsOf(RunOf[j]) : k = j \/ job[k].status = "succeeded"
               THEN "succeeded" ELSE @]

\* verification.complete: the receipt, the delivery and the outcome at once.
CompleteVerification(o, f, g, a, outcome) ==
  /\ HoldsVerification(o, f, g, a)
  /\ ~attempt[a].overdue
  /\ \/ /\ outcome = "passed"
        /\ SucceedJob(a[1])
        /\ attempt' = [attempt EXCEPT ![a] = [Finished(a, "completed")
                                              EXCEPT !.verification = outcome]]
        /\ outbox' = [outbox EXCEPT ![<<a, "verify">>] = Closed(<<a, "verify">>, "delivered")]
     \/ /\ outcome \in {"failed", "invalid"}
        /\ LET why == IF outcome = "failed" THEN "verification_failed" ELSE "verification_invalid"
               gone == ActiveAttempts(Siblings(a))
           IN  /\ FailRun(a, [Finished(a, why) EXCEPT !.verification = outcome])
               /\ outbox' = [EffectsAfter(gone, Known(gone))
                             EXCEPT ![<<a, "verify">>] = Closed(<<a, "verify">>, "delivered")]

\* verification.execution.fail: the verifier itself gave no verdict.
FailVerification(o, f, g, a, why) ==
  /\ HoldsVerification(o, f, g, a)
  /\ FailAttempt(a, Finished(a, why))
  /\ outbox' = FailureEffects(a, why)

-----------------------------------------------------------------------------
(* Commands of supervisors on an outbox message x = <<attempt, effect>>.   *)

Taken(x, o) ==
  [outbox[x] EXCEPT !.status = "leased", !.deliveries = @ + 1, !.owner = o, !.lease = "live"]

\* outbox.lease.acquire, of a message that is due or whose lease expired.  An
\* effect other than a cancellation is dropped when its attempt has ended.
AcquireMessage(o, x) ==
  /\ \/ outbox[x].status = "pending" /\ outbox[x].due
     \/ outbox[x].status = "leased" /\ outbox[x].lease = "expired"
  /\ outbox' = [outbox EXCEPT ![x] =
                  IF x[2] # "cancel" /\ attempt[x[1]].status \in TerminalAttempts
                  THEN Closed(x, "obsolete") ELSE Taken(x, o)]
  /\ UNCHANGED <<run, job, attempt>>

\* outbox.delivery.succeed.  Supervisors send it for agent.start, which makes
\* the attempt run, and for agent.cancel; verification.run is settled above.
DeliverStart(o, g, a) ==
  /\ HoldsMessage(o, g, <<a, "start">>)
  /\ attempt' = IF attempt[a].status \in TerminalAttempts THEN attempt
                ELSE [attempt EXCEPT ![a].status = "running", ![a].external = TRUE]
  /\ outbox' = [IF attempt[a].status \in TerminalAttempts THEN EffectsAfter({}, {a}) ELSE outbox
                EXCEPT ![<<a, "start">>] = Closed(<<a, "start">>, "delivered")]
  /\ UNCHANGED <<run, job>>

DeliverCancel(o, g, a) ==
  /\ HoldsMessage(o, g, <<a, "cancel">>)
  /\ outbox' = [outbox EXCEPT ![<<a, "cancel">>] = Closed(<<a, "cancel">>, "delivered")]
  /\ UNCHANGED <<run, job, attempt>>

\* outbox.delivery.fail: back to pending until the delivery budget is spent.
RetryDelivery(o, g, x) ==
  /\ HoldsMessage(o, g, x)
  /\ outbox[x].deliveries < MaxDeliveries
  /\ outbox' = [outbox EXCEPT ![x] = [Closed(x, "pending") EXCEPT !.due = FALSE]]
  /\ UNCHANGED <<run, job, attempt>>

\* Fault (NoStrandedAttempt): the effect is given up and its attempt is not.
DeadLetterAlone(o, g, x) ==
  /\ HoldsMessage(o, g, x)
  /\ outbox[x].deliveries >= MaxDeliveries
  /\ outbox' = [outbox EXCEPT ![x] = Closed(x, "dead_letter")]
  /\ UNCHANGED <<run, job, attempt>>

\* outbox.delivery.fail at the last delivery: the attempt fails with its effect.
DeadLetter(o, g, x) ==
  /\ HoldsMessage(o, g, x)
  /\ outbox[x].deliveries >= MaxDeliveries
  /\ IF x[2] # "cancel" /\ attempt[x[1]].status \notin TerminalAttempts
     THEN /\ FailAttempt(x[1], Finished(x[1], "driver_error"))
          /\ outbox' = [FailureEffects(x[1], "driver_error")
                        EXCEPT ![x] = Closed(x, "dead_letter")]
     ELSE /\ outbox' = [outbox EXCEPT ![x] = Closed(x, "dead_letter")]
          /\ UNCHANGED <<run, job, attempt>>

\* The outcome of the cancellation effect, as it was enqueued.
CancelReason(a) == IF attempt[a].reason = "timed_out" THEN "timed_out" ELSE "operator_cancelled"

\* driver.terminal-receipt.record: the evidence of a cancelled external run.
RecordTerminalReceipt(o, g, a, outcome, count) ==
  /\ HoldsMessage(o, g, <<a, "cancel">>)
  /\ a[1] \in GenericJobs
  /\ attempt[a].status \in TerminalAttempts
  /\ outcome = CancelReason(a)
  /\ count >= attempt[a].cursor
  /\ attempt[a].receipt = "none"
  /\ attempt' = [attempt EXCEPT ![a].receipt = outcome, ![a].cursor = count]
  /\ UNCHANGED <<run, job, outbox>>

-----------------------------------------------------------------------------
(* The clock.                                                              *)

ExpireJobLease(j) ==
  /\ job[j].lease = "live"
  /\ job[j].fence <= LeaseLosses
  /\ job' = [job EXCEPT ![j].lease = "expired"]
  /\ UNCHANGED <<run, attempt, outbox>>

ExpireMessageLease(x) ==
  /\ outbox[x].lease = "live"
  /\ outbox[x].deliveries <= DeliveryLosses
  /\ outbox' = [outbox EXCEPT ![x].lease = "expired"]
  /\ UNCHANGED <<run, job, attempt>>

JobBecomesDue(j) ==
  /\ job[j].status = "retry_wait" /\ ~job[j].due
  /\ job' = [job EXCEPT ![j].due = TRUE]
  /\ UNCHANGED <<run, attempt, outbox>>

MessageBecomesDue(x) ==
  /\ outbox[x].status = "pending" /\ ~outbox[x].due
  /\ outbox' = [outbox EXCEPT ![x].due = TRUE]
  /\ UNCHANGED <<run, job, attempt>>

DeadlinePasses(a) ==
  /\ attempt[a].status \in LiveAttempts /\ ~attempt[a].overdue
  /\ attempt' = [attempt EXCEPT ![a].overdue = TRUE]
  /\ UNCHANGED <<run, job, outbox>>

-----------------------------------------------------------------------------
OperatorStep(r) == CreateRun(r) \/ ScheduleRun(r) \/ StartMilestone(r) \/ CancelRun(r)

JobStep(o, j) ==
  \/ ResumeJob(o, j)
  \/ AcquireJob(o, j)
  \/ \E f \in Fences : RenewJob(o, f, j) \/ ReleaseJob(o, f, j)

AttemptStep(o, f, a) ==
  \/ \E after \in Cursors : \E n \in 1..EventLimit : ObserveDriverEvents(o, f, a, after, n)
  \/ \E outcome \in ReceiptOutcomes, count \in Cursors :
       RecordDriverReceipt(o, f, a, outcome, count)
  \/ \E outcome \in {"succeeded", "failed"} : ObserveAttempt(o, f, a, outcome)
  \/ TimeoutAttempt(o, f, a)

VerificationStep(o, f, g, a) ==
  \/ \E outcome \in {"passed", "failed", "invalid"} : CompleteVerification(o, f, g, a, outcome)
  \/ \E why \in {"timed_out", "driver_error"} : FailVerification(o, f, g, a, why)

DeliveryStep(o, g, a) ==
  \/ DeliverStart(o, g, a)
  \/ DeliverCancel(o, g, a)
  \/ \E e \in Effects : RetryDelivery(o, g, <<a, e>>) \/ DeadLetter(o, g, <<a, e>>)
  \/ \E outcome \in ReceiptOutcomes, count \in Cursors :
       RecordTerminalReceipt(o, g, a, outcome, count)

SupervisorStep(o) ==
  \/ \E j \in Jobs : JobStep(o, j)
  \/ \E x \in Messages : AcquireMessage(o, x)
  \/ \E a \in Attempts, f \in Fences : AttemptStep(o, f, a)
  \/ \E a \in Attempts, g \in Deliveries : DeliveryStep(o, g, a)
  \/ \E a \in Attempts, f \in Fences, g \in Deliveries : VerificationStep(o, f, g, a)

ClockStep ==
  \/ \E j \in Jobs : ExpireJobLease(j) \/ JobBecomesDue(j)
  \/ \E x \in Messages : ExpireMessageLease(x) \/ MessageBecomesDue(x)
  \/ \E a \in Attempts : DeadlinePasses(a)

Next ==
  \/ \E r \in Runs : OperatorStep(r)
  \/ \E o \in Owners : SupervisorStep(o)
  \/ ClockStep

Spec == Init /\ [][Next]_vars

-----------------------------------------------------------------------------
(* What must hold.                                                         *)

Open == {"pending", "leased"}

\* A job has an attempt in flight exactly while it is active, and then only its
\* newest one: retries, timeouts and cancellations never leave a second worker
\* behind (job.lease.acquire against failureTransitionEvents, cancellationEvents).
OneLiveAttempt ==
  /\ \A j \in Jobs :
       /\ job[j].status = "active" <=> job[j].active # 0
       /\ job[j].active \in {0, job[j].attempts}
  /\ \A a \in Attempts :
       /\ attempt[a].status \in LiveAttempts <=> IsActive(a)
       /\ attempt[a].status = "absent" <=> a[2] > job[a[1]].attempts

\* What ends an attempt, whichever of the nine transitions it is, also settles
\* its verification and closes its agent.start and verification.run effects, so
\* no supervisor goes on working for it.
NothingOutlivesItsAttempt ==
  \A a \in Attempts : attempt[a].status \notin LiveAttempts =>
    /\ attempt[a].verification # "requested"
    /\ \A e \in {"start", "verify"} : outbox[<<a, e>>].status \notin Open

\* When a run is over every job of it is over, without a lease and without an
\* attempt in flight: the loops over state.jobs miss none.
QuiescentRun ==
  \A r \in Runs : run[r] \in TerminalRuns =>
    \A j \in JobsOf(r) :
      /\ job[j].status \in TerminalJobs \cup {"absent"}
      /\ job[j].lease = "none" /\ job[j].active = 0

\* A job succeeds only by a passed verification of its newest attempt, and its
\* run succeeds with the last of its jobs, neither earlier nor later.
SuccessIsVerified ==
  /\ \A j \in Jobs : job[j].status = "succeeded" =>
       /\ job[j].attempts # 0
       /\ attempt[<<j, job[j].attempts>>].status = "succeeded"
       /\ attempt[<<j, job[j].attempts>>].verification = "passed"
  /\ \A r \in Runs : JobsOf(r) # {} =>
       (run[r] = "succeeded" <=> \A j \in JobsOf(r) : job[j].status = "succeeded")

\* No attempt of a job starts before all the jobs it depends on have succeeded.
DependencyOrder ==
  \A j \in Jobs : job[j].attempts > 0 =>
    \A d \in DependsOn[j] : job[d].status = "succeeded"

\* An attempt in flight always has what moves it on: the start effect until the
\* driver has it, the external run while it runs, the verification effect while
\* it is verified.  Otherwise only its deadline would end it.
NoStrandedAttempt ==
  \A a \in Attempts :
    /\ attempt[a].status = "starting" => outbox[<<a, "start">>].status \in Open
    /\ attempt[a].status = "running" => attempt[a].external
    /\ attempt[a].status = "verifying" =>
         /\ attempt[a].verification = "requested"
         /\ outbox[<<a, "verify">>].status \in Open

\* A run fails by exactly one job, and that job had used up its retries unless
\* the evidence of its newest attempt rules a retry out.
FailureIsEarned ==
  \A r \in Runs :
    LET failed == {j \in JobsOf(r) : job[j].status = "failed"}
    IN  /\ run[r] = "failed" <=> failed # {}
        /\ \A j, k \in failed : j = k
        /\ \A j \in failed :
             \/ job[j].attempts = MaxAttempts[j]
             \/ attempt[<<j, job[j].attempts>>].reason \in
                  NonretryableOutcomes \cup {"verification_failed", "verification_invalid"}

\* The outcome of each job is the one it has earned: it ran only when its
\* dependencies had succeeded, it succeeded only by a passed verification, and it
\* failed only with nothing left to try, however its deliveries, receipts and
\* timeouts crossed (#recordJobFailure, #requestVerification, verification.record).
OutcomesAreEarned == SuccessIsVerified /\ FailureIsEarned /\ DependencyOrder

\* The kernel ends an attempt whose external run it knows, without evidence that
\* the run is over, only together with an agent.cancel effect; and it cancels
\* nothing that it has not ended itself.
KnownRunsAreCancelled ==
  \A a \in Attempts :
    /\ /\ attempt[a].external /\ attempt[a].receipt = "none"
       /\ attempt[a].status \in {"cancelled", "timed_out"}
       => outbox[<<a, "cancel">>].status # "absent"
    /\ outbox[<<a, "cancel">>].status # "absent" =>
         attempt[a].external /\ attempt[a].status \in {"cancelled", "timed_out"}

\* Terminal outcomes are final: no late command, clock tick or retry changes the
\* outcome of a run, a job, an attempt, a verification or an effect.
OutcomesAreFinal ==
  [][/\ \A r \in Runs : run[r] \in TerminalRuns => run'[r] = run[r]
     /\ \A j \in Jobs : job[j].status \in TerminalJobs => job'[j] = job[j]
     /\ \A a \in Attempts :
          attempt[a].status \in TerminalAttempts =>
            /\ attempt'[a].status = attempt[a].status
            /\ attempt'[a].verification = attempt[a].verification
     /\ \A x \in Messages :
          outbox[x].status \in {"delivered", "dead_letter", "obsolete"} =>
            outbox'[x] = outbox[x]]_vars

(***************************************************************************)
(* The promise of the execution core, as an abstract specification.        *)
(***************************************************************************)
Phase(j) ==
  CASE job[j].status \in {"blocked", "ready", "retry_wait"} -> "waiting"
    [] job[j].status = "active" -> "working"
    [] OTHER -> job[j].status

Lifecycle == INSTANCE RunLifecycle WITH
  phase <- [j \in Jobs |-> Phase(j)],
  tries <- [j \in Jobs |-> job[j].attempts]

\* Every command is a step of the run lifecycle or leaves it alone.
ImplementsLifecycle == Lifecycle!Spec

\* Time passes, and a tick that gets to the jobs first takes over one whose
\* lease was lost and times out an attempt that is overdue.  Whether anything
\* else that a supervisor does succeeds, or is ever done, is left open.
Deadlines ==
  \/ \E a \in Attempts : DeadlinePasses(a)
  \/ \E o \in Owners, j \in Jobs : ResumeJob(o, j)
  \/ \E o \in Owners, f \in Fences, a \in Attempts : TimeoutAttempt(o, f, a)

FairSpec == Spec /\ WF_vars(Deadlines)

\* Supervisor.tick against attempt.timeout: no attempt goes on for ever, and with
\* NothingOutlivesItsAttempt neither does its start or its verification, though
\* the job changes hands, effects are lost or given up, the driver or the
\* verifier never answers, or the kernel refuses each of their answers.
AttemptsEnd ==
  \A a \in Attempts : attempt[a].status \in LiveAttempts ~> attempt[a].status \notin LiveAttempts
=============================================================================
