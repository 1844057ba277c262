------------------------- MODULE JobExecutionProofs -------------------------
(***************************************************************************)
(* Proofs about JobExecution, for every number of runs, jobs, owners and   *)
(* attempts: first that the state keeps its types, then an inductive       *)
(* invariant of what commands leave behind, then what becomes of runs and  *)
(* jobs.                                                                   *)
(***************************************************************************)
EXTENDS JobExecution, TLAPS

LEMMA FinishedType ==
  ASSUME TypeOK, NEW a \in Attempts, NEW why \in Reasons \ {"none"}
  PROVE  Finished(a, why) \in AttemptRecord
<1>1. attempt[a] \in AttemptRecord
  BY DEF TypeOK
<1>2. StatusFor(why) \in AttemptStatuses
  BY DEF StatusFor, Reasons, NonretryableOutcomes, AttemptStatuses, TerminalAttempts
<1> QED
  BY <1>1, <1>2 DEF Finished, AttemptRecord, Verifications

LEMMA EndedType ==
  ASSUME TypeOK, NEW j \in Jobs, NEW status \in JobStatuses
  PROVE  Ended(j, status) \in JobRecord
  BY DEF TypeOK, Ended, JobRecord, Leases

LEMMA ClosedType ==
  ASSUME TypeOK, NEW x \in Messages,
         NEW status \in {"pending", "delivered", "dead_letter", "obsolete"}
  PROVE  Closed(x, status) \in MessageRecord
  BY DEF TypeOK, Closed, MessageRecord, Leases

LEMMA EnqueuedType == Enqueued \in MessageRecord
  BY DEF Enqueued, NoMessage, MessageRecord, Leases

LEMMA NoAttemptType == NoAttempt \in AttemptRecord
<1>1. 0 \in Cursors
  BY JobExecutionAssumption DEF Cursors
<1> QED
  BY <1>1 DEF NoAttempt, AttemptRecord, AttemptStatuses, Reasons, Verifications

LEMMA EffectsAfterType ==
  ASSUME TypeOK, NEW over, NEW told
  PROVE  EffectsAfter(over, told) \in [Messages -> MessageRecord]
<1> SUFFICES ASSUME NEW x \in Messages
             PROVE EffectsAfter(over, told)[x] \in MessageRecord
  BY DEF EffectsAfter
<1>1. Closed(x, "obsolete") \in MessageRecord
  BY ClosedType
<1>2. outbox[x] \in MessageRecord
  BY DEF TypeOK
<1> QED
  BY <1>1, <1>2, EnqueuedType DEF EffectsAfter

LEMMA FailRunType ==
  ASSUME TypeOK, NEW a \in Attempts, NEW ended \in AttemptRecord, FailRun(a, ended)
  PROVE  /\ run' \in [Runs -> RunStatuses]
         /\ job' \in [Jobs -> JobRecord]
         /\ attempt' \in [Attempts -> AttemptRecord]
<1>1. run' \in [Runs -> RunStatuses]
  BY DEF FailRun, TypeOK, RunStatuses, TerminalRuns
<1>2. ASSUME NEW j \in Jobs
      PROVE  job'[j] \in JobRecord
  <2>1. Ended(j, "failed") \in JobRecord /\ Ended(j, "cancelled") \in JobRecord
    BY EndedType DEF JobStatuses, TerminalJobs
  <2> QED
    BY <2>1 DEF FailRun, TypeOK
<1>3. ASSUME NEW b \in Attempts
      PROVE  attempt'[b] \in AttemptRecord
  <2>1. Finished(b, "run_failed") \in AttemptRecord
    BY FinishedType DEF Reasons
  <2> QED
    BY <2>1 DEF FailRun, TypeOK
<1> QED
  BY <1>1, <1>2, <1>3 DEF FailRun

LEMMA FailAttemptType ==
  ASSUME TypeOK, NEW a \in Attempts, NEW ended \in AttemptRecord, FailAttempt(a, ended)
  PROVE  /\ run' \in [Runs -> RunStatuses]
         /\ job' \in [Jobs -> JobRecord]
         /\ attempt' \in [Attempts -> AttemptRecord]
<1>1. CASE Retryable(a)
  <2>1. [Ended(a[1], "retry_wait") EXCEPT !.due = FALSE] \in JobRecord
    <3>1. a[1] \in Jobs
      BY DEF Attempts
    <3>2. Ended(a[1], "retry_wait") \in JobRecord
      BY <3>1, EndedType DEF JobStatuses
    <3> QED
      BY <3>2 DEF JobRecord
  <2> QED
    BY <1>1, <2>1 DEF FailAttempt, TypeOK
<1>2. CASE ~Retryable(a)
  BY <1>2, FailRunType DEF FailAttempt
<1> QED
  BY <1>1, <1>2

LEMMA FailureEffectsType ==
  ASSUME TypeOK, NEW a \in Attempts, NEW why
  PROVE  FailureEffects(a, why) \in [Messages -> MessageRecord]
  BY EffectsAfterType DEF FailureEffects, RunFailedEffects

LEMMA OperatorType ==
  ASSUME TypeOK, NEW r \in Runs, OperatorStep(r)
  PROVE  TypeOK'
<1>1. CASE CreateRun(r)
  BY <1>1 DEF CreateRun, TypeOK, RunStatuses
<1>2. ASSUME Schedule(r) PROVE TypeOK'
  BY <1>2 DEF Schedule, TypeOK, RunStatuses, NoJob, JobRecord, JobStatuses, Leases
<1>3. CASE CancelRun(r)
  <2>1. run' \in [Runs -> RunStatuses]
    BY <1>3 DEF CancelRun, TypeOK, RunStatuses, TerminalRuns
  <2>2. ASSUME NEW j \in Jobs PROVE Ended(j, "cancelled") \in JobRecord
    BY EndedType DEF JobStatuses, TerminalJobs
  <2>3. ASSUME NEW a \in Attempts PROVE Finished(a, "operator_cancelled") \in AttemptRecord
    BY FinishedType DEF Reasons, NonretryableOutcomes
  <2>4. job' \in [Jobs -> JobRecord]
    BY <1>3, <2>2 DEF CancelRun, TypeOK
  <2>5. attempt' \in [Attempts -> AttemptRecord]
    BY <1>3, <2>3 DEF CancelRun, TypeOK
  <2>6. outbox' \in [Messages -> MessageRecord]
    BY <1>3, EffectsAfterType DEF CancelRun
  <2> QED
    BY <2>1, <2>4, <2>5, <2>6 DEF TypeOK
<1> QED
  BY <1>1, <1>2, <1>3 DEF OperatorStep, ScheduleRun, StartMilestone

LEMMA JobType ==
  ASSUME TypeOK, NEW o \in Owners, NEW j \in Jobs, JobStep(o, j)
  PROVE  TypeOK'
<1>1. Leased(j, o) \in JobRecord
  <2>1. job[j] \in JobRecord /\ job[j].fence + 1 \in Nat
    BY DEF TypeOK, JobRecord
  <2> QED
    BY <2>1 DEF Leased, JobRecord, JobStatuses, Leases
<1>2. ASSUME NEW r \in Runs, RunStarted(r) PROVE run' \in [Runs -> RunStatuses]
  BY <1>2 DEF RunStarted, TypeOK, RunStatuses
<1>3. RunOf[j] \in Runs
  BY JobExecutionAssumption
<1>4. CASE ResumeJob(o, j)
  BY <1>1, <1>2, <1>3, <1>4 DEF ResumeJob, TypeOK
<1>5. CASE AcquireJob(o, j)
  <2> DEFINE n == job[j].attempts + 1
  <2>1. n \in Nat
    BY DEF TypeOK, JobRecord
  <2>2. run' \in [Runs -> RunStatuses]
    BY <1>2, <1>3, <1>5 DEF AcquireJob
  <2>3. [Leased(j, o) EXCEPT !.attempts = n, !.active = n] \in JobRecord
    BY <1>1, <2>1 DEF JobRecord
  <2>4. [NoAttempt EXCEPT !.status = "starting"] \in AttemptRecord
    BY NoAttemptType DEF AttemptRecord, AttemptStatuses, LiveAttempts
  <2> QED
    BY <1>5, <2>2, <2>3, <2>4, EnqueuedType DEF AcquireJob, TypeOK
<1>6. ASSUME NEW f \in Fences, RenewJob(o, f, j) PROVE TypeOK'
  BY <1>6 DEF RenewJob, vars, TypeOK
<1>7. ASSUME NEW f \in Fences, ReleaseJob(o, f, j) PROVE TypeOK'
  <2>1. [job[j] EXCEPT !.owner = NoOwner, !.lease = "none"] \in JobRecord
    BY DEF TypeOK, JobRecord, Leases
  <2>2. job' = [job EXCEPT ![j] = [job[j] EXCEPT !.owner = NoOwner, !.lease = "none"]]
    BY <1>7 DEF ReleaseJob, TypeOK, JobRecord
  <2> QED
    BY <1>7, <2>1, <2>2 DEF ReleaseJob, TypeOK
<1> QED
  BY <1>4, <1>5, <1>6, <1>7 DEF JobStep

LEMMA RequestVerificationType ==
  ASSUME TypeOK, NEW a \in Attempts, NEW to \in AttemptRecord, RequestVerification(a, to)
  PROVE  TypeOK'
<1>1. [to EXCEPT !.status = "verifying", !.verification = "requested"] \in AttemptRecord
  BY DEF AttemptRecord, AttemptStatuses, LiveAttempts, Verifications
<1> QED
  BY <1>1, EnqueuedType DEF RequestVerification, TypeOK

LEMMA AttemptType ==
  ASSUME TypeOK, NEW o \in Owners, NEW f \in Fences, NEW a \in Attempts, AttemptStep(o, f, a)
  PROVE  TypeOK'
<1>0. attempt[a] \in AttemptRecord
  BY DEF TypeOK
<1>1. ASSUME NEW why \in Reasons \ {"none"}, NEW ended \in AttemptRecord,
             FailAttempt(a, ended), outbox' = FailureEffects(a, why)
      PROVE  TypeOK'
  BY <1>1, FailAttemptType, FailureEffectsType DEF TypeOK
<1>2. ASSUME NEW after \in Cursors, NEW n \in 1..EventLimit, ObserveDriverEvents(o, f, a, after, n)
      PROVE  TypeOK'
  <2>1. after + n \in Cursors
    BY <1>2, JobExecutionAssumption DEF ObserveDriverEvents, Cursors
  <2>2. [attempt[a] EXCEPT !.cursor = after + n] \in AttemptRecord
    BY <1>0, <2>1 DEF AttemptRecord
  <2> QED
    BY <1>2, <2>2 DEF ObserveDriverEvents, TypeOK
<1>3. ASSUME NEW outcome \in ReceiptOutcomes, NEW count \in Cursors,
             RecordDriverReceipt(o, f, a, outcome, count)
      PROVE  TypeOK'
  <2>1. CASE outcome = "succeeded"
    <3>1. [attempt[a] EXCEPT !.receipt = outcome] \in AttemptRecord
      BY <1>0 DEF AttemptRecord
    <3> QED
      BY <1>3, <2>1, <3>1, RequestVerificationType DEF RecordDriverReceipt, NonretryableOutcomes
  <2>2. CASE outcome \in {"failed", "timed_out"}
    <3> DEFINE why == IF outcome = "timed_out" THEN "timed_out" ELSE "driver_error"
    <3>1. why \in Reasons \ {"none"}
      BY DEF Reasons
    <3>2. [Finished(a, why) EXCEPT !.receipt = outcome] \in AttemptRecord
      BY <3>1, FinishedType DEF AttemptRecord
    <3> QED
      BY <1>1, <1>3, <2>2, <3>1, <3>2 DEF RecordDriverReceipt, NonretryableOutcomes
  <2>3. CASE outcome \in NonretryableOutcomes
    <3>1. outcome \in Reasons \ {"none"}
      BY <2>3 DEF Reasons, NonretryableOutcomes
    <3>2. [Finished(a, outcome) EXCEPT !.receipt = outcome] \in AttemptRecord
      BY <3>1, FinishedType DEF AttemptRecord
    <3>3. FailRun(a, [Finished(a, outcome) EXCEPT !.receipt = outcome])
      BY <1>3, <2>3 DEF RecordDriverReceipt, NonretryableOutcomes
    <3>4. outbox' \in [Messages -> MessageRecord]
      BY <1>3, <2>3, EffectsAfterType DEF RecordDriverReceipt, NonretryableOutcomes, RunFailedEffects
    <3> QED
      BY <3>2, <3>3, <3>4, FailRunType DEF TypeOK
  <2> QED
    BY <2>1, <2>2, <2>3 DEF ReceiptOutcomes
<1>4. ASSUME NEW outcome \in {"succeeded", "failed"}, ObserveAttempt(o, f, a, outcome)
      PROVE  TypeOK'
  <2>1. "driver_error" \in Reasons \ {"none"}
    BY DEF Reasons
  <2>2. Finished(a, "driver_error") \in AttemptRecord
    BY <2>1, FinishedType
  <2> QED
    BY <1>0, <1>1, <1>4, <2>1, <2>2, RequestVerificationType DEF ObserveAttempt
<1>5. ASSUME TimeoutAttempt(o, f, a)
      PROVE  TypeOK'
  <2>1. "timed_out" \in Reasons \ {"none"}
    BY DEF Reasons
  <2>2. Finished(a, "timed_out") \in AttemptRecord
    BY <2>1, FinishedType
  <2> QED
    BY <1>1, <1>5, <2>1, <2>2 DEF TimeoutAttempt
<1> QED
  BY <1>2, <1>3, <1>4, <1>5 DEF AttemptStep

LEMMA VerificationType ==
  ASSUME TypeOK, NEW o \in Owners, NEW f \in Fences, NEW g \in Deliveries, NEW a \in Attempts,
         VerificationStep(o, f, g, a)
  PROVE  TypeOK'
<1> DEFINE delivered == Closed(<<a, "verify">>, "delivered")
<1>1. delivered \in MessageRecord
  <2>1. <<a, "verify">> \in Messages
    BY DEF Messages, Effects
  <2> QED
    BY <2>1, ClosedType
<1>2. ASSUME NEW outcome \in {"passed", "failed", "invalid"},
             CompleteVerification(o, f, g, a, outcome)
      PROVE  TypeOK'
  <2>1. ASSUME NEW why \in Reasons \ {"none"}
        PROVE  [Finished(a, why) EXCEPT !.verification = outcome] \in AttemptRecord
    BY FinishedType DEF AttemptRecord, Verifications
  <2>2. CASE outcome = "passed"
    <3>1. [Finished(a, "completed") EXCEPT !.verification = outcome] \in AttemptRecord
      BY <2>1 DEF Reasons
    <3>2. ASSUME NEW j \in Jobs, SucceedJob(j)
          PROVE  run' \in [Runs -> RunStatuses] /\ job' \in [Jobs -> JobRecord]
      <4>1. ASSUME NEW k \in Jobs PROVE Ended(k, "succeeded") \in JobRecord
        BY EndedType DEF JobStatuses, TerminalJobs
      <4>2. ASSUME NEW k \in Jobs
            PROVE  [job[k] EXCEPT !.status = "ready", !.due = TRUE] \in JobRecord
        BY DEF TypeOK, JobRecord, JobStatuses
      <4> QED
        BY <3>2, <4>1, <4>2 DEF SucceedJob, TypeOK, RunStatuses, TerminalRuns
    <3>3. a[1] \in Jobs
      BY DEF Attempts
    <3> QED
      BY <1>1, <1>2, <2>2, <3>1, <3>2, <3>3 DEF CompleteVerification, TypeOK
  <2>3. CASE outcome \in {"failed", "invalid"}
    <3> DEFINE why == IF outcome = "failed" THEN "verification_failed" ELSE "verification_invalid"
               gone == ActiveAttempts(Siblings(a))
               ended == [Finished(a, why) EXCEPT !.verification = outcome]
    <3>1. ended \in AttemptRecord
      BY <2>1 DEF Reasons
    <3>2. FailRun(a, ended)
      BY <1>2, <2>3 DEF CompleteVerification
    <3>3. outbox' \in [Messages -> MessageRecord]
      <4>1. EffectsAfter(gone, Known(gone)) \in [Messages -> MessageRecord]
        BY EffectsAfterType
      <4> HIDE DEF gone
      <4> QED
        BY <1>1, <1>2, <2>3, <4>1 DEF CompleteVerification, gone
    <3> QED
      BY <3>1, <3>2, <3>3, FailRunType DEF TypeOK
  <2> QED
    BY <2>2, <2>3
<1>3. ASSUME NEW why \in {"timed_out", "driver_error"}, FailVerification(o, f, g, a, why)
      PROVE  TypeOK'
  <2>1. Finished(a, why) \in AttemptRecord
    BY FinishedType DEF Reasons
  <2> QED
    BY <1>3, <2>1, FailAttemptType, FailureEffectsType DEF FailVerification, TypeOK
<1> QED
  BY <1>2, <1>3 DEF VerificationStep

LEMMA DeliveryType ==
  ASSUME TypeOK, NEW o \in Owners, NEW g \in Deliveries, NEW a \in Attempts,
         DeliveryStep(o, g, a)
  PROVE  TypeOK'
<1>0. /\ attempt[a] \in AttemptRecord
      /\ \A e \in Effects : <<a, e>> \in Messages
  BY DEF TypeOK, Messages
<1>1. CASE DeliverStart(o, g, a)
  <2>1. attempt' \in [Attempts -> AttemptRecord]
    <3>1. [attempt EXCEPT ![a].status = "running", ![a].external = TRUE]
            \in [Attempts -> AttemptRecord]
      BY DEF TypeOK, AttemptRecord, AttemptStatuses, LiveAttempts
    <3> QED
      BY <1>1, <3>1 DEF DeliverStart, TypeOK
  <2>2. outbox' \in [Messages -> MessageRecord]
    <3>1. EffectsAfter({}, {a}) \in [Messages -> MessageRecord]
      BY EffectsAfterType
    <3>2. Closed(<<a, "start">>, "delivered") \in MessageRecord
      BY <1>0, ClosedType DEF Effects
    <3> QED
      BY <1>1, <3>1, <3>2 DEF DeliverStart, TypeOK
  <2> QED
    BY <1>1, <2>1, <2>2 DEF DeliverStart, TypeOK
<1>2. CASE DeliverCancel(o, g, a)
  <2>1. Closed(<<a, "cancel">>, "delivered") \in MessageRecord
    BY <1>0, ClosedType DEF Effects
  <2> QED
    BY <1>2, <2>1 DEF DeliverCancel, TypeOK
<1>3. ASSUME NEW e \in Effects, RetryDelivery(o, g, <<a, e>>) PROVE TypeOK'
  <2>1. [Closed(<<a, e>>, "pending") EXCEPT !.due = FALSE] \in MessageRecord
    <3>1. Closed(<<a, e>>, "pending") \in MessageRecord
      BY <1>0, ClosedType
    <3> QED
      BY <3>1 DEF MessageRecord
  <2> QED
    BY <1>3, <2>1 DEF RetryDelivery, TypeOK
<1>4. ASSUME NEW e \in Effects, DeadLetter(o, g, <<a, e>>) PROVE TypeOK'
  <2>1. Closed(<<a, e>>, "dead_letter") \in MessageRecord
    BY <1>0, ClosedType
  <2>2. Finished(a, "driver_error") \in AttemptRecord
    BY FinishedType DEF Reasons
  <2>3. CASE e # "cancel" /\ attempt[a].status \notin TerminalAttempts
    <3>1. FailAttempt(a, Finished(a, "driver_error"))
      BY <1>4, <2>3 DEF DeadLetter
    <3>2. outbox' = [FailureEffects(a, "driver_error")
                     EXCEPT ![<<a, e>>] = Closed(<<a, e>>, "dead_letter")]
      BY <1>4, <2>3 DEF DeadLetter
    <3> QED
      BY <2>1, <2>2, <3>1, <3>2, FailAttemptType, FailureEffectsType DEF TypeOK
  <2>4. CASE ~(e # "cancel" /\ attempt[a].status \notin TerminalAttempts)
    BY <1>4, <2>1, <2>4 DEF DeadLetter, TypeOK
  <2> QED
    BY <2>3, <2>4
<1>5. ASSUME NEW outcome \in ReceiptOutcomes, NEW count \in Cursors,
             RecordTerminalReceipt(o, g, a, outcome, count)
      PROVE  TypeOK'
  BY <1>0, <1>5 DEF RecordTerminalReceipt, TypeOK, AttemptRecord
<1> QED
  BY <1>1, <1>2, <1>3, <1>4, <1>5 DEF DeliveryStep

LEMMA AcquireMessageType ==
  ASSUME TypeOK, NEW o \in Owners, NEW x \in Messages, AcquireMessage(o, x)
  PROVE  TypeOK'
<1>1. Closed(x, "obsolete") \in MessageRecord
  BY ClosedType
<1>2. Taken(x, o) \in MessageRecord
  <2>1. outbox[x] \in MessageRecord /\ outbox[x].deliveries + 1 \in Nat
    BY DEF TypeOK, MessageRecord
  <2> QED
    BY <2>1 DEF Taken, MessageRecord, Leases
<1> QED
  BY <1>1, <1>2 DEF AcquireMessage, TypeOK

LEMMA ClockType ==
  ASSUME TypeOK, ClockStep
  PROVE  TypeOK'
<1>1. ASSUME NEW j \in Jobs, ExpireJobLease(j) \/ JobBecomesDue(j) PROVE TypeOK'
  <2>1. /\ [job EXCEPT ![j].lease = "expired"] \in [Jobs -> JobRecord]
        /\ [job EXCEPT ![j].due = TRUE] \in [Jobs -> JobRecord]
    BY DEF TypeOK, JobRecord, Leases
  <2> QED
    BY <1>1, <2>1 DEF ExpireJobLease, JobBecomesDue, TypeOK
<1>2. ASSUME NEW x \in Messages, ExpireMessageLease(x) \/ MessageBecomesDue(x) PROVE TypeOK'
  <2>1. /\ [outbox EXCEPT ![x].lease = "expired"] \in [Messages -> MessageRecord]
        /\ [outbox EXCEPT ![x].due = TRUE] \in [Messages -> MessageRecord]
    BY DEF TypeOK, MessageRecord, Leases
  <2> QED
    BY <1>2, <2>1 DEF ExpireMessageLease, MessageBecomesDue, TypeOK
<1>3. ASSUME NEW a \in Attempts, DeadlinePasses(a) PROVE TypeOK'
  BY <1>3 DEF DeadlinePasses, TypeOK, AttemptRecord
<1> QED
  BY <1>1, <1>2, <1>3 DEF ClockStep

LEMMA InitType == Init => TypeOK
<1>1. NoJob \in JobRecord
  BY DEF NoJob, JobRecord, JobStatuses, Leases
<1>2. NoMessage \in MessageRecord
  BY DEF NoMessage, MessageRecord, Leases
<1> QED
  BY <1>1, <1>2, NoAttemptType DEF Init, TypeOK, RunStatuses

LEMMA NextType == TypeOK /\ [Next]_vars => TypeOK'
<1> SUFFICES ASSUME TypeOK, [Next]_vars PROVE TypeOK'
  OBVIOUS
<1>1. CASE UNCHANGED vars
  BY <1>1 DEF vars, TypeOK
<1>2. ASSUME NEW o \in Owners, SupervisorStep(o) PROVE TypeOK'
  BY <1>2, JobType, AcquireMessageType, AttemptType, DeliveryType, VerificationType
  DEF SupervisorStep
<1> QED
  BY <1>1, <1>2, OperatorType, ClockType DEF Next

\* The state of the execution core is well formed after any commands, however
\* many runs, jobs, supervisors and attempts there are.
THEOREM TypeCorrect == Spec => []TypeOK
  BY InitType, NextType, PTL DEF Spec

-----------------------------------------------------------------------------
(* An inductive invariant: what makes an attempt the only one of its job,  *)
(* what makes a run quiet when it is over and why nothing is left of an    *)
(* attempt that ended are one argument, since each command that ends       *)
(* attempts has to close their jobs, their verifications and their effects *)
(* together.                                                               *)

\* Only an active job is leased.
LeasedJobsAreActive ==
  \A j \in Jobs : job[j].lease # "none" => job[j].status = "active"

\* Only an effect that is being delivered is leased.
LeasedEffectsAreTaken ==
  \A x \in Messages : outbox[x].lease # "none" => outbox[x].status = "leased"

\* The jobs of a run exist from the command that schedules it.
UnscheduledRunsAreEmpty ==
  \A r \in Runs : run[r] \in {"absent", "created"} =>
    \A j \in JobsOf(r) : job[j].status = "absent" /\ job[j].attempts = 0

\* A driver that has the attempt is not asked to start it again.
StartedAttemptsHaveNoStart ==
  \A a \in Attempts : attempt[a].status \in {"running", "verifying"} =>
    outbox[<<a, "start">>].status \notin Open

JobsInv    == OneLiveAttempt /\ LeasedJobsAreActive
RunsInv    == QuiescentRun /\ UnscheduledRunsAreEmpty
EffectsInv == /\ NothingOutlivesItsAttempt /\ NoStrandedAttempt
              /\ LeasedEffectsAreTaken /\ StartedAttemptsHaveNoStart

Inv == TypeOK /\ JobsInv /\ RunsInv /\ EffectsInv

-----------------------------------------------------------------------------
(* The shape of every command that ends the attempts of a set E: `over'    *)
(* are the attempts, `settled' the effects and `closed' the jobs after it. *)

DoneRecord(rec) ==
  rec.status \notin LiveAttempts \cup {"absent"} /\ rec.verification # "requested"

EndedAttempts(E, over) ==
  \A b \in Attempts : IF b \in E THEN DoneRecord(over[b]) ELSE over[b] = attempt[b]

Settled(E, settled) ==
  /\ \A b \in Attempts : \A e \in {"start", "verify"} :
       IF b \in E THEN settled[<<b, e>>].status \notin Open
                  ELSE settled[<<b, e>>] = outbox[<<b, e>>]
  /\ \A x \in Messages : settled[x].lease # "none" => settled[x].status = "leased"

ClosedJobs(E, closed) ==
  \A j \in Jobs :
    /\ closed[j].attempts = job[j].attempts
    /\ closed[j].active \in {0, job[j].active}
    /\ closed[j].status = "active" <=> closed[j].active # 0
    /\ closed[j].lease # "none" => closed[j].status = "active"
    /\ \A n \in Ordinals : <<j, n>> \in E <=> job[j].active = n /\ closed[j].active = 0

LEMMA AttemptIsPair ==
  ASSUME NEW a \in Attempts
  PROVE  a[1] \in Jobs /\ a[2] \in Ordinals /\ a = <<a[1], a[2]>> /\ a[2] # 0
  BY JobExecutionAssumption DEF Attempts, Ordinals

LEMMA EffectIsMessage ==
  ASSUME NEW a \in Attempts, NEW e \in Effects
  PROVE  <<a, e>> \in Messages
  BY DEF Messages

LEMMA EndingKeepsEffects ==
  ASSUME EffectsInv, NEW E, EndedAttempts(E, attempt'), Settled(E, outbox')
  PROVE  EffectsInv'
<1>1. ASSUME NEW a \in Attempts, a \in E
      PROVE  /\ attempt'[a].status \notin LiveAttempts
             /\ attempt'[a].verification # "requested"
             /\ \A e \in {"start", "verify"} : outbox'[<<a, e>>].status \notin Open
  BY <1>1 DEF EndedAttempts, Settled, DoneRecord
<1>2. ASSUME NEW a \in Attempts, a \notin E
      PROVE  /\ attempt'[a] = attempt[a]
             /\ outbox'[<<a, "start">>] = outbox[<<a, "start">>]
             /\ outbox'[<<a, "verify">>] = outbox[<<a, "verify">>]
  BY <1>2 DEF EndedAttempts, Settled
<1>3. NothingOutlivesItsAttempt'
  BY <1>1, <1>2 DEF EffectsInv, NothingOutlivesItsAttempt
<1>4. NoStrandedAttempt'
  BY <1>1, <1>2 DEF EffectsInv, NoStrandedAttempt, LiveAttempts
<1>5. StartedAttemptsHaveNoStart'
  BY <1>1, <1>2 DEF EffectsInv, StartedAttemptsHaveNoStart
<1>6. LeasedEffectsAreTaken'
  BY DEF Settled, LeasedEffectsAreTaken
<1> QED
  BY <1>3, <1>4, <1>5, <1>6 DEF EffectsInv

LEMMA EndingKeepsJobs ==
  ASSUME JobsInv, NEW E, EndedAttempts(E, attempt'), ClosedJobs(E, job')
  PROVE  JobsInv'
<1>1. ASSUME NEW j \in Jobs
      PROVE  /\ job'[j].status = "active" <=> job'[j].active # 0
             /\ job'[j].active \in {0, job'[j].attempts}
             /\ job'[j].lease # "none" => job'[j].status = "active"
  BY DEF JobsInv, OneLiveAttempt, ClosedJobs
<1>2. ASSUME NEW a \in Attempts
      PROVE  /\ attempt'[a].status \in LiveAttempts <=> job'[a[1]].active = a[2]
             /\ attempt'[a].status = "absent" <=> a[2] > job'[a[1]].attempts
  <2>1. a[1] \in Jobs /\ a[2] \in Ordinals /\ a = <<a[1], a[2]>> /\ a[2] # 0
    BY AttemptIsPair
  <2>2. /\ attempt[a].status \in LiveAttempts <=> job[a[1]].active = a[2]
        /\ attempt[a].status = "absent" <=> a[2] > job[a[1]].attempts
    BY DEF JobsInv, OneLiveAttempt, IsActive
  <2>3. /\ job'[a[1]].attempts = job[a[1]].attempts
        /\ job'[a[1]].active \in {0, job[a[1]].active}
        /\ a \in E <=> job[a[1]].active = a[2] /\ job'[a[1]].active = 0
    BY <2>1 DEF ClosedJobs
  <2>4. CASE a \in E
    <3>1. attempt'[a].status \notin LiveAttempts \cup {"absent"}
      BY <2>4 DEF EndedAttempts, DoneRecord
    <3>2. attempt[a].status # "absent"
      BY <2>2, <2>3, <2>4 DEF LiveAttempts
    <3> QED
      BY <2>1, <2>2, <2>3, <2>4, <3>1, <3>2
  <2>5. CASE a \notin E
    BY <2>1, <2>2, <2>3, <2>5 DEF EndedAttempts
  <2> QED
    BY <2>4, <2>5
<1> QED
  BY <1>1, <1>2 DEF JobsInv, OneLiveAttempt, LeasedJobsAreActive, IsActive

-----------------------------------------------------------------------------
(* The helpers of the commands have that shape.                            *)

LEMMA FinishedIsDone ==
  ASSUME TypeOK, NEW a \in Attempts, NEW why \in Reasons \ {"none"}
  PROVE  DoneRecord(Finished(a, why)) /\ Finished(a, why) \in AttemptRecord
<1>1. Finished(a, why) \in AttemptRecord
  BY FinishedType
<1>2. attempt[a] \in AttemptRecord
  BY DEF TypeOK
<1>3. StatusFor(why) \notin LiveAttempts \cup {"absent"}
  BY DEF StatusFor, Reasons, NonretryableOutcomes, LiveAttempts
<1> QED
  BY <1>1, <1>2, <1>3 DEF DoneRecord, Finished, AttemptRecord

LEMMA EffectsAfterSettled ==
  ASSUME TypeOK, LeasedEffectsAreTaken, NEW over, NEW told
  PROVE  Settled(over, EffectsAfter(over, told))
<1> DEFINE out == EffectsAfter(over, told)
<1>1. ASSUME NEW b \in Attempts, NEW e \in {"start", "verify"}
      PROVE  IF b \in over THEN out[<<b, e>>].status \notin Open
                           ELSE out[<<b, e>>] = outbox[<<b, e>>]
  <2>1. <<b, e>> \in Messages /\ outbox[<<b, e>>] \in MessageRecord
    BY EffectIsMessage DEF Effects, TypeOK
  <2>2. Closed(<<b, e>>, "obsolete").status = "obsolete"
    BY <2>1 DEF Closed, MessageRecord
  <2> QED
    BY <2>1, <2>2 DEF EffectsAfter, Open
<1>2. ASSUME NEW x \in Messages
      PROVE  out[x].lease # "none" => out[x].status = "leased"
  <2>1. outbox[x] \in MessageRecord
    BY DEF TypeOK
  <2>2. Closed(x, "obsolete").lease = "none" /\ Enqueued.lease = "none"
    BY <2>1 DEF Closed, MessageRecord, Enqueued, NoMessage
  <2> QED
    BY <2>2 DEF EffectsAfter, LeasedEffectsAreTaken
<1> QED
  BY <1>1, <1>2 DEF Settled

\* One of the effects of an ended attempt may be closed in another way.
LEMMA SettledAndClosed ==
  ASSUME TypeOK, NEW E, NEW out \in [Messages -> MessageRecord], Settled(E, out),
         NEW a \in E, NEW e \in Effects, <<a, e>> \in Messages,
         NEW status \in {"delivered", "dead_letter", "obsolete"}
  PROVE  Settled(E, [out EXCEPT ![<<a, e>>] = Closed(<<a, e>>, status)])
<1>1. /\ Closed(<<a, e>>, status).lease = "none"
      /\ Closed(<<a, e>>, status).status = status
  BY DEF TypeOK, MessageRecord, Closed
<1> QED
  BY <1>1, EffectIsMessage DEF Settled, Effects, Open

LEMMA EndedIsClosed ==
  ASSUME TypeOK, NEW j \in Jobs, NEW status \in JobStatuses
  PROVE  /\ Ended(j, status).status = status /\ Ended(j, status).active = 0
         /\ Ended(j, status).lease = "none" /\ Ended(j, status).attempts = job[j].attempts
  BY DEF TypeOK, JobRecord, Ended

\* The attempts that go down with a set of jobs are the active ones.
LEMMA ActiveAttemptsAreLive ==
  ASSUME JobsInv, NEW K, NEW b \in Attempts
  PROVE  b \in ActiveAttempts(K) <=> b[1] \in K /\ IsActive(b)
  BY DEF JobsInv, OneLiveAttempt, ActiveAttempts, LiveAttempts, TerminalAttempts

\* Failing and cancelling a run both close all its open jobs.
LEMMA RunOverClosesJobs ==
  ASSUME Inv, NEW r \in Runs, NEW how \in TerminalRuns,
         run' = [run EXCEPT ![r] = how],
         \A j \in Jobs : IF j \in OpenJobs(r) THEN \E s \in TerminalJobs : job'[j] = Ended(j, s)
                                              ELSE job'[j] = job[j]
  PROVE  ClosedJobs(ActiveAttempts(OpenJobs(r)), job') /\ RunsInv'
<1> DEFINE E == ActiveAttempts(OpenJobs(r))
<1>1. ASSUME NEW j \in Jobs, j \in OpenJobs(r)
      PROVE  /\ job'[j].attempts = job[j].attempts /\ job'[j].active = 0
             /\ job'[j].lease = "none" /\ job'[j].status \in TerminalJobs
  BY <1>1, EndedIsClosed DEF Inv, TerminalJobs, JobStatuses
<1>2. ASSUME NEW j \in Jobs, j \notin OpenJobs(r)
      PROVE  job'[j] = job[j]
  BY <1>2
<1>3. ASSUME NEW j \in Jobs
      PROVE  /\ job[j].status = "active" <=> job[j].active # 0
             /\ job[j].lease # "none" => job[j].status = "active"
  BY DEF Inv, JobsInv, OneLiveAttempt, LeasedJobsAreActive
<1>4. ASSUME NEW j \in Jobs, NEW n \in Ordinals
      PROVE  <<j, n>> \in E <=> j \in OpenJobs(r) /\ job[j].active = n
  <2>1. <<j, n>> \in Attempts
    BY DEF Attempts
  <2> QED
    BY <2>1, ActiveAttemptsAreLive DEF Inv, IsActive
<1>5. ClosedJobs(E, job')
  <2> SUFFICES ASSUME NEW j \in Jobs
               PROVE  /\ job'[j].attempts = job[j].attempts
                      /\ job'[j].active \in {0, job[j].active}
                      /\ job'[j].status = "active" <=> job'[j].active # 0
                      /\ job'[j].lease # "none" => job'[j].status = "active"
                      /\ \A n \in Ordinals : <<j, n>> \in E
                                             <=> job[j].active = n /\ job'[j].active = 0
    BY DEF ClosedJobs
  <2>1. \A n \in Ordinals : n # 0
    BY DEF Ordinals
  <2>2. CASE j \in OpenJobs(r)
    BY <1>1, <1>4, <2>2 DEF TerminalJobs
  <2>3. CASE j \notin OpenJobs(r)
    BY <1>2, <1>3, <1>4, <2>1, <2>3
  <2> QED
    BY <2>2, <2>3
<1>6. QuiescentRun'
  <2> SUFFICES ASSUME NEW q \in Runs, run'[q] \in TerminalRuns, NEW j \in JobsOf(q)
               PROVE  /\ job'[j].status \in TerminalJobs \cup {"absent"}
                      /\ job'[j].lease = "none" /\ job'[j].active = 0
    BY DEF QuiescentRun, JobsOf
  <2>0. j \in Jobs /\ RunOf[j] = q
    BY DEF JobsOf
  <2>1. CASE j \in OpenJobs(r)
    BY <1>1, <2>0, <2>1
  <2>2. CASE q = r /\ j \notin OpenJobs(r)
    <3>1. job[j].status \in TerminalJobs \cup {"absent"}
      BY <2>0, <2>2 DEF OpenJobs, JobsOf
    <3> QED
      BY <1>2, <1>3, <2>0, <2>2, <3>1 DEF TerminalJobs
  <2>3. CASE q # r
    <3>1. run[q] \in TerminalRuns /\ j \notin OpenJobs(r)
      BY <2>0, <2>3 DEF OpenJobs, JobsOf, Inv, TypeOK
    <3> QED
      BY <1>2, <2>0, <3>1 DEF Inv, RunsInv, QuiescentRun
  <2> QED
    BY <2>1, <2>2, <2>3
<1>7. UnscheduledRunsAreEmpty'
  <2> SUFFICES ASSUME NEW q \in Runs, run'[q] \in {"absent", "created"}, NEW j \in JobsOf(q)
               PROVE  job'[j].status = "absent" /\ job'[j].attempts = 0
    BY DEF UnscheduledRunsAreEmpty, JobsOf
  <2>1. q # r
    BY DEF TerminalRuns, Inv, TypeOK
  <2>2. run[q] = run'[q] /\ j \in Jobs /\ j \notin OpenJobs(r)
    BY <2>1 DEF OpenJobs, JobsOf, Inv, TypeOK
  <2> QED
    BY <1>2, <2>2 DEF Inv, RunsInv, UnscheduledRunsAreEmpty
<1> QED
  BY <1>5, <1>6, <1>7 DEF RunsInv

-----------------------------------------------------------------------------
(* The commands that end attempts.                                         *)

LEMMA CancelRunKeepsInv ==
  ASSUME Inv, NEW r \in Runs, CancelRun(r)
  PROVE  JobsInv' /\ RunsInv' /\ EffectsInv'
<1> DEFINE E == ActiveAttempts(OpenJobs(r))
<1>1. ClosedJobs(E, job') /\ RunsInv'
  <2>1. "cancelled" \in TerminalRuns /\ "cancelled" \in TerminalJobs
    BY DEF TerminalRuns, TerminalJobs
  <2> QED
    BY <2>1, RunOverClosesJobs DEF CancelRun
<1>2. EndedAttempts(E, attempt')
  <2>1. "operator_cancelled" \in Reasons \ {"none"}
    BY DEF Reasons, NonretryableOutcomes
  <2> QED
    BY <2>1, FinishedIsDone DEF CancelRun, EndedAttempts, Inv
<1>3. Settled(E, outbox')
  BY EffectsAfterSettled DEF CancelRun, Inv, EffectsInv
<1> QED
  BY <1>1, <1>2, <1>3, EndingKeepsEffects, EndingKeepsJobs DEF Inv

\* Runs that are over or not yet scheduled are undisturbed while their jobs are.
LEMMA SameJobsKeepRuns ==
  ASSUME Inv,
         \A q \in Runs : run'[q] \in TerminalRuns \cup {"absent", "created"} =>
           /\ run[q] \in TerminalRuns <=> run'[q] \in TerminalRuns
           /\ \A j \in JobsOf(q) : job'[j] = job[j],
         \A q \in Runs : run'[q] \in {"absent", "created"} => run[q] \in {"absent", "created"}
  PROVE  RunsInv'
<1>1. QuiescentRun'
  <2> SUFFICES ASSUME NEW q \in Runs, run'[q] \in TerminalRuns, NEW j \in JobsOf(q)
               PROVE  /\ job'[j].status \in TerminalJobs \cup {"absent"}
                      /\ job'[j].lease = "none" /\ job'[j].active = 0
    BY DEF QuiescentRun, JobsOf
  <2>1. run[q] \in TerminalRuns /\ job'[j] = job[j]
    OBVIOUS
  <2> QED
    BY <2>1 DEF Inv, RunsInv, QuiescentRun
<1>2. UnscheduledRunsAreEmpty'
  <2> SUFFICES ASSUME NEW q \in Runs, run'[q] \in {"absent", "created"}, NEW j \in JobsOf(q)
               PROVE  job'[j].status = "absent" /\ job'[j].attempts = 0
    BY DEF UnscheduledRunsAreEmpty, JobsOf
  <2>1. run[q] \in {"absent", "created"} /\ job'[j] = job[j]
    OBVIOUS
  <2> QED
    BY <2>1 DEF Inv, RunsInv, UnscheduledRunsAreEmpty
<1> QED
  BY <1>1, <1>2 DEF RunsInv

\* A live attempt is that of an open job.
LEMMA LiveAttemptIsActive ==
  ASSUME Inv, NEW a \in Attempts, attempt[a].status \in LiveAttempts
  PROVE  /\ IsActive(a) /\ a[1] \in OpenJobs(RunOf[a[1]])
         /\ RunOf[a[1]] \in Runs /\ run[RunOf[a[1]]] \notin TerminalRuns
<1>1. a[1] \in Jobs /\ a[2] # 0
  BY AttemptIsPair
<1>2. IsActive(a) /\ job[a[1]].status = "active"
  BY <1>1 DEF Inv, JobsInv, OneLiveAttempt, IsActive
<1>3. RunOf[a[1]] \in Runs /\ a[1] \in JobsOf(RunOf[a[1]])
  BY <1>1, JobExecutionAssumption DEF JobsOf
<1> QED
  BY <1>1, <1>2, <1>3 DEF OpenJobs, TerminalJobs, Inv, RunsInv, QuiescentRun, IsActive

LEMMA FailRunShape ==
  ASSUME Inv, NEW a \in Attempts, attempt[a].status \in LiveAttempts,
         NEW ended, DoneRecord(ended), FailRun(a, ended)
  PROVE  /\ JobsInv' /\ RunsInv'
         /\ EndedAttempts({a} \cup ActiveAttempts(Siblings(a)), attempt')
<1> DEFINE r == RunOf[a[1]]
           E == ActiveAttempts(OpenJobs(r))
<1>1. /\ IsActive(a) /\ a[1] \in OpenJobs(r) /\ r \in Runs /\ a[1] \in Jobs
  BY LiveAttemptIsActive, AttemptIsPair
<1>2. E = {a} \cup ActiveAttempts(Siblings(a))
  <2>1. ASSUME NEW b \in Attempts
        PROVE  b \in E <=> b = a \/ b \in ActiveAttempts(Siblings(a))
    <3>1. /\ b \in E <=> b[1] \in OpenJobs(r) /\ IsActive(b)
          /\ b \in ActiveAttempts(Siblings(a)) <=> b[1] \in Siblings(a) /\ IsActive(b)
      BY ActiveAttemptsAreLive DEF Inv
    <3>2. b[1] = a[1] /\ IsActive(b) <=> b = a
      BY <1>1, AttemptIsPair DEF IsActive
    <3> QED
      BY <1>1, <3>1, <3>2 DEF Siblings
  <2>2. E \subseteq Attempts /\ ActiveAttempts(Siblings(a)) \subseteq Attempts
    BY DEF ActiveAttempts
  <2> QED
    BY <2>1, <2>2
<1>3. ClosedJobs(E, job') /\ RunsInv'
  <2>1. \A j \in Jobs : IF j \in OpenJobs(r) THEN \E s \in TerminalJobs : job'[j] = Ended(j, s)
                                              ELSE job'[j] = job[j]
    BY <1>1 DEF FailRun, Siblings, TerminalJobs
  <2>2. run' = [run EXCEPT ![r] = "failed"] /\ "failed" \in TerminalRuns
    BY DEF FailRun, TerminalRuns
  <2> QED
    BY <1>1, <2>1, <2>2, RunOverClosesJobs
<1>4. EndedAttempts(E, attempt')
  <2>1. "run_failed" \in Reasons \ {"none"}
    BY DEF Reasons
  <2> QED
    BY <1>2, <2>1, FinishedIsDone DEF FailRun, EndedAttempts, Inv
<1> QED
  BY <1>2, <1>3, <1>4, EndingKeepsJobs DEF Inv

\* A failure that leaves a retry closes one attempt and frees its job.
LEMMA RetryShape ==
  ASSUME Inv, NEW a \in Attempts, attempt[a].status \in LiveAttempts,
         NEW ended, DoneRecord(ended), FailAttempt(a, ended), Retryable(a)
  PROVE  JobsInv' /\ RunsInv' /\ EndedAttempts({a}, attempt')
<1> DEFINE waiting == [Ended(a[1], "retry_wait") EXCEPT !.due = FALSE]
<1>1. /\ IsActive(a) /\ a[1] \in Jobs /\ RunOf[a[1]] \in Runs
      /\ a[1] \in OpenJobs(RunOf[a[1]]) /\ run[RunOf[a[1]]] \notin TerminalRuns
  BY LiveAttemptIsActive, AttemptIsPair
<1>2. job' = [job EXCEPT ![a[1]] = waiting] /\ attempt' = [attempt EXCEPT ![a] = ended]
      /\ run' = run
  BY DEF FailAttempt
<1>3. /\ waiting.status = "retry_wait" /\ waiting.active = 0
      /\ waiting.lease = "none" /\ waiting.attempts = job[a[1]].attempts
  <2>1. Ended(a[1], "retry_wait") \in JobRecord
    BY <1>1, EndedType DEF Inv, JobStatuses
  <2> QED
    BY <1>1, <2>1, EndedIsClosed DEF Inv, JobStatuses, JobRecord
<1>4. EndedAttempts({a}, attempt')
  BY <1>2 DEF EndedAttempts, Inv, TypeOK
<1>5. ClosedJobs({a}, job')
  <2> SUFFICES ASSUME NEW j \in Jobs
               PROVE  /\ job'[j].attempts = job[j].attempts
                      /\ job'[j].active \in {0, job[j].active}
                      /\ job'[j].status = "active" <=> job'[j].active # 0
                      /\ job'[j].lease # "none" => job'[j].status = "active"
                      /\ \A n \in Ordinals : <<j, n>> \in {a}
                                             <=> job[j].active = n /\ job'[j].active = 0
    BY DEF ClosedJobs
  <2>1. \A n \in Ordinals : n # 0
    BY DEF Ordinals
  <2>2. CASE j = a[1]
    <3>1. job'[j] = waiting
      BY <1>2, <2>2 DEF Inv, TypeOK
    <3>2. \A n \in Ordinals : <<j, n>> = a <=> n = a[2]
      BY <2>2, AttemptIsPair
    <3> QED
      BY <1>1, <1>3, <2>2, <3>1, <3>2 DEF IsActive
  <2>3. CASE j # a[1]
    <3>1. job'[j] = job[j] /\ \A n \in Ordinals : <<j, n>> # a
      BY <1>2, <2>3, AttemptIsPair DEF Inv, TypeOK
    <3> QED
      BY <2>1, <3>1 DEF Inv, JobsInv, OneLiveAttempt, LeasedJobsAreActive
  <2> QED
    BY <2>2, <2>3
<1>6. RunsInv'
  <2>1. ASSUME NEW q \in Runs, run[q] \in TerminalRuns \cup {"absent", "created"},
               NEW j \in JobsOf(q)
        PROVE  job'[j] = job[j]
    <3>1. j # a[1]
      BY <1>1, <2>1 DEF Inv, RunsInv, UnscheduledRunsAreEmpty, OpenJobs, JobsOf
    <3> QED
      BY <1>2, <2>1, <3>1 DEF Inv, TypeOK, JobsOf
  <2> QED
    BY <1>2, <2>1, SameJobsKeepRuns
<1> QED
  BY <1>4, <1>5, <1>6, EndingKeepsJobs DEF Inv

\* The attempts that end when attempt a fails.
Fallen(a) ==
  IF Retryable(a) THEN {a} ELSE {a} \cup ActiveAttempts(Siblings(a))

LEMMA FailureEffectsSettled ==
  ASSUME Inv, NEW a \in Attempts, NEW why
  PROVE  Settled(Fallen(a), FailureEffects(a, why))
  BY EffectsAfterSettled DEF Inv, EffectsInv, Fallen, FailureEffects, RunFailedEffects

LEMMA FailingKeepsInv ==
  ASSUME Inv, NEW a \in Attempts, attempt[a].status \in LiveAttempts,
         NEW ended, DoneRecord(ended), FailAttempt(a, ended), Settled(Fallen(a), outbox')
  PROVE  JobsInv' /\ RunsInv' /\ EffectsInv'
<1>1. JobsInv' /\ RunsInv' /\ EndedAttempts(Fallen(a), attempt')
  BY RetryShape, FailRunShape DEF Fallen, FailAttempt
<1> QED
  BY <1>1, EndingKeepsEffects DEF Inv

\* The job of a verified attempt succeeds, and jobs that waited for it are ready.
LEMMA SuccessKeepsJobs ==
  ASSUME Inv, NEW a \in Attempts, attempt[a].status \in LiveAttempts, SucceedJob(a[1])
  PROVE  ClosedJobs({a}, job') /\ RunsInv'
<1> DEFINE r == RunOf[a[1]]
<1>1. /\ IsActive(a) /\ a[1] \in Jobs /\ r \in Runs
      /\ a[1] \in OpenJobs(r) /\ run[r] \notin TerminalRuns
  BY LiveAttemptIsActive, AttemptIsPair
<1>2. /\ job'[a[1]].status = "succeeded" /\ job'[a[1]].active = 0
      /\ job'[a[1]].lease = "none" /\ job'[a[1]].attempts = job[a[1]].attempts
  <2>0. a[1] \notin Unblocked(a[1])
    BY <1>1, AttemptIsPair DEF Unblocked, IsActive, Inv, JobsInv, OneLiveAttempt
  <2>1. job'[a[1]] = Ended(a[1], "succeeded")
    BY <1>1, <2>0 DEF SucceedJob
  <2>2. "succeeded" \in JobStatuses
    BY DEF JobStatuses, TerminalJobs
  <2> QED
    BY <1>1, <2>1, <2>2, EndedIsClosed DEF Inv
<1>3. ASSUME NEW j \in Jobs, j # a[1]
      PROVE  \/ job'[j] = job[j]
             \/ /\ RunOf[j] = r /\ job[j].status = "blocked" /\ job'[j].status = "ready"
                /\ job'[j].active = job[j].active /\ job'[j].attempts = job[j].attempts
                /\ job'[j].lease = job[j].lease
  BY <1>1, <1>3 DEF SucceedJob, Unblocked, JobsOf, Inv, TypeOK, JobRecord
<1>4. ASSUME NEW j \in Jobs
      PROVE  /\ job[j].status = "active" <=> job[j].active # 0
             /\ job[j].lease # "none" => job[j].status = "active"
  BY DEF Inv, JobsInv, OneLiveAttempt, LeasedJobsAreActive
<1>5. ClosedJobs({a}, job')
  <2> SUFFICES ASSUME NEW j \in Jobs
               PROVE  /\ job'[j].attempts = job[j].attempts
                      /\ job'[j].active \in {0, job[j].active}
                      /\ job'[j].status = "active" <=> job'[j].active # 0
                      /\ job'[j].lease # "none" => job'[j].status = "active"
                      /\ \A n \in Ordinals : <<j, n>> \in {a}
                                             <=> job[j].active = n /\ job'[j].active = 0
    BY DEF ClosedJobs
  <2>1. \A n \in Ordinals : n # 0
    BY DEF Ordinals
  <2>2. CASE j = a[1]
    <3>1. \A n \in Ordinals : <<j, n>> = a <=> n = a[2]
      BY <2>2, AttemptIsPair
    <3> QED
      BY <1>1, <1>2, <2>2, <3>1 DEF IsActive
  <2>3. CASE j # a[1]
    <3>1. \A n \in Ordinals : <<j, n>> # a
      BY <2>3, AttemptIsPair
    <3> QED
      BY <1>3, <1>4, <2>1, <2>3, <3>1
  <2> QED
    BY <2>2, <2>3
<1>6. \A q \in Runs : q # r => run'[q] = run[q]
  BY DEF SucceedJob, Inv, TypeOK
<1>7. run'[r] \in {run[r], "succeeded"}
  BY <1>1 DEF SucceedJob, Inv, TypeOK
<1>8. QuiescentRun'
  <2> SUFFICES ASSUME NEW q \in Runs, run'[q] \in TerminalRuns, NEW j \in JobsOf(q)
               PROVE  /\ job'[j].status \in TerminalJobs \cup {"absent"}
                      /\ job'[j].lease = "none" /\ job'[j].active = 0
    BY DEF QuiescentRun, JobsOf
  <2>0. j \in Jobs /\ RunOf[j] = q
    BY DEF JobsOf
  <2>1. CASE q = r
    <3>1. j # a[1] => job[j].status = "succeeded"
      BY <1>1, <2>1 DEF SucceedJob, Inv, TypeOK
    <3> QED
      BY <1>2, <1>3, <1>4, <2>0, <3>1 DEF TerminalJobs
  <2>2. CASE q # r
    BY <1>3, <1>6, <2>0, <2>2 DEF Inv, RunsInv, QuiescentRun
  <2> QED
    BY <2>1, <2>2
<1>9. UnscheduledRunsAreEmpty'
  <2> SUFFICES ASSUME NEW q \in Runs, run'[q] \in {"absent", "created"}, NEW j \in JobsOf(q)
               PROVE  job'[j].status = "absent" /\ job'[j].attempts = 0
    BY DEF UnscheduledRunsAreEmpty, JobsOf
  <2>0. j \in Jobs /\ RunOf[j] = q
    BY DEF JobsOf
  <2>1. run[q] \in {"absent", "created"}
    BY <1>6, <1>7
  <2>2. job[j].status = "absent" /\ job[j].attempts = 0
    BY <2>1 DEF Inv, RunsInv, UnscheduledRunsAreEmpty
  <2>3. j # a[1]
    BY <1>1, <2>2 DEF OpenJobs
  <2> QED
    BY <1>3, <2>0, <2>2, <2>3
<1> QED
  BY <1>5, <1>8, <1>9 DEF RunsInv

-----------------------------------------------------------------------------
(* The commands and clock ticks that end no attempt.                       *)

\* What they may do to jobs, attempts and runs without disturbing an invariant.
QuietJobs(jobs) ==
  \A j \in Jobs :
    /\ jobs[j].status = job[j].status
    /\ jobs[j].attempts = job[j].attempts /\ jobs[j].active = job[j].active
    /\ jobs[j].lease # "none" => job[j].status = "active"

QuietAttempts(attempts) ==
  \A a \in Attempts :
    \/ attempts[a].status = attempt[a].status
    \/ attempts[a].status \in LiveAttempts /\ attempt[a].status \in LiveAttempts

QuietRuns(runs) ==
  \A r \in Runs : \/ runs[r] = run[r]
                  \/ run[r] = "scheduled" /\ runs[r] = "running"

LEMMA QuietKeepsInv ==
  ASSUME Inv, QuietJobs(job'), QuietAttempts(attempt'), QuietRuns(run')
  PROVE  JobsInv' /\ RunsInv'
<1>1. JobsInv'
  <2>1. \A a \in Attempts : a[1] \in Jobs
    BY AttemptIsPair
  <2>2. OneLiveAttempt'
    BY <2>1 DEF Inv, JobsInv, OneLiveAttempt, QuietJobs, QuietAttempts, IsActive, LiveAttempts
  <2> QED
    BY <2>2 DEF JobsInv, LeasedJobsAreActive, QuietJobs
<1>2. QuiescentRun'
  BY DEF Inv, RunsInv, QuiescentRun, QuietJobs, QuietRuns, JobsOf, TerminalRuns, TerminalJobs
<1>3. UnscheduledRunsAreEmpty'
  BY DEF Inv, RunsInv, UnscheduledRunsAreEmpty, QuietJobs, QuietRuns, JobsOf
<1> QED
  BY <1>1, <1>2, <1>3 DEF RunsInv

\* What they may do to effects.
QuietEffects(effects) ==
  /\ \A a \in Attempts : \A e \in {"start", "verify"} :
       effects[<<a, e>>].status \in Open <=> outbox[<<a, e>>].status \in Open
  /\ \A x \in Messages : effects[x].lease # "none" => effects[x].status = "leased"

LEMMA QuietKeepsEffects ==
  ASSUME Inv, QuietEffects(outbox'),
         \A a \in Attempts :
           /\ attempt'[a].status = attempt[a].status
           /\ attempt'[a].verification = attempt[a].verification
           /\ attempt'[a].external = attempt[a].external
  PROVE  EffectsInv'
<1>1. NothingOutlivesItsAttempt'
  BY DEF Inv, EffectsInv, NothingOutlivesItsAttempt, QuietEffects
<1>2. NoStrandedAttempt'
  BY DEF Inv, EffectsInv, NoStrandedAttempt, QuietEffects
<1>3. StartedAttemptsHaveNoStart'
  BY DEF Inv, EffectsInv, StartedAttemptsHaveNoStart, QuietEffects
<1> QED
  BY <1>1, <1>2, <1>3 DEF EffectsInv, LeasedEffectsAreTaken, QuietEffects

\* Reading helpers: what it takes to send a command.
LEMMA QuietIdentity ==
  ASSUME Inv
  PROVE  QuietJobs(job) /\ QuietAttempts(attempt) /\ QuietRuns(run) /\ QuietEffects(outbox)
  BY DEF Inv, JobsInv, LeasedJobsAreActive, EffectsInv, LeasedEffectsAreTaken,
         QuietJobs, QuietAttempts, QuietRuns, QuietEffects

LEMMA LiveLeaseOnEffect ==
  ASSUME Inv, NEW a \in Attempts, NEW e \in {"start", "verify"}, outbox[<<a, e>>].status \in Open
  PROVE  attempt[a].status \in LiveAttempts
  BY DEF Inv, EffectsInv, NothingOutlivesItsAttempt

LEMMA HoldsOpenMessage ==
  ASSUME Inv, NEW o, NEW g, NEW x \in Messages, HoldsMessage(o, g, x)
  PROVE  outbox[x].status = "leased"
  BY DEF Inv, EffectsInv, LeasedEffectsAreTaken, HoldsMessage

LEMMA OperatorKeepsInv ==
  ASSUME Inv, NEW r \in Runs, OperatorStep(r)
  PROVE  JobsInv' /\ RunsInv' /\ EffectsInv'
<1>1. CASE CreateRun(r)
  <2>1. EffectsInv' /\ JobsInv'
    BY <1>1, QuietIdentity, QuietKeepsEffects
    DEF CreateRun, Inv, JobsInv, OneLiveAttempt, LeasedJobsAreActive, IsActive
  <2>2. RunsInv'
    BY <1>1 DEF CreateRun, Inv, TypeOK, RunsInv, QuiescentRun, UnscheduledRunsAreEmpty,
                JobsOf, TerminalRuns
  <2> QED
    BY <2>1, <2>2
<1>2. ASSUME run[r] \in {"absent", "created"}, Schedule(r)
      PROVE  JobsInv' /\ RunsInv' /\ EffectsInv'
  <2>1. EffectsInv'
    BY <1>2, QuietIdentity, QuietKeepsEffects DEF Schedule
  <2>2. ASSUME NEW j \in Jobs
        PROVE  \/ /\ RunOf[j] = r /\ job[j].status = "absent"
                  /\ job[j].attempts = 0 /\ job[j].active = 0
                  /\ job'[j].status \in {"ready", "blocked"}
                  /\ job'[j].attempts = 0 /\ job'[j].active = 0
                  /\ job'[j].lease = "none"
               \/ RunOf[j] # r /\ job'[j] = job[j]
    BY <1>2 DEF Schedule, NoJob, Inv, RunsInv, UnscheduledRunsAreEmpty, JobsOf,
                JobsInv, OneLiveAttempt
  <2>3. JobsInv'
    <3>1. \A a \in Attempts : a[1] \in Jobs
      BY AttemptIsPair
    <3>2. attempt' = attempt
      BY <1>2 DEF Schedule
    <3> QED
      BY <2>2, <3>1, <3>2 DEF Inv, JobsInv, OneLiveAttempt, LeasedJobsAreActive, IsActive
  <2>4. RunsInv'
    <3>1. run' = [run EXCEPT ![r] = "scheduled"]
      BY <1>2 DEF Schedule
    <3>2. /\ \A q \in Runs : q # r => run'[q] = run[q]
          /\ run'[r] = "scheduled"
      BY <3>1 DEF Inv, TypeOK
    <3> QED
      BY <2>2, <3>2, SameJobsKeepRuns DEF TerminalRuns, JobsOf
  <2> QED
    BY <2>1, <2>3, <2>4
<1>3. CASE CancelRun(r)
  BY <1>3, CancelRunKeepsInv
<1> QED
  BY <1>1, <1>2, <1>3 DEF OperatorStep, ScheduleRun, StartMilestone

LEMMA JobKeepsInv ==
  ASSUME Inv, NEW o \in Owners, NEW j \in Jobs, JobStep(o, j)
  PROVE  JobsInv' /\ RunsInv' /\ EffectsInv'
<1>0. RunOf[j] \in Runs /\ job[j] \in JobRecord
  BY JobExecutionAssumption DEF Inv, TypeOK
<1>1. ASSUME RunStarted(RunOf[j]), run[RunOf[j]] \notin TerminalRuns PROVE QuietRuns(run')
  BY <1>0, <1>1 DEF RunStarted, QuietRuns, Inv, TypeOK
<1>2. CASE ResumeJob(o, j)
  <2>1. /\ job'[j].status = job[j].status /\ job'[j].attempts = job[j].attempts
        /\ job'[j].active = job[j].active /\ job[j].status = "active"
        /\ \A k \in Jobs : k # j => job'[k] = job[k]
    BY <1>0, <1>2 DEF ResumeJob, Leased, JobRecord, Inv, TypeOK
  <2>2. QuietJobs(job')
    BY <2>1, QuietIdentity DEF QuietJobs
  <2>3. QuietRuns(run') /\ attempt' = attempt /\ outbox' = outbox
    BY <1>1, <1>2 DEF ResumeJob
  <2> QED
    BY <2>2, <2>3, QuietIdentity, QuietKeepsInv, QuietKeepsEffects
<1>3. CASE AcquireJob(o, j)
  <2> DEFINE n == job[j].attempts + 1
             new == <<j, n>>
  <2>1. /\ job'[j].status = "active" /\ job'[j].attempts = n /\ job'[j].active = n
        /\ \A k \in Jobs : k # j => job'[k] = job[k]
    <3>0. job[j].fence + 1 \in Nat
      BY <1>0 DEF JobRecord
    <3>1. Leased(j, o) \in [status : {"active"}, attempts : Nat, active : Nat, owner : {o},
                             fence : Nat, lease : Leases, due : BOOLEAN]
      BY <1>0, <3>0 DEF Leased, JobRecord, Leases
    <3>2. [Leased(j, o) EXCEPT !.attempts = n, !.active = n].status = "active"
          /\ [Leased(j, o) EXCEPT !.attempts = n, !.active = n].attempts = n
          /\ [Leased(j, o) EXCEPT !.attempts = n, !.active = n].active = n
      BY <3>1
    <3> QED
      BY <1>3, <3>2 DEF AcquireJob, Inv, TypeOK
  <2>2. n \in Nat /\ n # 0 /\ job[j].active = 0 /\ job[j].status \in {"ready", "retry_wait"}
    BY <1>0, <1>3 DEF AcquireJob, JobRecord
  <2>3. /\ \A a \in Attempts : attempt'[a] = IF a = new THEN [NoAttempt EXCEPT !.status = "starting"]
                                                       ELSE attempt[a]
        /\ \A x \in Messages : outbox'[x] = IF x = <<new, "start">> THEN Enqueued ELSE outbox[x]
    BY <1>3 DEF AcquireJob, Inv, TypeOK
  <2>4. /\ [NoAttempt EXCEPT !.status = "starting"].status = "starting"
        /\ [NoAttempt EXCEPT !.status = "starting"].verification = "none"
        /\ Enqueued.status = "pending" /\ Enqueued.lease = "none"
    BY DEF NoAttempt, Enqueued, NoMessage
  <2>5. JobsInv'
    <3>1. ASSUME NEW k \in Jobs
          PROVE  /\ job'[k].status = "active" <=> job'[k].active # 0
                 /\ job'[k].active \in {0, job'[k].attempts}
                 /\ job'[k].lease # "none" => job'[k].status = "active"
      BY <2>1, <2>2 DEF Inv, JobsInv, OneLiveAttempt, LeasedJobsAreActive
    <3>2. ASSUME NEW a \in Attempts
          PROVE  /\ attempt'[a].status \in LiveAttempts <=> job'[a[1]].active = a[2]
                 /\ attempt'[a].status = "absent" <=> a[2] > job'[a[1]].attempts
      <4>1. /\ a[1] \in Jobs /\ a[2] \in Ordinals /\ a = <<a[1], a[2]>> /\ a[2] # 0
            /\ attempt[a].status \in LiveAttempts <=> job[a[1]].active = a[2]
            /\ attempt[a].status = "absent" <=> a[2] > job[a[1]].attempts
        BY AttemptIsPair DEF Inv, JobsInv, OneLiveAttempt, IsActive
      <4>2. job[j].attempts \in Nat /\ a[2] \in Nat
        BY <1>0, <4>1, JobExecutionAssumption DEF JobRecord, Ordinals
      <4>3. CASE a = new
        <5>1. a[1] = j /\ a[2] = n
          BY <4>3
        <5>2. attempt'[a].status = "starting"
          BY <2>3, <2>4, <4>3
        <5>3. job'[j].active = n /\ job'[j].attempts = n /\ ~(n > n)
          BY <2>1, <2>2
        <5> HIDE DEF n, new
        <5> QED
          BY <5>1, <5>2, <5>3 DEF LiveAttempts
      <4>4. CASE a # new /\ a[1] = j
        <5>1. a[2] # n /\ attempt'[a] = attempt[a]
          BY <2>3, <4>1, <4>4
        <5>2. a[2] > n <=> a[2] > job[j].attempts
          BY <4>2, <5>1
        <5> QED
          BY <2>1, <2>2, <4>1, <4>4, <5>1, <5>2
      <4>5. CASE a[1] # j
        BY <2>1, <2>3, <4>1, <4>5
      <4> QED
        BY <4>3, <4>4, <4>5
    <3> QED
      BY <3>1, <3>2 DEF JobsInv, OneLiveAttempt, LeasedJobsAreActive, IsActive
  <2>6. RunsInv'
    <3>1. QuietRuns(run') /\ run[RunOf[j]] \notin TerminalRuns \cup {"absent", "created"}
      BY <1>0, <1>1, <1>3, <2>2 DEF AcquireJob, Inv, RunsInv, UnscheduledRunsAreEmpty, JobsOf
    <3>2. ASSUME NEW q \in Runs, run'[q] \in TerminalRuns \cup {"absent", "created"}
          PROVE  run'[q] = run[q] /\ \A k \in JobsOf(q) : job'[k] = job[k]
      <4>1. run'[q] = run[q]
        BY <3>1, <3>2 DEF QuietRuns, TerminalRuns
      <4> QED
        BY <2>1, <3>1, <3>2, <4>1 DEF JobsOf
    <3> QED
      BY <3>1, <3>2, SameJobsKeepRuns
  <2>7. EffectsInv'
    <3>1. ASSUME NEW a \in Attempts, NEW e \in {"start", "verify"}
          PROVE  /\ outbox'[<<a, e>>] = IF a = new /\ e = "start" THEN Enqueued
                                                                 ELSE outbox[<<a, e>>]
                 /\ attempt'[a] = IF a = new THEN [NoAttempt EXCEPT !.status = "starting"]
                                             ELSE attempt[a]
      <4>1. <<a, e>> \in Messages
        BY EffectIsMessage DEF Effects
      <4> QED
        BY <2>3, <4>1
    <3>2. NothingOutlivesItsAttempt'
      BY <2>4, <3>1 DEF Inv, EffectsInv, NothingOutlivesItsAttempt, LiveAttempts
    <3>3. NoStrandedAttempt'
      <4>1. ASSUME NEW a \in Attempts, a = new
            PROVE  /\ attempt'[a].status = "starting"
                   /\ outbox'[<<a, "start">>].status \in Open
        BY <2>4, <3>1, <4>1 DEF Open
      <4>2. ASSUME NEW a \in Attempts, a # new
            PROVE  /\ attempt'[a] = attempt[a]
                   /\ outbox'[<<a, "start">>] = outbox[<<a, "start">>]
                   /\ outbox'[<<a, "verify">>] = outbox[<<a, "verify">>]
        BY <3>1, <4>2
      <4> HIDE DEF new
      <4> QED
        BY <4>1, <4>2 DEF Inv, EffectsInv, NoStrandedAttempt
    <3>4. StartedAttemptsHaveNoStart'
      BY <2>4, <3>1 DEF Inv, EffectsInv, StartedAttemptsHaveNoStart
    <3>5. LeasedEffectsAreTaken'
      BY <2>3, <2>4 DEF Inv, EffectsInv, LeasedEffectsAreTaken
    <3> QED
      BY <3>2, <3>3, <3>4, <3>5 DEF EffectsInv
  <2> QED
    BY <2>5, <2>6, <2>7
<1>4. ASSUME NEW f \in Fences, RenewJob(o, f, j)
      PROVE  JobsInv' /\ RunsInv' /\ EffectsInv'
  BY <1>4, QuietIdentity, QuietKeepsInv, QuietKeepsEffects DEF RenewJob, vars
<1>5. ASSUME NEW f \in Fences, ReleaseJob(o, f, j)
      PROVE  JobsInv' /\ RunsInv' /\ EffectsInv'
  <2>1. /\ job'[j].status = job[j].status /\ job'[j].attempts = job[j].attempts
        /\ job'[j].active = job[j].active /\ job'[j].lease = "none"
        /\ \A k \in Jobs : k # j => job'[k] = job[k]
    BY <1>0, <1>5 DEF ReleaseJob, JobRecord, Inv, TypeOK
  <2>2. QuietJobs(job')
    BY <2>1, QuietIdentity DEF QuietJobs
  <2> QED
    BY <1>5, <2>2, QuietIdentity, QuietKeepsInv, QuietKeepsEffects DEF ReleaseJob
<1> QED
  BY <1>2, <1>3, <1>4, <1>5 DEF JobStep

LEMMA RequestVerificationKeepsInv ==
  ASSUME Inv, NEW a \in Attempts, attempt[a].status = "running", NEW to \in AttemptRecord,
         RequestVerification(a, to)
  PROVE  JobsInv' /\ RunsInv' /\ EffectsInv'
<1> DEFINE next == [to EXCEPT !.status = "verifying", !.verification = "requested"]
<1>1. next.status = "verifying" /\ next.verification = "requested"
  BY DEF AttemptRecord
<1>2. \A b \in Attempts : attempt'[b] = IF b = a THEN next ELSE attempt[b]
  BY DEF RequestVerification, Inv, TypeOK
<1>3. \A x \in Messages : outbox'[x] = IF x = <<a, "verify">> THEN Enqueued ELSE outbox[x]
  BY DEF RequestVerification, Inv, TypeOK
<1>4. Enqueued.status \in Open /\ Enqueued.lease = "none"
  BY DEF Enqueued, NoMessage, Open
<1> HIDE DEF next
<1>5. QuietAttempts(attempt') /\ UNCHANGED <<run, job>>
  BY <1>1, <1>2 DEF QuietAttempts, LiveAttempts, RequestVerification
<1>6. ASSUME NEW b \in Attempts
      PROVE  /\ outbox'[<<b, "start">>] = outbox[<<b, "start">>]
             /\ outbox'[<<b, "verify">>] = IF b = a THEN Enqueued ELSE outbox[<<b, "verify">>]
  BY <1>3, EffectIsMessage DEF Effects
<1>7. EffectsInv'
  <2>1. NothingOutlivesItsAttempt'
    BY <1>1, <1>2, <1>6 DEF Inv, EffectsInv, NothingOutlivesItsAttempt, LiveAttempts
  <2>2. NoStrandedAttempt'
    BY <1>1, <1>2, <1>4, <1>6 DEF Inv, EffectsInv, NoStrandedAttempt
  <2>3. StartedAttemptsHaveNoStart'
    BY <1>1, <1>2, <1>6 DEF Inv, EffectsInv, StartedAttemptsHaveNoStart
  <2>4. LeasedEffectsAreTaken'
    BY <1>3, <1>4 DEF Inv, EffectsInv, LeasedEffectsAreTaken
  <2> QED
    BY <2>1, <2>2, <2>3, <2>4 DEF EffectsInv
<1> QED
  BY <1>5, <1>7, QuietIdentity, QuietKeepsInv

\* A step that only changes fields of attempts that no invariant reads.
LEMMA AttemptDetailKeepsInv ==
  ASSUME Inv, UNCHANGED <<run, job, outbox>>,
         \A a \in Attempts :
           /\ attempt'[a].status = attempt[a].status
           /\ attempt'[a].verification = attempt[a].verification
           /\ attempt'[a].external = attempt[a].external
  PROVE  JobsInv' /\ RunsInv' /\ EffectsInv'
<1>1. QuietAttempts(attempt')
  BY DEF QuietAttempts
<1> QED
  BY <1>1, QuietIdentity, QuietKeepsInv, QuietKeepsEffects

LEMMA AttemptKeepsInv ==
  ASSUME Inv, NEW o \in Owners, NEW f \in Fences, NEW a \in Attempts, AttemptStep(o, f, a)
  PROVE  JobsInv' /\ RunsInv' /\ EffectsInv'
<1>0. attempt[a] \in AttemptRecord
  BY DEF Inv, TypeOK
<1>1. ASSUME NEW ended, DoneRecord(ended), attempt[a].status \in LiveAttempts,
             FailAttempt(a, ended), NEW why, outbox' = FailureEffects(a, why)
      PROVE  JobsInv' /\ RunsInv' /\ EffectsInv'
  BY <1>1, FailureEffectsSettled, FailingKeepsInv
<1>2. ASSUME NEW after \in Cursors, NEW n \in 1..EventLimit, ObserveDriverEvents(o, f, a, after, n)
      PROVE  JobsInv' /\ RunsInv' /\ EffectsInv'
  <2>1. \A b \in Attempts : /\ attempt'[b].status = attempt[b].status
                            /\ attempt'[b].verification = attempt[b].verification
                            /\ attempt'[b].external = attempt[b].external
    BY <1>0, <1>2 DEF ObserveDriverEvents, Inv, TypeOK, AttemptRecord
  <2> QED
    BY <1>2, <2>1, AttemptDetailKeepsInv DEF ObserveDriverEvents
<1>3. ASSUME NEW outcome \in ReceiptOutcomes, NEW count \in Cursors,
             RecordDriverReceipt(o, f, a, outcome, count)
      PROVE  JobsInv' /\ RunsInv' /\ EffectsInv'
  <2>0. attempt[a].status = "running" /\ attempt[a].status \in LiveAttempts
    BY <1>3 DEF RecordDriverReceipt, LiveAttempts
  <2>1. CASE outcome = "succeeded"
    <3>1. [attempt[a] EXCEPT !.receipt = outcome] \in AttemptRecord
      BY <1>0 DEF AttemptRecord
    <3> QED
      BY <1>3, <2>0, <2>1, <3>1, RequestVerificationKeepsInv
      DEF RecordDriverReceipt, NonretryableOutcomes
  <2>4. ASSUME NEW why \in Reasons \ {"none"}
        PROVE  DoneRecord([Finished(a, why) EXCEPT !.receipt = outcome])
    BY FinishedIsDone DEF Inv, DoneRecord, AttemptRecord
  <2>2. CASE outcome \in {"failed", "timed_out"}
    <3> DEFINE why == IF outcome = "timed_out" THEN "timed_out" ELSE "driver_error"
    <3>1. why \in Reasons \ {"none"}
      BY DEF Reasons
    <3> QED
      BY <1>1, <1>3, <2>0, <2>2, <2>4, <3>1 DEF RecordDriverReceipt, NonretryableOutcomes
  <2>3. CASE outcome \in NonretryableOutcomes
    <3>1. outcome \in Reasons \ {"none"}
      BY <2>3 DEF Reasons, NonretryableOutcomes
    <3>2. /\ FailRun(a, [Finished(a, outcome) EXCEPT !.receipt = outcome])
          /\ outbox' = RunFailedEffects(a, {})
      BY <1>3, <2>3 DEF RecordDriverReceipt, NonretryableOutcomes
    <3>3. JobsInv' /\ RunsInv' /\ EndedAttempts({a} \cup ActiveAttempts(Siblings(a)), attempt')
      BY <2>0, <2>4, <3>1, <3>2, FailRunShape
    <3>4. Settled({a} \cup ActiveAttempts(Siblings(a)), outbox')
      BY <3>2, EffectsAfterSettled DEF RunFailedEffects, Inv, EffectsInv
    <3> QED
      BY <3>3, <3>4, EndingKeepsEffects DEF Inv
  <2> QED
    BY <2>1, <2>2, <2>3 DEF ReceiptOutcomes
<1>4. ASSUME NEW outcome \in {"succeeded", "failed"}, ObserveAttempt(o, f, a, outcome)
      PROVE  JobsInv' /\ RunsInv' /\ EffectsInv'
  <2>1. attempt[a].status = "running" /\ attempt[a].status \in LiveAttempts
    BY <1>4 DEF ObserveAttempt, LiveAttempts
  <2>2. DoneRecord(Finished(a, "driver_error"))
    BY FinishedIsDone DEF Inv, Reasons
  <2> QED
    BY <1>0, <1>1, <1>4, <2>1, <2>2, RequestVerificationKeepsInv DEF ObserveAttempt
<1>5. ASSUME TimeoutAttempt(o, f, a)
      PROVE  JobsInv' /\ RunsInv' /\ EffectsInv'
  <2>1. DoneRecord(Finished(a, "timed_out"))
    BY FinishedIsDone DEF Inv, Reasons
  <2>2. attempt[a].status \in LiveAttempts
    BY <1>5 DEF TimeoutAttempt, Inv, JobsInv, OneLiveAttempt
  <2> QED
    BY <1>1, <1>5, <2>1, <2>2 DEF TimeoutAttempt
<1> QED
  BY <1>2, <1>3, <1>4, <1>5 DEF AttemptStep

LEMMA VerificationKeepsInv ==
  ASSUME Inv, NEW o \in Owners, NEW f \in Fences, NEW g \in Deliveries, NEW a \in Attempts,
         VerificationStep(o, f, g, a)
  PROVE  JobsInv' /\ RunsInv' /\ EffectsInv'
<1> DEFINE delivered == Closed(<<a, "verify">>, "delivered")
<1>0. <<a, "verify">> \in Messages /\ delivered.lease = "none" /\ delivered.status = "delivered"
  <2>1. <<a, "verify">> \in Messages
    BY EffectIsMessage DEF Effects
  <2> QED
    BY <2>1 DEF Inv, TypeOK, MessageRecord, Closed
<1> HIDE DEF delivered
<1>1. ASSUME NEW outcome \in {"passed", "failed", "invalid"},
             CompleteVerification(o, f, g, a, outcome)
      PROVE  JobsInv' /\ RunsInv' /\ EffectsInv'
  <2>1. attempt[a].status = "verifying" /\ attempt[a].status \in LiveAttempts
    BY <1>1 DEF CompleteVerification, HoldsVerification, LiveAttempts
  <2>2. ASSUME NEW why \in Reasons \ {"none"}
        PROVE  DoneRecord([Finished(a, why) EXCEPT !.verification = outcome])
    BY FinishedIsDone DEF Inv, DoneRecord, AttemptRecord
  <2>3. CASE outcome = "passed"
    <3>1. /\ SucceedJob(a[1])
          /\ attempt' = [attempt EXCEPT ![a] = [Finished(a, "completed")
                                                EXCEPT !.verification = outcome]]
          /\ outbox' = [outbox EXCEPT ![<<a, "verify">>] = delivered]
      BY <1>1, <2>3 DEF CompleteVerification, delivered
    <3>2. ClosedJobs({a}, job') /\ RunsInv'
      BY <2>1, <3>1, SuccessKeepsJobs
    <3>3. EndedAttempts({a}, attempt')
      <4>1. "completed" \in Reasons \ {"none"}
        BY DEF Reasons
      <4> QED
        BY <2>2, <3>1, <4>1 DEF EndedAttempts, Inv, TypeOK
    <3>4. Settled({a}, outbox')
      <4>1. outbox[<<a, "start">>].status \notin Open
        BY <2>1 DEF Inv, EffectsInv, StartedAttemptsHaveNoStart
      <4>2. \A x \in Messages : outbox'[x] = IF x = <<a, "verify">> THEN delivered ELSE outbox[x]
        BY <3>1 DEF Inv, TypeOK
      <4>3. \A b \in Attempts : \A e \in {"start", "verify"} :
              outbox'[<<b, e>>] = IF b = a /\ e = "verify" THEN delivered ELSE outbox[<<b, e>>]
        BY <4>2, EffectIsMessage DEF Effects
      <4>4. \A x \in Messages : outbox'[x].lease # "none" => outbox'[x].status = "leased"
        BY <1>0, <4>2 DEF Inv, EffectsInv, LeasedEffectsAreTaken
      <4> QED
        BY <1>0, <4>1, <4>3, <4>4 DEF Settled, Open
    <3> QED
      BY <3>2, <3>3, <3>4, EndingKeepsEffects, EndingKeepsJobs DEF Inv
  <2>4. CASE outcome \in {"failed", "invalid"}
    <3> DEFINE why == IF outcome = "failed" THEN "verification_failed" ELSE "verification_invalid"
               gone == ActiveAttempts(Siblings(a))
               E == {a} \cup gone
    <3>1. why \in Reasons \ {"none"}
      BY DEF Reasons
    <3>2. /\ FailRun(a, [Finished(a, why) EXCEPT !.verification = outcome])
          /\ outbox' = [EffectsAfter(gone, Known(gone)) EXCEPT ![<<a, "verify">>] = delivered]
      BY <1>1, <2>4 DEF CompleteVerification, delivered
    <3>3. JobsInv' /\ RunsInv' /\ EndedAttempts(E, attempt')
      BY <2>1, <2>2, <3>1, <3>2, FailRunShape
    <3>4. Settled(E, outbox')
      <4> DEFINE out == EffectsAfter(gone, Known(gone))
      <4>1. Settled(gone, out)
        BY EffectsAfterSettled DEF Inv, EffectsInv
      <4>2. \A x \in Messages : outbox'[x] = IF x = <<a, "verify">> THEN delivered ELSE out[x]
        BY <3>2, EffectsAfterType DEF Inv
      <4>3. outbox[<<a, "start">>].status \notin Open
        BY <2>1 DEF Inv, EffectsInv, StartedAttemptsHaveNoStart
      <4> HIDE DEF out, gone
      <4>4. \A b \in Attempts : \A e \in {"start", "verify"} :
              outbox'[<<b, e>>] = IF b = a /\ e = "verify" THEN delivered ELSE out[<<b, e>>]
        BY <4>2, EffectIsMessage DEF Effects
      <4>5. \A x \in Messages : outbox'[x].lease # "none" => outbox'[x].status = "leased"
        BY <1>0, <4>1, <4>2 DEF Settled
      <4> QED
        BY <1>0, <4>1, <4>3, <4>4, <4>5 DEF Settled, Open
    <3> QED
      BY <3>3, <3>4, EndingKeepsEffects DEF Inv
  <2> QED
    BY <2>3, <2>4
<1>2. ASSUME NEW why \in {"timed_out", "driver_error"}, FailVerification(o, f, g, a, why)
      PROVE  JobsInv' /\ RunsInv' /\ EffectsInv'
  <2>1. attempt[a].status \in LiveAttempts
    BY <1>2 DEF FailVerification, HoldsVerification, LiveAttempts
  <2>2. DoneRecord(Finished(a, why))
    BY FinishedIsDone DEF Inv, Reasons
  <2> QED
    BY <1>2, <2>1, <2>2, FailureEffectsSettled, FailingKeepsInv DEF FailVerification
<1> QED
  BY <1>1, <1>2 DEF VerificationStep

\* A step on one effect that leaves it as open as it was.
LEMMA EffectDetailKeepsInv ==
  ASSUME Inv, UNCHANGED <<run, job, attempt>>, NEW x \in Messages, NEW m,
         outbox' = [outbox EXCEPT ![x] = m],
         m.lease # "none" => m.status = "leased",
         \/ x[2] = "cancel"
         \/ m.status \in Open /\ outbox[x].status \in Open
  PROVE  JobsInv' /\ RunsInv' /\ EffectsInv'
<1>1. \A y \in Messages : outbox'[y] = IF y = x THEN m ELSE outbox[y]
  BY DEF Inv, TypeOK
<1>2. ASSUME NEW a \in Attempts, NEW e \in {"start", "verify"}
      PROVE  outbox'[<<a, e>>].status \in Open <=> outbox[<<a, e>>].status \in Open
  <2>1. <<a, e>> \in Messages
    BY EffectIsMessage DEF Effects
  <2> QED
    BY <1>1, <2>1
<1>3. QuietEffects(outbox')
  BY <1>1, <1>2 DEF QuietEffects, Inv, EffectsInv, LeasedEffectsAreTaken
<1> QED
  BY <1>3, QuietIdentity, QuietKeepsInv, QuietKeepsEffects

LEMMA DeliveryKeepsInv ==
  ASSUME Inv, NEW o \in Owners, NEW g \in Deliveries, NEW a \in Attempts,
         DeliveryStep(o, g, a)
  PROVE  JobsInv' /\ RunsInv' /\ EffectsInv'
<1>0. /\ attempt[a] \in AttemptRecord
      /\ \A e \in Effects : <<a, e>> \in Messages
      /\ LeasedEffectsAreTaken
  BY EffectIsMessage DEF Inv, TypeOK, EffectsInv
<1>1. ASSUME NEW e \in Effects, NEW status \in {"pending", "delivered", "dead_letter"}
      PROVE  Closed(<<a, e>>, status).status = status /\ Closed(<<a, e>>, status).lease = "none"
  BY <1>0 DEF Closed, Inv, TypeOK, MessageRecord
<1>2. ASSUME NEW e \in {"start", "verify"}, HoldsMessage(o, g, <<a, e>>)
      PROVE  attempt[a].status \in LiveAttempts /\ outbox[<<a, e>>].status \in Open
  BY <1>0, <1>2, HoldsOpenMessage, LiveLeaseOnEffect DEF Effects, Open
<1>3. CASE DeliverStart(o, g, a)
  <2> DEFINE next == [attempt[a] EXCEPT !.status = "running", !.external = TRUE]
             done == Closed(<<a, "start">>, "delivered")
  <2>1. attempt[a].status \in LiveAttempts /\ attempt[a].status \notin TerminalAttempts
    BY <1>2, <1>3 DEF DeliverStart, LiveAttempts, TerminalAttempts
  <2>2. \A b \in Attempts : attempt'[b] = IF b = a THEN next ELSE attempt[b]
    BY <1>3, <2>1 DEF DeliverStart, Inv, TypeOK
  <2>3. /\ next.status = "running" /\ next.external
        /\ next.verification = attempt[a].verification
    BY <1>0 DEF AttemptRecord
  <2>4. \A x \in Messages : outbox'[x] = IF x = <<a, "start">> THEN done ELSE outbox[x]
    BY <1>3, <2>1 DEF DeliverStart, Inv, TypeOK
  <2>5. done.status \notin Open /\ done.lease = "none"
    BY <1>1 DEF Effects, Open
  <2> HIDE DEF next, done
  <2>6. ASSUME NEW b \in Attempts
        PROVE  /\ outbox'[<<b, "start">>] = IF b = a THEN done ELSE outbox[<<b, "start">>]
               /\ outbox'[<<b, "verify">>] = outbox[<<b, "verify">>]
    BY <2>4, EffectIsMessage DEF Effects
  <2>7. EffectsInv'
    <3>1. NothingOutlivesItsAttempt'
      BY <2>2, <2>3, <2>5, <2>6 DEF Inv, EffectsInv, NothingOutlivesItsAttempt, LiveAttempts
    <3>2. NoStrandedAttempt'
      BY <2>2, <2>3, <2>6 DEF Inv, EffectsInv, NoStrandedAttempt
    <3>3. StartedAttemptsHaveNoStart'
      BY <2>2, <2>5, <2>6 DEF Inv, EffectsInv, StartedAttemptsHaveNoStart
    <3>4. LeasedEffectsAreTaken'
      BY <2>4, <2>5 DEF Inv, EffectsInv, LeasedEffectsAreTaken
    <3> QED
      BY <3>1, <3>2, <3>3, <3>4 DEF EffectsInv
  <2>8. QuietAttempts(attempt') /\ UNCHANGED <<run, job>>
    BY <1>3, <2>1, <2>2, <2>3 DEF QuietAttempts, DeliverStart, LiveAttempts
  <2> QED
    BY <2>7, <2>8, QuietIdentity, QuietKeepsInv
<1>4. CASE DeliverCancel(o, g, a)
  BY <1>0, <1>1, <1>4, EffectDetailKeepsInv DEF DeliverCancel, Effects
<1>5. ASSUME NEW e \in Effects, RetryDelivery(o, g, <<a, e>>)
      PROVE  JobsInv' /\ RunsInv' /\ EffectsInv'
  <2> DEFINE m == [Closed(<<a, e>>, "pending") EXCEPT !.due = FALSE]
  <2>1. m.status = "pending" /\ m.lease = "none"
    <3>1. Closed(<<a, e>>, "pending") \in MessageRecord
      BY <1>0, ClosedType DEF Inv
    <3> QED
      BY <1>1, <3>1 DEF MessageRecord
  <2>2. outbox[<<a, e>>].status = "leased"
    BY <1>0, <1>5, HoldsOpenMessage DEF RetryDelivery
  <2>3. outbox' = [outbox EXCEPT ![<<a, e>>] = m] /\ UNCHANGED <<run, job, attempt>>
    BY <1>5 DEF RetryDelivery
  <2>4. m.status \in Open /\ outbox[<<a, e>>].status \in Open
    BY <2>1, <2>2 DEF Open
  <2> HIDE DEF m
  <2> QED
    BY <1>0, <2>1, <2>3, <2>4, EffectDetailKeepsInv
<1>6. ASSUME NEW e \in Effects, DeadLetter(o, g, <<a, e>>)
      PROVE  JobsInv' /\ RunsInv' /\ EffectsInv'
  <2>1. CASE e # "cancel"
    <3>1. attempt[a].status \in LiveAttempts /\ attempt[a].status \notin TerminalAttempts
      BY <1>2, <1>6, <2>1 DEF DeadLetter, Effects, LiveAttempts, TerminalAttempts
    <3>2. /\ FailAttempt(a, Finished(a, "driver_error"))
          /\ outbox' = [FailureEffects(a, "driver_error")
                        EXCEPT ![<<a, e>>] = Closed(<<a, e>>, "dead_letter")]
      BY <1>6, <2>1, <3>1 DEF DeadLetter
    <3>3. DoneRecord(Finished(a, "driver_error"))
      BY FinishedIsDone DEF Inv, Reasons
    <3>4. Settled(Fallen(a), outbox')
      <4>1. FailureEffects(a, "driver_error") \in [Messages -> MessageRecord]
        BY FailureEffectsType DEF Inv
      <4>2. a \in Fallen(a)
        BY DEF Fallen
      <4> QED
        BY <1>0, <3>2, <4>1, <4>2, FailureEffectsSettled, SettledAndClosed DEF Inv
    <3> QED
      BY <3>1, <3>2, <3>3, <3>4, FailingKeepsInv
  <2>2. CASE e = "cancel"
    BY <1>0, <1>1, <1>6, <2>2, EffectDetailKeepsInv DEF DeadLetter
  <2> QED
    BY <2>1, <2>2
<1>7. ASSUME NEW outcome \in ReceiptOutcomes, NEW count \in Cursors,
             RecordTerminalReceipt(o, g, a, outcome, count)
      PROVE  JobsInv' /\ RunsInv' /\ EffectsInv'
  <2>1. \A b \in Attempts : /\ attempt'[b].status = attempt[b].status
                            /\ attempt'[b].verification = attempt[b].verification
                            /\ attempt'[b].external = attempt[b].external
    BY <1>0, <1>7 DEF RecordTerminalReceipt, Inv, TypeOK, AttemptRecord
  <2> QED
    BY <1>7, <2>1, AttemptDetailKeepsInv DEF RecordTerminalReceipt
<1> QED
  BY <1>3, <1>4, <1>5, <1>6, <1>7 DEF DeliveryStep

\* An effect is taken only for a live attempt, so none is dropped on the way.
LEMMA AcquireMessageKeepsInv ==
  ASSUME Inv, NEW o \in Owners, NEW x \in Messages, AcquireMessage(o, x)
  PROVE  JobsInv' /\ RunsInv' /\ EffectsInv'
<1>1. outbox[x].status \in Open
  BY DEF AcquireMessage, Open
<1>2. x[1] \in Attempts /\ x[2] \in Effects /\ x = <<x[1], x[2]>>
  BY DEF Messages
<1>3. x[2] # "cancel" => attempt[x[1]].status \notin TerminalAttempts
  BY <1>1, <1>2, LiveLeaseOnEffect DEF Effects, LiveAttempts, TerminalAttempts
<1>4. Taken(x, o).status = "leased"
  <2>1. outbox[x] \in MessageRecord /\ outbox[x].deliveries + 1 \in Nat
    BY DEF Inv, TypeOK, MessageRecord
  <2> QED
    BY <2>1 DEF Taken, MessageRecord
<1>5. outbox' = [outbox EXCEPT ![x] = Taken(x, o)] /\ UNCHANGED <<run, job, attempt>>
  BY <1>3 DEF AcquireMessage
<1>6. Taken(x, o).status \in Open
  BY <1>4 DEF Open
<1> QED
  BY <1>1, <1>4, <1>5, <1>6, EffectDetailKeepsInv

LEMMA ClockKeepsInv ==
  ASSUME Inv, ClockStep
  PROVE  JobsInv' /\ RunsInv' /\ EffectsInv'
<1>1. ASSUME NEW j \in Jobs, ExpireJobLease(j) \/ JobBecomesDue(j)
      PROVE  JobsInv' /\ RunsInv' /\ EffectsInv'
  <2>0. job[j] \in JobRecord
    BY DEF Inv, TypeOK
  <2>1. /\ job'[j].status = job[j].status /\ job'[j].attempts = job[j].attempts
        /\ job'[j].active = job[j].active
        /\ job'[j].lease # "none" => job[j].lease # "none"
        /\ \A k \in Jobs : k # j => job'[k] = job[k]
    BY <1>1, <2>0 DEF ExpireJobLease, JobBecomesDue, JobRecord, Inv, TypeOK
  <2>2. QuietJobs(job')
    BY <2>1, QuietIdentity DEF QuietJobs, Inv, JobsInv, LeasedJobsAreActive
  <2>3. UNCHANGED <<run, attempt, outbox>>
    BY <1>1 DEF ExpireJobLease, JobBecomesDue
  <2> QED
    BY <2>2, <2>3, QuietIdentity, QuietKeepsInv, QuietKeepsEffects
<1>2. ASSUME NEW x \in Messages, ExpireMessageLease(x) \/ MessageBecomesDue(x)
      PROVE  JobsInv' /\ RunsInv' /\ EffectsInv'
  <2>0. outbox[x] \in MessageRecord
    BY DEF Inv, TypeOK
  <2>1. CASE ExpireMessageLease(x)
    <3> DEFINE m == [outbox[x] EXCEPT !.lease = "expired"]
    <3>1. outbox[x].status = "leased" /\ m.status = "leased"
      BY <2>0, <2>1 DEF ExpireMessageLease, MessageRecord, Inv, EffectsInv, LeasedEffectsAreTaken
    <3>2. outbox' = [outbox EXCEPT ![x] = m] /\ UNCHANGED <<run, job, attempt>>
      BY <2>1 DEF ExpireMessageLease
    <3>3. m.status \in Open /\ outbox[x].status \in Open
      BY <3>1 DEF Open
    <3> HIDE DEF m
    <3> QED
      BY <3>1, <3>2, <3>3, EffectDetailKeepsInv
  <2>2. CASE MessageBecomesDue(x)
    <3> DEFINE m == [outbox[x] EXCEPT !.due = TRUE]
    <3>1. /\ m.status = outbox[x].status /\ m.lease = outbox[x].lease
          /\ outbox[x].status = "pending"
      BY <2>0, <2>2 DEF MessageBecomesDue, MessageRecord
    <3>2. outbox' = [outbox EXCEPT ![x] = m] /\ UNCHANGED <<run, job, attempt>>
      BY <2>2 DEF MessageBecomesDue
    <3>3. m.lease # "none" => m.status = "leased"
      BY <3>1 DEF Inv, EffectsInv, LeasedEffectsAreTaken
    <3>4. m.status \in Open /\ outbox[x].status \in Open
      BY <3>1 DEF Open
    <3> HIDE DEF m
    <3> QED
      BY <3>2, <3>3, <3>4, EffectDetailKeepsInv
  <2> QED
    BY <1>2, <2>1, <2>2
<1>3. ASSUME NEW a \in Attempts, DeadlinePasses(a)
      PROVE  JobsInv' /\ RunsInv' /\ EffectsInv'
  <2>1. \A b \in Attempts : /\ attempt'[b].status = attempt[b].status
                            /\ attempt'[b].verification = attempt[b].verification
                            /\ attempt'[b].external = attempt[b].external
    BY <1>3 DEF DeadlinePasses, Inv, TypeOK, AttemptRecord
  <2> QED
    BY <1>3, <2>1, AttemptDetailKeepsInv DEF DeadlinePasses
<1> QED
  BY <1>1, <1>2, <1>3 DEF ClockStep

-----------------------------------------------------------------------------
LEMMA InitInv == Init => Inv
<1> SUFFICES ASSUME Init PROVE Inv
  OBVIOUS
<1>1. JobsInv
  BY AttemptIsPair, JobExecutionAssumption
  DEF Init, JobsInv, OneLiveAttempt, LeasedJobsAreActive, NoJob, NoAttempt, IsActive,
      LiveAttempts, Ordinals
<1>2. RunsInv
  BY DEF Init, RunsInv, QuiescentRun, UnscheduledRunsAreEmpty, NoJob, JobsOf, TerminalRuns
<1>3. EffectsInv
  <2>1. \A a \in Attempts : \A e \in Effects : outbox[<<a, e>>] = NoMessage
    BY EffectIsMessage DEF Init
  <2>2. /\ \A a \in Attempts : attempt[a] = NoAttempt
        /\ \A x \in Messages : outbox[x] = NoMessage
    BY DEF Init
  <2>3. /\ NoAttempt.status = "absent" /\ NoAttempt.verification = "none"
        /\ NoMessage.status = "absent" /\ NoMessage.lease = "none"
    BY DEF NoAttempt, NoMessage
  <2> QED
    BY <2>1, <2>2, <2>3 DEF EffectsInv, NothingOutlivesItsAttempt, NoStrandedAttempt,
         LeasedEffectsAreTaken, StartedAttemptsHaveNoStart, Effects, Open
<1> QED
  BY <1>1, <1>2, <1>3, InitType DEF Inv

LEMMA NextInv == Inv /\ [Next]_vars => Inv'
<1> SUFFICES ASSUME Inv, [Next]_vars PROVE JobsInv' /\ RunsInv' /\ EffectsInv'
  BY NextType DEF Inv
<1>1. CASE UNCHANGED vars
  BY <1>1, QuietIdentity, QuietKeepsInv, QuietKeepsEffects DEF vars
<1>2. ASSUME NEW o \in Owners, SupervisorStep(o)
      PROVE  JobsInv' /\ RunsInv' /\ EffectsInv'
  BY <1>2, JobKeepsInv, AcquireMessageKeepsInv, AttemptKeepsInv, DeliveryKeepsInv,
     VerificationKeepsInv
  DEF SupervisorStep
<1> QED
  BY <1>1, <1>2, OperatorKeepsInv, ClockKeepsInv DEF Next

LEMMA Invariance == Spec => []Inv
  BY InitInv, NextInv, PTL DEF Spec

\* However many supervisors act on stale views, a job has one attempt in flight
\* exactly while it is active: job.lease.acquire against every command that ends
\* an attempt.
THEOREM OneLiveAttemptHolds == Spec => []OneLiveAttempt
<1>1. Inv => OneLiveAttempt
  BY DEF Inv, JobsInv
<1> QED
  BY <1>1, Invariance, PTL

\* A run that is over leaves no job open, leased or with an attempt in flight:
\* cancellationForRun, failureTransitionEvents and verification.complete.
THEOREM QuiescentRunHolds == Spec => []QuiescentRun
<1>1. Inv => QuiescentRun
  BY DEF Inv, RunsInv
<1> QED
  BY <1>1, Invariance, PTL

\* Whatever ends an attempt settles its verification and closes its effects:
\* cancellationEvents, failureTransitionEvents, nonretryableDriverFailureEvents.
THEOREM NothingOutlivesItsAttemptHolds == Spec => []NothingOutlivesItsAttempt
<1>1. Inv => NothingOutlivesItsAttempt
  BY DEF Inv, EffectsInv
<1> QED
  BY <1>1, Invariance, PTL

\* An attempt in flight always has an effect or an external run that moves it on:
\* outbox.delivery.fail and outbox.lease.acquire never drop the last one alone.
THEOREM NoStrandedAttemptHolds == Spec => []NoStrandedAttempt
<1>1. Inv => NoStrandedAttempt
  BY DEF Inv, EffectsInv
<1> QED
  BY <1>1, Invariance, PTL

-----------------------------------------------------------------------------
(* What becomes of runs and jobs: that outcomes are earned, that they are  *)
(* final, and that the commands are steps of RunLifecycle.  Each command   *)
(* does one of eight things to runs, jobs and the outcomes of attempts;    *)
(* what is proved here is proved of these.                                 *)

\* A job that waits has a try left.
TriesOK ==
  \A j \in Jobs :
    /\ job[j].attempts <= MaxAttempts[j]
    /\ job[j].status \in {"ready", "retry_wait"} => job[j].attempts < MaxAttempts[j]
    /\ job[j].status \in {"absent", "blocked"} => job[j].attempts = 0

\* A job that is ready, or was once, waits for no other.
ReadyOK ==
  \A j \in Jobs : job[j].attempts > 0 \/ job[j].status \in {"ready", "retry_wait"} =>
    \A d \in DependsOn[j] : job[d].status = "succeeded"

\* The run of an active job runs.
RunningOK == \A j \in Jobs : job[j].status = "active" => run[RunOf[j]] = "running"

\* An effect is not there before the command that asks for it.
Unverified == {"absent", "starting", "running"}
FreshEffects ==
  \A a \in Attempts :
    /\ attempt[a].status = "absent" => outbox[<<a, "start">>].status = "absent"
    /\ attempt[a].status \in Unverified => outbox[<<a, "verify">>].status = "absent"

EffectInv == FreshEffects /\ KnownRunsAreCancelled

\* SuccessIsVerified and FailureIsEarned, one job or one run at a time.
VerifiedOK ==
  \A j \in Jobs : job[j].status = "succeeded" =>
    /\ job[j].attempts # 0
    /\ attempt[<<j, job[j].attempts>>].status = "succeeded"
    /\ attempt[<<j, job[j].attempts>>].verification = "passed"

SucceededOK ==
  \A r \in Runs :
    (\E j \in Jobs : RunOf[j] = r) =>
      (run[r] = "succeeded" <=> \A j \in Jobs : RunOf[j] = r => job[j].status = "succeeded")

\* Why a job fails that could be tried again.
Ruled == NonretryableOutcomes \cup {"verification_failed", "verification_invalid"}

FailedOK ==
  \A j \in Jobs : job[j].status = "failed" =>
    /\ run[RunOf[j]] = "failed"
    /\ \A k \in Jobs : RunOf[k] = RunOf[j] /\ job[k].status = "failed" => k = j
    /\ job[j].attempts # 0
    /\ \/ job[j].attempts = MaxAttempts[j]
       \/ attempt[<<j, job[j].attempts>>].reason \in Ruled

FailedRunsOK ==
  \A r \in Runs : run[r] = "failed" =>
    \E j \in Jobs : RunOf[j] = r /\ job[j].status = "failed"

OutcomeInv == /\ TriesOK /\ ReadyOK /\ RunningOK
              /\ VerifiedOK /\ SucceededOK /\ FailedOK /\ FailedRunsOK

-----------------------------------------------------------------------------
(* What a command does to runs, jobs and the outcomes of attempts.         *)

Goes(k, status, tries) == job'[k].status = status /\ job'[k].attempts = tries
Stays(k) == Goes(k, job[k].status, job[k].attempts)

Details == run' = run /\ \A k \in Jobs : Stays(k)

Creates(r) ==
  /\ run[r] = "absent" /\ run' = [run EXCEPT ![r] = "created"]
  /\ \A k \in Jobs : Stays(k)

Schedules(r) ==
  /\ run[r] \in {"absent", "created"} /\ run' = [run EXCEPT ![r] = "scheduled"]
  /\ \A k \in Jobs : IF RunOf[k] = r
                     THEN Goes(k, IF DependsOn[k] = {} THEN "ready" ELSE "blocked", 0)
                     ELSE Stays(k)

Begins(j) ==
  /\ run[RunOf[j]] \in {"scheduled", "running"} /\ run' = [run EXCEPT ![RunOf[j]] = "running"]
  /\ job[j].status \in {"ready", "retry_wait"} /\ Goes(j, "active", job[j].attempts + 1)
  /\ \A k \in Jobs \ {j} : Stays(k)

Retries(a) ==
  /\ attempt[a].status \in LiveAttempts /\ Retryable(a) /\ run' = run
  /\ Goes(a[1], "retry_wait", job[a[1]].attempts)
  /\ \A k \in Jobs \ {a[1]} : Stays(k)

Succeeds(a) ==
  LET r == RunOf[a[1]]
      last == \A k \in JobsOf(r) : k = a[1] \/ job[k].status = "succeeded"
  IN /\ attempt[a].status \in LiveAttempts
     /\ attempt'[a].status = "succeeded" /\ attempt'[a].verification = "passed"
     /\ run' = [run EXCEPT ![r] = IF last THEN "succeeded" ELSE @]
     /\ \A k \in Jobs :
          CASE k = a[1] -> Goes(k, "succeeded", job[k].attempts)
            [] k # a[1] /\ k \in Unblocked(a[1]) -> Goes(k, "ready", job[k].attempts)
            [] OTHER -> Stays(k)

Fails(a) ==
  LET r == RunOf[a[1]]
  IN /\ attempt[a].status \in LiveAttempts
     /\ ~Retryable(a) \/ attempt'[a].reason \in Ruled
     /\ run' = [run EXCEPT ![r] = "failed"]
     /\ \A k \in Jobs :
          CASE k = a[1] -> Goes(k, "failed", job[k].attempts)
            [] k # a[1] /\ k \in OpenJobs(r) -> Goes(k, "cancelled", job[k].attempts)
            [] OTHER -> Stays(k)

Cancels(r) ==
  /\ run[r] \notin TerminalRuns \cup {"absent"} /\ run' = [run EXCEPT ![r] = "cancelled"]
  /\ \A k \in Jobs : IF k \in OpenJobs(r) THEN Goes(k, "cancelled", job[k].attempts) ELSE Stays(k)

Moves ==
  \/ Details
  \/ \E r \in Runs : Creates(r) \/ Schedules(r) \/ Cancels(r)
  \/ \E j \in Jobs : Begins(j)
  \/ \E a \in Attempts : Retries(a) \/ Succeeds(a) \/ Fails(a)

\* What has ended stays as it is; of an attempt its outcome.
JobsKept == \A j \in Jobs : job[j].status \in TerminalJobs => job'[j] = job[j]

AttemptsKept ==
  \A a \in Attempts : attempt[a].status \notin LiveAttempts \cup {"absent"} =>
    /\ attempt'[a].status = attempt[a].status
    /\ attempt'[a].reason = attempt[a].reason
    /\ attempt'[a].verification = attempt[a].verification

SettledEffects == {"delivered", "dead_letter", "obsolete"}
EffectsKept == \A x \in Messages : outbox[x].status \in SettledEffects => outbox'[x] = outbox[x]

Kept == JobsKept /\ AttemptsKept /\ EffectsKept

-----------------------------------------------------------------------------
(* The helpers of the commands.                                            *)

LEMMA EndedGoes ==
  ASSUME Inv, NEW k \in Jobs, NEW status \in JobStatuses, job'[k] = Ended(k, status)
  PROVE  Goes(k, status, job[k].attempts)
  BY EndedIsClosed DEF Inv, Goes

\* Only effects that are open or not yet there change.
LEMMA EffectsAfterKept ==
  ASSUME NEW over, NEW told, NEW x \in Messages, outbox[x].status \in SettledEffects
  PROVE  EffectsAfter(over, told)[x] = outbox[x]
  BY DEF EffectsAfter, SettledEffects

LEMMA FailRunMoves ==
  ASSUME Inv, NEW a \in Attempts, attempt[a].status \in LiveAttempts, NEW ended,
         FailRun(a, ended), ~Retryable(a) \/ ended.reason \in Ruled
  PROVE  Fails(a) /\ JobsKept /\ AttemptsKept
<1> DEFINE r == RunOf[a[1]]
<1>1. IsActive(a) /\ a[1] \in OpenJobs(r) /\ r \in Runs /\ a[1] \in Jobs
  BY LiveAttemptIsActive, AttemptIsPair
<1>2. attempt'[a] = ended /\ run' = [run EXCEPT ![r] = "failed"]
  <2>1. attempt' = [b \in Attempts |->
                     CASE b = a -> ended
                       [] b \in ActiveAttempts(Siblings(a)) -> Finished(b, "run_failed")
                       [] OTHER -> attempt[b]]
    BY DEF FailRun
  <2>2. a \notin ActiveAttempts(Siblings(a))
    BY DEF ActiveAttempts, Siblings
  <2> QED
    BY <2>1, <2>2 DEF FailRun
<1>3. \A k \in Jobs : job'[k] = CASE k = a[1] -> Ended(k, "failed")
                                  [] k # a[1] /\ k \in OpenJobs(r) -> Ended(k, "cancelled")
                                  [] OTHER -> job[k]
  BY DEF FailRun, Siblings
<1>4. ASSUME NEW k \in Jobs
      PROVE  CASE k = a[1] -> Goes(k, "failed", job[k].attempts)
               [] k # a[1] /\ k \in OpenJobs(r) -> Goes(k, "cancelled", job[k].attempts)
               [] OTHER -> Stays(k)
  <2>1. "failed" \in JobStatuses /\ "cancelled" \in JobStatuses
    BY DEF JobStatuses, TerminalJobs
  <2>2. CASE k = a[1]
    <3>1. job'[k] = Ended(k, "failed")
      BY <1>3, <2>2
    <3> QED
      BY <2>1, <2>2, <3>1, EndedGoes
  <2>3. CASE k # a[1] /\ k \in OpenJobs(r)
    <3>1. job'[k] = Ended(k, "cancelled")
      BY <1>3, <2>3
    <3> QED
      BY <2>1, <2>3, <3>1, EndedGoes
  <2>4. CASE k # a[1] /\ k \notin OpenJobs(r)
    BY <1>3, <2>4 DEF Stays, Goes
  <2> QED
    BY <2>2, <2>3, <2>4
<1>5. JobsKept
  BY <1>1, <1>3 DEF JobsKept, OpenJobs
<1>6. AttemptsKept
  <2>1. \A b \in Attempts : b # a /\ b \notin ActiveAttempts(Siblings(a)) => attempt'[b] = attempt[b]
    BY DEF FailRun
  <2>2. \A b \in ActiveAttempts(Siblings(a)) : b \in Attempts => attempt[b].status \in LiveAttempts
    BY ActiveAttemptsAreLive DEF Inv, JobsInv, OneLiveAttempt
  <2> QED
    BY <2>1, <2>2 DEF AttemptsKept
<1> QED
  BY <1>2, <1>4, <1>5, <1>6 DEF Fails

LEMMA RetryMoves ==
  ASSUME Inv, NEW a \in Attempts, attempt[a].status \in LiveAttempts, NEW ended,
         FailAttempt(a, ended), Retryable(a)
  PROVE  Retries(a) /\ JobsKept /\ AttemptsKept
<1> DEFINE waiting == [Ended(a[1], "retry_wait") EXCEPT !.due = FALSE]
<1>1. a[1] \in OpenJobs(RunOf[a[1]]) /\ a[1] \in Jobs
  BY LiveAttemptIsActive, AttemptIsPair
<1>2. job' = [job EXCEPT ![a[1]] = waiting] /\ attempt' = [attempt EXCEPT ![a] = ended]
      /\ run' = run
  BY DEF FailAttempt
<1>3. waiting.status = "retry_wait" /\ waiting.attempts = job[a[1]].attempts
  <2>1. Ended(a[1], "retry_wait") \in JobRecord
    BY <1>1, EndedType DEF Inv, JobStatuses
  <2> QED
    BY <1>1, <2>1, EndedIsClosed DEF Inv, JobStatuses, JobRecord
<1>4. \A k \in Jobs : job'[k] = IF k = a[1] THEN waiting ELSE job[k]
  BY <1>2 DEF Inv, TypeOK
<1> HIDE DEF waiting
<1>5. Retries(a)
  BY <1>1, <1>2, <1>3, <1>4 DEF Retries, Goes, Stays
<1>6. JobsKept
  BY <1>1, <1>4 DEF JobsKept, OpenJobs
<1>7. AttemptsKept
  BY <1>2 DEF AttemptsKept, Inv, TypeOK
<1> QED
  BY <1>5, <1>6, <1>7

LEMMA FailureEffectsKept ==
  ASSUME NEW a, NEW why, NEW x \in Messages, outbox[x].status \in SettledEffects
  PROVE  FailureEffects(a, why)[x] = outbox[x]
  BY EffectsAfterKept DEF FailureEffects, RunFailedEffects

LEMMA FailAttemptMoves ==
  ASSUME Inv, NEW a \in Attempts, attempt[a].status \in LiveAttempts, NEW ended,
         FailAttempt(a, ended), EffectsKept
  PROVE  Moves /\ Kept
<1>1. (Retries(a) \/ Fails(a)) /\ JobsKept /\ AttemptsKept
  BY RetryMoves, FailRunMoves DEF FailAttempt
<1> QED
  BY <1>1 DEF Moves, Kept

LEMMA FailRunGoes ==
  ASSUME Inv, NEW a \in Attempts, attempt[a].status \in LiveAttempts, NEW ended,
         FailRun(a, ended), ended.reason \in Ruled, EffectsKept
  PROVE  Moves /\ Kept
  BY FailRunMoves DEF Moves, Kept

-----------------------------------------------------------------------------
(* What each command does.                                                 *)

LEMMA DetailsMove ==
  ASSUME \A k \in Jobs : Stays(k), run' = run
  PROVE  Moves
  BY DEF Moves, Details

LEMMA OperatorMoves ==
  ASSUME Inv, NEW r \in Runs, OperatorStep(r)
  PROVE  Moves /\ Kept
<1>1. CASE CreateRun(r)
  <2>1. Creates(r)
    BY <1>1 DEF CreateRun, Creates, Goes, Stays
  <2> QED
    BY <1>1, <2>1 DEF CreateRun, Moves, Kept, JobsKept, AttemptsKept, EffectsKept
<1>2. ASSUME run[r] \in {"absent", "created"}, Schedule(r)
      PROVE  Moves /\ Kept
  <2>1. Schedules(r)
    BY <1>2 DEF Schedule, Schedules, Goes, Stays, NoJob
  <2>2. JobsKept
    BY <1>2 DEF JobsKept, Schedule, Inv, RunsInv, UnscheduledRunsAreEmpty, JobsOf, TerminalJobs
  <2> QED
    BY <1>2, <2>1, <2>2 DEF Schedule, Moves, Kept, AttemptsKept, EffectsKept
<1>3. CASE CancelRun(r)
  <2>1. Cancels(r)
    <3>1. "cancelled" \in JobStatuses
      BY DEF JobStatuses, TerminalJobs
    <3>2. ASSUME NEW k \in Jobs
          PROVE  IF k \in OpenJobs(r) THEN Goes(k, "cancelled", job[k].attempts) ELSE Stays(k)
      BY <1>3, <3>1, EndedGoes DEF CancelRun, Goes, Stays
    <3> QED
      BY <1>3, <3>2 DEF CancelRun, Cancels
  <2>2. JobsKept
    BY <1>3 DEF CancelRun, JobsKept, OpenJobs
  <2>3. AttemptsKept
    <3>1. \A b \in Attempts : b \notin ActiveAttempts(OpenJobs(r)) => attempt'[b] = attempt[b]
      BY <1>3 DEF CancelRun
    <3>2. \A b \in ActiveAttempts(OpenJobs(r)) : b \in Attempts => attempt[b].status \in LiveAttempts
      BY ActiveAttemptsAreLive DEF Inv, JobsInv, OneLiveAttempt
    <3> QED
      BY <3>1, <3>2 DEF AttemptsKept
  <2>4. EffectsKept
    BY <1>3, EffectsAfterKept DEF CancelRun, EffectsKept
  <2> QED
    BY <2>1, <2>2, <2>3, <2>4 DEF Moves, Kept
<1> QED
  BY <1>1, <1>2, <1>3 DEF OperatorStep, ScheduleRun, StartMilestone

LEMMA JobMoves ==
  ASSUME Inv, RunningOK, FreshEffects, NEW o \in Owners, NEW j \in Jobs, JobStep(o, j)
  PROVE  Moves /\ Kept
<1>1. RunOf[j] \in Runs /\ job[j] \in JobRecord /\ run[RunOf[j]] \in RunStatuses
  BY JobExecutionAssumption DEF Inv, TypeOK
<1>2. CASE ResumeJob(o, j)
  <2>1. \A k \in Jobs : Stays(k)
    BY <1>1, <1>2 DEF ResumeJob, Leased, JobRecord, Inv, TypeOK, Stays, Goes
  <2>2. run' = run
    BY <1>1, <1>2 DEF ResumeJob, RunStarted, RunningOK, Inv, TypeOK
  <2>3. JobsKept
    BY <1>2 DEF ResumeJob, JobsKept, TerminalJobs, Inv, TypeOK
  <2> QED
    BY <1>2, <2>1, <2>2, <2>3, DetailsMove DEF ResumeJob, Kept, AttemptsKept, EffectsKept
<1>3. CASE AcquireJob(o, j)
  <2> DEFINE n == job[j].attempts + 1
             new == <<j, n>>
  <2>1. /\ job'[j].status = "active" /\ job'[j].attempts = n
        /\ \A k \in Jobs : k # j => job'[k] = job[k]
    <3>0. job[j].fence + 1 \in Nat /\ n \in Nat
      BY <1>1 DEF JobRecord
    <3>1. Leased(j, o) \in [status : {"active"}, attempts : Nat, active : Nat, owner : {o},
                             fence : Nat, lease : Leases, due : BOOLEAN]
      BY <1>1, <3>0 DEF Leased, JobRecord, Leases
    <3>2. [Leased(j, o) EXCEPT !.attempts = n, !.active = n].status = "active"
          /\ [Leased(j, o) EXCEPT !.attempts = n, !.active = n].attempts = n
      BY <3>1
    <3> QED
      BY <1>3, <3>2 DEF AcquireJob, Inv, TypeOK
  <2>2. Begins(j)
    <3>1. run[RunOf[j]] \in {"scheduled", "running"}
      BY <1>1, <1>3 DEF AcquireJob, Inv, RunsInv, UnscheduledRunsAreEmpty, JobsOf, RunStatuses
    <3>2. run' = [run EXCEPT ![RunOf[j]] = "running"]
      BY <1>1, <1>3, <3>1 DEF AcquireJob, RunStarted, Inv, TypeOK
    <3> QED
      BY <1>3, <2>1, <3>1, <3>2 DEF AcquireJob, Begins, Goes, Stays
  <2>3. JobsKept
    BY <1>3, <2>1 DEF AcquireJob, JobsKept, TerminalJobs
  <2>4. AttemptsKept
    <3>1. \A a \in Attempts : a # new => attempt'[a] = attempt[a]
      BY <1>3 DEF AcquireJob, Inv, TypeOK
    <3>2. new \in Attempts => attempt[new].status = "absent"
      <4>1. n > job[j].attempts
        BY <1>1 DEF JobRecord
      <4> QED
        BY <4>1 DEF Inv, JobsInv, OneLiveAttempt
    <3> HIDE DEF new
    <3> QED
      BY <3>1, <3>2 DEF AttemptsKept
  <2>5. EffectsKept
    <3>1. \A x \in Messages : x # <<new, "start">> => outbox'[x] = outbox[x]
      BY <1>3 DEF AcquireJob, Inv, TypeOK
    <3>2. <<new, "start">> \in Messages => outbox[<<new, "start">>].status = "absent"
      <4>1. <<new, "start">> \in Messages => new \in Attempts
        BY DEF Messages
      <4>2. n > job[j].attempts
        BY <1>1 DEF JobRecord
      <4>3. new \in Attempts => attempt[new].status = "absent"
        BY <4>2 DEF Inv, JobsInv, OneLiveAttempt
      <4> HIDE DEF new
      <4> QED
        BY <4>1, <4>3 DEF FreshEffects
    <3> HIDE DEF new
    <3> QED
      BY <3>1, <3>2 DEF EffectsKept, SettledEffects
  <2> QED
    BY <2>2, <2>3, <2>4, <2>5 DEF Moves, Kept
<1>4. ASSUME NEW f \in Fences, RenewJob(o, f, j)
      PROVE  Moves /\ Kept
  <2>1. run' = run /\ job' = job /\ attempt' = attempt /\ outbox' = outbox
    BY <1>4 DEF RenewJob, vars
  <2> QED
    BY <2>1, DetailsMove DEF Stays, Goes, Kept, JobsKept, AttemptsKept, EffectsKept
<1>5. ASSUME NEW f \in Fences, ReleaseJob(o, f, j)
      PROVE  Moves /\ Kept
  <2>1. \A k \in Jobs : Stays(k)
    BY <1>1, <1>5 DEF ReleaseJob, JobRecord, Inv, TypeOK, Stays, Goes
  <2>2. JobsKept
    BY <1>5 DEF ReleaseJob, HoldsJob, JobsKept, TerminalJobs,
                Inv, TypeOK, JobsInv, LeasedJobsAreActive
  <2> QED
    BY <1>5, <2>1, <2>2, DetailsMove DEF ReleaseJob, Kept, AttemptsKept, EffectsKept
<1> QED
  BY <1>2, <1>3, <1>4, <1>5 DEF JobStep

\* What has no say in outcomes: details of attempts, and one effect at a time.
LEMMA QuietMoves ==
  ASSUME UNCHANGED <<run, job>>, EffectsKept,
         \A a \in Attempts :
           /\ attempt'[a].status = attempt[a].status \/ attempt[a].status \in LiveAttempts
           /\ attempt'[a].reason = attempt[a].reason
           /\ attempt'[a].verification = attempt[a].verification
              \/ attempt[a].status \in LiveAttempts
  PROVE  Moves /\ Kept
<1>1. Moves
  BY DetailsMove DEF Stays, Goes
<1> QED
  BY <1>1 DEF Kept, JobsKept, AttemptsKept

LEMMA OneEffectKept ==
  ASSUME Inv, NEW x \in Messages, outbox[x].status \notin SettledEffects, NEW m,
         outbox' = [outbox EXCEPT ![x] = m]
  PROVE  EffectsKept
  BY DEF EffectsKept, Inv, TypeOK

LEMMA RequestMoves ==
  ASSUME Inv, FreshEffects, NEW a \in Attempts, attempt[a].status = "running",
         NEW to, to.reason = attempt[a].reason, to \in AttemptRecord, RequestVerification(a, to)
  PROVE  Moves /\ Kept
<1> DEFINE next == [to EXCEPT !.status = "verifying", !.verification = "requested"]
<1>1. \A b \in Attempts : attempt'[b] = IF b = a THEN next ELSE attempt[b]
  BY DEF RequestVerification, Inv, TypeOK
<1>2. next.reason = attempt[a].reason
  BY DEF AttemptRecord
<1>3. <<a, "verify">> \in Messages /\ outbox[<<a, "verify">>].status \notin SettledEffects
  BY EffectIsMessage DEF Effects, FreshEffects, Unverified, SettledEffects
<1>4. EffectsKept
  BY <1>3, OneEffectKept DEF RequestVerification
<1>5. attempt[a].status \in LiveAttempts
  BY DEF LiveAttempts
<1> HIDE DEF next
<1> QED
  BY <1>1, <1>2, <1>4, <1>5, QuietMoves DEF RequestVerification

LEMMA AttemptMoves ==
  ASSUME Inv, FreshEffects, NEW o \in Owners, NEW f \in Fences, NEW a \in Attempts,
         AttemptStep(o, f, a)
  PROVE  Moves /\ Kept
<1>0. attempt[a] \in AttemptRecord
  BY DEF Inv, TypeOK
<1>1. ASSUME NEW after \in Cursors, NEW n \in 1..EventLimit, ObserveDriverEvents(o, f, a, after, n)
      PROVE  Moves /\ Kept
  <2>1. \A b \in Attempts : /\ attempt'[b].status = attempt[b].status
                            /\ attempt'[b].verification = attempt[b].verification
                            /\ attempt'[b].reason = attempt[b].reason
    BY <1>0, <1>1 DEF ObserveDriverEvents, Inv, TypeOK, AttemptRecord
  <2> QED
    BY <1>1, <2>1, QuietMoves DEF ObserveDriverEvents, EffectsKept
<1>2. ASSUME NEW outcome \in ReceiptOutcomes, NEW count \in Cursors,
             RecordDriverReceipt(o, f, a, outcome, count)
      PROVE  Moves /\ Kept
  <2>0. attempt[a].status = "running" /\ attempt[a].status \in LiveAttempts
    BY <1>2 DEF RecordDriverReceipt, LiveAttempts
  <2>1. CASE outcome = "succeeded"
    <3> DEFINE to == [attempt[a] EXCEPT !.receipt = outcome]
    <3>1. to \in AttemptRecord /\ to.reason = attempt[a].reason
      BY <1>0 DEF AttemptRecord
    <3>2. RequestVerification(a, to)
      BY <1>2, <2>1 DEF RecordDriverReceipt, NonretryableOutcomes
    <3> HIDE DEF to
    <3> QED
      BY <2>0, <3>1, <3>2, RequestMoves
  <2>2. CASE outcome \in {"failed", "timed_out"}
    <3> DEFINE why == IF outcome = "timed_out" THEN "timed_out" ELSE "driver_error"
               ended == [Finished(a, why) EXCEPT !.receipt = outcome]
    <3>1. FailAttempt(a, ended) /\ outbox' = FailureEffects(a, why)
      BY <1>2, <2>2 DEF RecordDriverReceipt, NonretryableOutcomes
    <3> HIDE DEF why, ended
    <3>2. EffectsKept
      BY <3>1, FailureEffectsKept DEF EffectsKept
    <3> QED
      BY <2>0, <3>1, <3>2, FailAttemptMoves
  <2>3. CASE outcome \in NonretryableOutcomes
    <3> DEFINE ended == [Finished(a, outcome) EXCEPT !.receipt = outcome]
    <3>1. FailRun(a, ended) /\ outbox' = RunFailedEffects(a, {})
      BY <1>2, <2>3 DEF RecordDriverReceipt, NonretryableOutcomes
    <3>2. ended.reason \in Ruled
      <4>1. Finished(a, outcome).reason = outcome
        BY <1>0 DEF Finished, AttemptRecord
      <4>2. Finished(a, outcome) \in AttemptRecord
        BY <2>3, FinishedType DEF Inv, Reasons, NonretryableOutcomes
      <4>3. ended.reason = Finished(a, outcome).reason
        BY <4>2 DEF AttemptRecord
      <4> QED
        BY <2>3, <4>1, <4>3 DEF Ruled
    <3> HIDE DEF ended
    <3>3. EffectsKept
      BY <3>1, EffectsAfterKept DEF EffectsKept, RunFailedEffects
    <3> QED
      BY <2>0, <3>1, <3>2, <3>3, FailRunGoes
  <2> QED
    BY <2>1, <2>2, <2>3 DEF ReceiptOutcomes
<1>3. ASSUME NEW outcome \in {"succeeded", "failed"}, ObserveAttempt(o, f, a, outcome)
      PROVE  Moves /\ Kept
  <2>1. attempt[a].status = "running" /\ attempt[a].status \in LiveAttempts
    BY <1>3 DEF ObserveAttempt, LiveAttempts
  <2>2. CASE outcome = "failed"
    <3>1. FailAttempt(a, Finished(a, "driver_error"))
          /\ outbox' = FailureEffects(a, "driver_error")
      BY <1>3, <2>2 DEF ObserveAttempt
    <3>2. EffectsKept
      BY <3>1, FailureEffectsKept DEF EffectsKept
    <3> QED
      BY <2>1, <3>1, <3>2, FailAttemptMoves
  <2>3. CASE outcome = "succeeded"
    BY <1>0, <1>3, <2>1, <2>3, RequestMoves DEF ObserveAttempt
  <2> QED
    BY <2>2, <2>3
<1>4. ASSUME TimeoutAttempt(o, f, a)
      PROVE  Moves /\ Kept
  <2>1. attempt[a].status \in LiveAttempts
    BY <1>4 DEF TimeoutAttempt, Inv, JobsInv, OneLiveAttempt
  <2>2. FailAttempt(a, Finished(a, "timed_out")) /\ outbox' = FailureEffects(a, "timed_out")
    BY <1>4 DEF TimeoutAttempt
  <2>3. EffectsKept
    BY <2>2, FailureEffectsKept DEF EffectsKept
  <2> QED
    BY <2>1, <2>2, <2>3, FailAttemptMoves
<1> QED
  BY <1>1, <1>2, <1>3, <1>4 DEF AttemptStep

LEMMA VerificationMoves ==
  ASSUME Inv, NEW o \in Owners, NEW f \in Fences, NEW g \in Deliveries, NEW a \in Attempts,
         VerificationStep(o, f, g, a)
  PROVE  Moves /\ Kept
<1>0. /\ <<a, "verify">> \in Messages /\ a[1] \in Jobs /\ RunOf[a[1]] \in Runs
      /\ attempt[a] \in AttemptRecord
  BY EffectIsMessage, AttemptIsPair, JobExecutionAssumption DEF Effects, Inv, TypeOK
<1>1. ASSUME HoldsVerification(o, f, g, a)
      PROVE  /\ attempt[a].status \in LiveAttempts
             /\ outbox[<<a, "verify">>].status \notin SettledEffects
  BY <1>0, <1>1, HoldsOpenMessage DEF HoldsVerification, LiveAttempts, SettledEffects
<1>2. ASSUME NEW outcome \in {"passed", "failed", "invalid"},
             CompleteVerification(o, f, g, a, outcome)
      PROVE  Moves /\ Kept
  <2>0. /\ attempt[a].status \in LiveAttempts
        /\ outbox[<<a, "verify">>].status \notin SettledEffects
    BY <1>1, <1>2 DEF CompleteVerification
  <2>1. CASE outcome = "passed"
    <3> DEFINE ended == [Finished(a, "completed") EXCEPT !.verification = outcome]
    <3>1. /\ SucceedJob(a[1]) /\ attempt' = [attempt EXCEPT ![a] = ended]
          /\ outbox' = [outbox EXCEPT ![<<a, "verify">>] = Closed(<<a, "verify">>, "delivered")]
      BY <1>2, <2>1 DEF CompleteVerification
    <3>2. ended.status = "succeeded" /\ ended.verification = "passed"
      <4>1. Finished(a, "completed") \in AttemptRecord
        BY FinishedType DEF Inv, Reasons
      <4>2. Finished(a, "completed").status = "succeeded"
        BY <1>0 DEF Finished, StatusFor, AttemptRecord
      <4> QED
        BY <2>1, <4>1, <4>2 DEF AttemptRecord
    <3> HIDE DEF ended
    <3>3. \A b \in Attempts : attempt'[b] = IF b = a THEN ended ELSE attempt[b]
      BY <3>1 DEF Inv, TypeOK
    <3>4. a[1] \notin Unblocked(a[1]) /\ a[1] \in OpenJobs(RunOf[a[1]])
          /\ job[a[1]].status = "active"
      BY <1>0, <2>0, LiveAttemptIsActive, AttemptIsPair
      DEF Unblocked, Inv, JobsInv, OneLiveAttempt, IsActive
    <3>5. \A k \in Jobs : job'[k] = CASE k = a[1] -> Ended(k, "succeeded")
                              [] k # a[1] /\ k \in Unblocked(a[1])
                                   -> [job[k] EXCEPT !.status = "ready", !.due = TRUE]
                              [] OTHER -> job[k]
      BY <3>1, <3>4 DEF SucceedJob
    <3>6. ASSUME NEW k \in Jobs
          PROVE  CASE k = a[1] -> Goes(k, "succeeded", job[k].attempts)
                   [] k # a[1] /\ k \in Unblocked(a[1]) -> Goes(k, "ready", job[k].attempts)
                   [] OTHER -> Stays(k)
      <4>1. CASE k = a[1]
        <5>1. job'[k] = Ended(k, "succeeded") /\ "succeeded" \in JobStatuses
          BY <3>5, <4>1 DEF JobStatuses, TerminalJobs
        <5> QED
          BY <4>1, <5>1, EndedGoes
      <4>2. CASE k # a[1] /\ k \in Unblocked(a[1])
        <5>1. job'[k] = [job[k] EXCEPT !.status = "ready", !.due = TRUE]
          BY <3>5, <4>2
        <5> QED
          BY <4>2, <5>1 DEF Goes, Inv, TypeOK, JobRecord
      <4>3. CASE k # a[1] /\ k \notin Unblocked(a[1])
        BY <3>5, <4>3 DEF Stays, Goes
      <4> QED
        BY <4>1, <4>2, <4>3
    <3>7. Succeeds(a)
      BY <2>0, <3>1, <3>2, <3>3, <3>6 DEF Succeeds, SucceedJob
    <3>8. JobsKept
      BY <3>4, <3>5 DEF JobsKept, Unblocked, TerminalJobs
    <3>9. AttemptsKept /\ EffectsKept
      BY <1>0, <2>0, <3>1, <3>3, OneEffectKept DEF AttemptsKept
    <3> QED
      BY <3>7, <3>8, <3>9 DEF Moves, Kept
  <2>2. CASE outcome \in {"failed", "invalid"}
    <3> DEFINE why == IF outcome = "failed" THEN "verification_failed" ELSE "verification_invalid"
               gone == ActiveAttempts(Siblings(a))
               out == EffectsAfter(gone, Known(gone))
               ended == [Finished(a, why) EXCEPT !.verification = outcome]
    <3>1. /\ FailRun(a, ended)
          /\ outbox' = [out EXCEPT ![<<a, "verify">>] = Closed(<<a, "verify">>, "delivered")]
      BY <1>2, <2>2 DEF CompleteVerification
    <3>2. ended.reason \in Ruled
      <4>1. why \in Reasons \ {"none"} /\ why \in Ruled
        BY DEF Reasons, Ruled
      <4> HIDE DEF why
      <4>2. Finished(a, why).reason = why
        BY <1>0 DEF Finished, AttemptRecord
      <4>3. Finished(a, why) \in AttemptRecord
        BY <4>1, FinishedType DEF Inv
      <4>4. ended.reason = Finished(a, why).reason
        BY <4>3 DEF AttemptRecord
      <4> QED
        BY <4>1, <4>2, <4>4
    <3>3. EffectsKept
      <4>1. \A x \in Messages : x # <<a, "verify">> => outbox'[x] = out[x]
        BY <3>1, EffectsAfterType DEF Inv
      <4> QED
        BY <2>0, <4>1, EffectsAfterKept DEF EffectsKept
    <3> HIDE DEF ended
    <3> QED
      BY <2>0, <3>1, <3>2, <3>3, FailRunGoes
  <2> QED
    BY <2>1, <2>2
<1>3. ASSUME NEW why \in {"timed_out", "driver_error"}, FailVerification(o, f, g, a, why)
      PROVE  Moves /\ Kept
  <2>1. FailAttempt(a, Finished(a, why)) /\ outbox' = FailureEffects(a, why)
        /\ attempt[a].status \in LiveAttempts
    BY <1>1, <1>3 DEF FailVerification
  <2>2. EffectsKept
    BY <2>1, FailureEffectsKept DEF EffectsKept
  <2> QED
    BY <2>1, <2>2, FailAttemptMoves
<1> QED
  BY <1>2, <1>3 DEF VerificationStep

LEMMA DeliveryMoves ==
  ASSUME Inv, NEW o \in Owners, NEW g \in Deliveries, NEW a \in Attempts, DeliveryStep(o, g, a)
  PROVE  Moves /\ Kept
<1>0. /\ attempt[a] \in AttemptRecord
      /\ \A e \in Effects : <<a, e>> \in Messages
  BY EffectIsMessage DEF Inv, TypeOK
<1>1. ASSUME NEW e \in Effects, HoldsMessage(o, g, <<a, e>>)
      PROVE  /\ outbox[<<a, e>>].status \notin SettledEffects
             /\ e # "cancel" => attempt[a].status \in LiveAttempts \ TerminalAttempts
  <2>1. outbox[<<a, e>>].status = "leased"
    BY <1>0, <1>1, HoldsOpenMessage
  <2> QED
    BY <2>1, LiveLeaseOnEffect DEF SettledEffects, Effects, Open, LiveAttempts, TerminalAttempts
<1>2. CASE DeliverStart(o, g, a)
  <2>1. attempt[a].status \in LiveAttempts \ TerminalAttempts
        /\ outbox[<<a, "start">>].status \notin SettledEffects
    BY <1>1, <1>2 DEF DeliverStart, Effects
  <2>2. EffectsKept
    BY <1>0, <1>2, <2>1, OneEffectKept DEF DeliverStart, Effects
  <2>3. ASSUME NEW b \in Attempts
        PROVE  /\ b # a => attempt'[b] = attempt[b]
               /\ attempt'[b].reason = attempt[b].reason
    BY <1>0, <1>2, <2>1 DEF DeliverStart, Inv, TypeOK, AttemptRecord
  <2> QED
    BY <1>2, <2>1, <2>2, <2>3, QuietMoves DEF DeliverStart
<1>3. CASE DeliverCancel(o, g, a)
  BY <1>0, <1>1, <1>3, OneEffectKept, QuietMoves DEF DeliverCancel, Effects
<1>4. ASSUME NEW e \in Effects, RetryDelivery(o, g, <<a, e>>)
      PROVE  Moves /\ Kept
  BY <1>0, <1>1, <1>4, OneEffectKept, QuietMoves DEF RetryDelivery
<1>5. ASSUME NEW e \in Effects, DeadLetter(o, g, <<a, e>>)
      PROVE  Moves /\ Kept
  <2>0. outbox[<<a, e>>].status \notin SettledEffects
    BY <1>1, <1>5 DEF DeadLetter
  <2>1. CASE e # "cancel"
    <3>1. attempt[a].status \in LiveAttempts \ TerminalAttempts
      BY <1>1, <1>5, <2>1 DEF DeadLetter
    <3>2. /\ FailAttempt(a, Finished(a, "driver_error"))
          /\ outbox' = [FailureEffects(a, "driver_error")
                        EXCEPT ![<<a, e>>] = Closed(<<a, e>>, "dead_letter")]
      BY <1>5, <2>1, <3>1 DEF DeadLetter
    <3>3. EffectsKept
      <4>1. \A x \in Messages : x # <<a, e>> => outbox'[x] = FailureEffects(a, "driver_error")[x]
        BY <3>2, FailureEffectsType DEF Inv
      <4> QED
        BY <2>0, <4>1, FailureEffectsKept DEF EffectsKept
    <3> QED
      BY <3>1, <3>2, <3>3, FailAttemptMoves
  <2>2. CASE e = "cancel"
    BY <1>0, <1>5, <2>0, <2>2, OneEffectKept, QuietMoves DEF DeadLetter
  <2> QED
    BY <2>1, <2>2
<1>6. ASSUME NEW outcome \in ReceiptOutcomes, NEW count \in Cursors,
             RecordTerminalReceipt(o, g, a, outcome, count)
      PROVE  Moves /\ Kept
  <2>1. \A b \in Attempts : /\ attempt'[b].status = attempt[b].status
                            /\ attempt'[b].verification = attempt[b].verification
                            /\ attempt'[b].reason = attempt[b].reason
    BY <1>0, <1>6 DEF RecordTerminalReceipt, Inv, TypeOK, AttemptRecord
  <2> QED
    BY <1>6, <2>1, QuietMoves DEF RecordTerminalReceipt, EffectsKept
<1> QED
  BY <1>2, <1>3, <1>4, <1>5, <1>6 DEF DeliveryStep

LEMMA AcquireMessageMoves ==
  ASSUME Inv, NEW o \in Owners, NEW x \in Messages, AcquireMessage(o, x)
  PROVE  Moves /\ Kept
<1>1. outbox[x].status \notin SettledEffects
  BY DEF AcquireMessage, SettledEffects
<1>2. EffectsKept
  BY <1>1, OneEffectKept DEF AcquireMessage
<1> QED
  BY <1>2, QuietMoves DEF AcquireMessage

LEMMA ClockMoves ==
  ASSUME Inv, ClockStep
  PROVE  Moves /\ Kept
<1>1. ASSUME NEW j \in Jobs, ExpireJobLease(j) \/ JobBecomesDue(j)
      PROVE  Moves /\ Kept
  <2>1. \A k \in Jobs : Stays(k)
    BY <1>1 DEF ExpireJobLease, JobBecomesDue, JobRecord, Inv, TypeOK, Stays, Goes
  <2>2. JobsKept
    BY <1>1 DEF ExpireJobLease, JobBecomesDue, JobsKept, TerminalJobs,
                Inv, TypeOK, JobsInv, LeasedJobsAreActive
  <2> QED
    BY <1>1, <2>1, <2>2, DetailsMove
    DEF ExpireJobLease, JobBecomesDue, Kept, AttemptsKept, EffectsKept
<1>2. ASSUME NEW x \in Messages, ExpireMessageLease(x) \/ MessageBecomesDue(x)
      PROVE  Moves /\ Kept
  <2>1. outbox[x].status \notin SettledEffects
    BY <1>2 DEF ExpireMessageLease, MessageBecomesDue, SettledEffects,
                Inv, EffectsInv, LeasedEffectsAreTaken
  <2>2. EffectsKept
    BY <1>2, <2>1 DEF ExpireMessageLease, MessageBecomesDue, EffectsKept, Inv, TypeOK
  <2> QED
    BY <1>2, <2>2, QuietMoves DEF ExpireMessageLease, MessageBecomesDue
<1>3. ASSUME NEW a \in Attempts, DeadlinePasses(a)
      PROVE  Moves /\ Kept
  <2>1. \A b \in Attempts : /\ attempt'[b].status = attempt[b].status
                            /\ attempt'[b].verification = attempt[b].verification
                            /\ attempt'[b].reason = attempt[b].reason
    BY <1>3 DEF DeadlinePasses, Inv, TypeOK, AttemptRecord
  <2> QED
    BY <1>3, <2>1, QuietMoves DEF DeadlinePasses, EffectsKept
<1> QED
  BY <1>1, <1>2, <1>3 DEF ClockStep

LEMMA NextMoves ==
  ASSUME Inv, RunningOK, FreshEffects, [Next]_vars
  PROVE  Moves /\ Kept
<1>1. CASE UNCHANGED vars
  BY <1>1, QuietMoves DEF vars, EffectsKept
<1>2. ASSUME NEW o \in Owners, SupervisorStep(o)
      PROVE  Moves /\ Kept
  BY <1>2, JobMoves, AcquireMessageMoves, AttemptMoves, DeliveryMoves, VerificationMoves
  DEF SupervisorStep
<1> QED
  BY <1>1, <1>2, OperatorMoves, ClockMoves DEF Next

-----------------------------------------------------------------------------
(* Each of the eight keeps outcomes earned.                                *)

LEMMA JobFacts ==
  ASSUME Inv, NEW j \in Jobs
  PROVE  /\ RunOf[j] \in Runs /\ job[j].attempts \in Nat /\ job[j].status \in JobStatuses
         /\ MaxAttempts[j] \in 1..AttemptLimit /\ AttemptLimit \in Nat
         /\ DependsOn[j] \subseteq Jobs
         /\ \A d \in DependsOn[j] : RunOf[d] = RunOf[j] /\ d # j
<1>1. j \in JobsOf(RunOf[j]) /\ RunOf[j] \in Runs
  BY JobExecutionAssumption DEF JobsOf
<1> QED
  BY <1>1, JobExecutionAssumption DEF ValidWorkflow, JobsOf, Inv, TypeOK, JobRecord

\* A live attempt is the newest of an active job.
LEMMA LiveFacts ==
  ASSUME Inv, NEW a \in Attempts, attempt[a].status \in LiveAttempts
  PROVE  /\ a[1] \in Jobs /\ job[a[1]].status = "active" /\ job[a[1]].attempts # 0
         /\ a = <<a[1], job[a[1]].attempts>>
<1>1. a[1] \in Jobs /\ a = <<a[1], a[2]>> /\ a[2] # 0
  BY AttemptIsPair
<1>2. job[a[1]].active = a[2]
  BY DEF Inv, JobsInv, OneLiveAttempt, IsActive
<1> QED
  BY <1>1, <1>2 DEF Inv, JobsInv, OneLiveAttempt

\* The newest attempt of a job that is over keeps its outcome.
LEMMA EvidenceStays ==
  ASSUME Inv, TriesOK, AttemptsKept, NEW j \in Jobs,
         job[j].status \in TerminalJobs, job[j].attempts # 0
  PROVE  /\ attempt'[<<j, job[j].attempts>>].status = attempt[<<j, job[j].attempts>>].status
         /\ attempt'[<<j, job[j].attempts>>].reason = attempt[<<j, job[j].attempts>>].reason
         /\ attempt'[<<j, job[j].attempts>>].verification
              = attempt[<<j, job[j].attempts>>].verification
<1> DEFINE n == job[j].attempts
           b == <<j, n>>
<1>1. n \in Ordinals
  BY JobFacts DEF TriesOK, Ordinals
<1>2. b \in Attempts /\ b[1] = j /\ b[2] = n
  BY <1>1 DEF Attempts
<1>3. job[j].active = 0
  BY DEF Inv, JobsInv, OneLiveAttempt, TerminalJobs
<1>4. attempt[b].status \notin LiveAttempts
  BY <1>2, <1>3 DEF Inv, JobsInv, OneLiveAttempt, IsActive
<1>5. ~(n > n)
  BY <1>1, JobFacts
<1>6. attempt[b].status # "absent"
  BY <1>2, <1>5 DEF Inv, JobsInv, OneLiveAttempt
<1> HIDE DEF b
<1> QED
  BY <1>2, <1>4, <1>6 DEF AttemptsKept, b, n

\* What is over stays earned; this leaves the jobs and runs that change.
LEMMA OverStaysEarned ==
  ASSUME Inv, OutcomeInv, JobsKept, AttemptsKept, NEW j \in Jobs, job[j].status \in TerminalJobs
  PROVE  /\ job'[j] = job[j]
         /\ job'[j].status = "succeeded" =>
              /\ job'[j].attempts # 0
              /\ attempt'[<<j, job'[j].attempts>>].status = "succeeded"
              /\ attempt'[<<j, job'[j].attempts>>].verification = "passed"
         /\ job'[j].status = "failed" =>
              /\ job'[j].attempts # 0
              /\ \/ job'[j].attempts = MaxAttempts[j]
                 \/ attempt'[<<j, job'[j].attempts>>].reason \in Ruled
<1>1. job'[j] = job[j]
  BY DEF JobsKept
<1> QED
  BY <1>1, EvidenceStays DEF OutcomeInv, VerifiedOK, FailedOK

LEMMA DetailsKeepOutcomes ==
  ASSUME Inv, OutcomeInv, JobsKept, AttemptsKept, Details
  PROVE  OutcomeInv'
<1>1. \A k \in Jobs : job'[k].status = job[k].status /\ job'[k].attempts = job[k].attempts
  BY DEF Details, Stays, Goes
<1>2. TriesOK' /\ ReadyOK' /\ RunningOK'
  BY <1>1, JobFacts DEF OutcomeInv, TriesOK, ReadyOK, RunningOK, Details
<1>3. SucceededOK' /\ FailedRunsOK'
  BY <1>1 DEF OutcomeInv, SucceededOK, FailedRunsOK, Details
<1>4. VerifiedOK' /\ FailedOK'
  BY <1>1, OverStaysEarned, JobFacts DEF OutcomeInv, VerifiedOK, FailedOK, Details, TerminalJobs
<1> QED
  BY <1>2, <1>3, <1>4 DEF OutcomeInv

LEMMA CreatesKeepsOutcomes ==
  ASSUME Inv, OutcomeInv, JobsKept, AttemptsKept, NEW r \in Runs, Creates(r)
  PROVE  OutcomeInv'
<1>1. \A k \in Jobs : job'[k].status = job[k].status /\ job'[k].attempts = job[k].attempts
  BY DEF Creates, Stays, Goes
<1>2. \A q \in Runs : run'[q] = IF q = r THEN "created" ELSE run[q]
  BY DEF Creates, Inv, TypeOK
<1>3. \A k \in Jobs : RunOf[k] = r => job[k].status = "absent"
  BY DEF Creates, Inv, RunsInv, UnscheduledRunsAreEmpty, JobsOf
<1>4. TriesOK' /\ ReadyOK' /\ RunningOK'
  BY <1>1, <1>2, <1>3, JobFacts DEF OutcomeInv, TriesOK, ReadyOK, RunningOK
<1>5. SucceededOK' /\ FailedRunsOK'
  BY <1>1, <1>2, <1>3 DEF OutcomeInv, SucceededOK, FailedRunsOK
<1>6. VerifiedOK' /\ FailedOK'
  BY <1>1, <1>2, <1>3, OverStaysEarned, JobFacts
  DEF OutcomeInv, VerifiedOK, FailedOK, TerminalJobs
<1> QED
  BY <1>4, <1>5, <1>6 DEF OutcomeInv

LEMMA SchedulesKeepsOutcomes ==
  ASSUME Inv, OutcomeInv, JobsKept, AttemptsKept, NEW r \in Runs, Schedules(r)
  PROVE  OutcomeInv'
<1>1. /\ \A k \in Jobs : RunOf[k] # r =>
           job'[k].status = job[k].status /\ job'[k].attempts = job[k].attempts
      /\ \A k \in Jobs : RunOf[k] = r =>
           /\ job'[k].status \in {"ready", "blocked"} /\ job'[k].attempts = 0
           /\ job'[k].status = "ready" => DependsOn[k] = {}
  BY DEF Schedules, Stays, Goes
<1>2. \A q \in Runs : run'[q] = IF q = r THEN "scheduled" ELSE run[q]
  BY DEF Schedules, Inv, TypeOK
<1>3. TriesOK' /\ RunningOK'
  BY <1>1, <1>2, JobFacts DEF OutcomeInv, TriesOK, RunningOK
<1>4. ReadyOK'
  BY <1>1, JobFacts DEF OutcomeInv, ReadyOK
<1>5. SucceededOK' /\ FailedRunsOK'
  BY <1>1, <1>2 DEF OutcomeInv, SucceededOK, FailedRunsOK
<1>6. VerifiedOK' /\ FailedOK'
  BY <1>1, <1>2, OverStaysEarned, JobFacts DEF OutcomeInv, VerifiedOK, FailedOK, TerminalJobs
<1> QED
  BY <1>3, <1>4, <1>5, <1>6 DEF OutcomeInv

LEMMA BeginsKeepsOutcomes ==
  ASSUME Inv, OutcomeInv, JobsKept, AttemptsKept, NEW j \in Jobs, Begins(j)
  PROVE  OutcomeInv'
<1>1. /\ job'[j].status = "active" /\ job'[j].attempts = job[j].attempts + 1
      /\ job[j].status \in {"ready", "retry_wait"}
      /\ \A k \in Jobs : k # j =>
           job'[k].status = job[k].status /\ job'[k].attempts = job[k].attempts
  BY DEF Begins, Stays, Goes
<1>2. /\ run[RunOf[j]] \in {"scheduled", "running"}
      /\ \A q \in Runs : run'[q] = IF q = RunOf[j] THEN "running" ELSE run[q]
  BY DEF Begins, Inv, TypeOK
<1>3. TriesOK'
  BY <1>1, JobFacts DEF OutcomeInv, TriesOK
<1>4. ReadyOK' /\ RunningOK'
  BY <1>1, <1>2, JobFacts DEF OutcomeInv, ReadyOK, RunningOK
<1>5. SucceededOK' /\ FailedRunsOK'
  BY <1>1, <1>2 DEF OutcomeInv, SucceededOK, FailedRunsOK
<1>6. VerifiedOK' /\ FailedOK'
  BY <1>1, <1>2, OverStaysEarned, JobFacts DEF OutcomeInv, VerifiedOK, FailedOK, TerminalJobs
<1> QED
  BY <1>3, <1>4, <1>5, <1>6 DEF OutcomeInv

LEMMA RetriesKeepsOutcomes ==
  ASSUME Inv, OutcomeInv, JobsKept, AttemptsKept, NEW a \in Attempts, Retries(a)
  PROVE  OutcomeInv'
<1> DEFINE j == a[1]
<1>0. j \in Jobs /\ job[j].status = "active" /\ job[j].attempts # 0
  BY LiveFacts DEF Retries
<1>1. /\ job'[j].status = "retry_wait" /\ job'[j].attempts = job[j].attempts
      /\ job[j].attempts < MaxAttempts[j] /\ run' = run
      /\ \A k \in Jobs : k # j =>
           job'[k].status = job[k].status /\ job'[k].attempts = job[k].attempts
  BY DEF Retries, Retryable, Stays, Goes
<1> HIDE DEF j
<1>2. TriesOK'
  BY <1>0, <1>1, JobFacts DEF OutcomeInv, TriesOK
<1>3. ReadyOK' /\ RunningOK'
  BY <1>0, <1>1, JobFacts DEF OutcomeInv, ReadyOK, RunningOK
<1>4. SucceededOK' /\ FailedRunsOK'
  BY <1>0, <1>1 DEF OutcomeInv, SucceededOK, FailedRunsOK
<1>5. VerifiedOK' /\ FailedOK'
  BY <1>0, <1>1, OverStaysEarned, JobFacts DEF OutcomeInv, VerifiedOK, FailedOK, TerminalJobs
<1> QED
  BY <1>2, <1>3, <1>4, <1>5 DEF OutcomeInv

LEMMA SucceedsKeepsOutcomes ==
  ASSUME Inv, OutcomeInv, JobsKept, AttemptsKept, NEW a \in Attempts, Succeeds(a)
  PROVE  OutcomeInv'
<1> DEFINE j == a[1]
           r == RunOf[a[1]]
<1>0. /\ j \in Jobs /\ job[j].status = "active" /\ job[j].attempts # 0
      /\ a = <<j, job[j].attempts>> /\ r \in Runs
  BY LiveFacts, JobFacts DEF Succeeds
<1>1. run[r] = "running"
  BY <1>0 DEF OutcomeInv, RunningOK
<1>2. /\ job'[j].status = "succeeded"
      /\ \A k \in Jobs : job'[k].attempts = job[k].attempts
      /\ \A k \in Jobs : k # j =>
           \/ job'[k].status = job[k].status
           \/ k \in Unblocked(j) /\ job'[k].status = "ready"
  BY <1>0 DEF Succeeds, Stays, Goes
<1>3. /\ attempt'[a].status = "succeeded" /\ attempt'[a].verification = "passed"
      /\ \A q \in Runs : q # r => run'[q] = run[q]
      /\ run'[r] = IF \A k \in Jobs : RunOf[k] = r => k = j \/ job[k].status = "succeeded"
                   THEN "succeeded" ELSE "running"
  BY <1>0, <1>1 DEF Succeeds, JobsOf, Inv, TypeOK
<1>4. \A k \in Unblocked(j) : /\ k \in Jobs /\ RunOf[k] = r /\ job[k].status = "blocked"
                              /\ \A d \in DependsOn[k] : d = j \/ job[d].status = "succeeded"
  BY DEF Unblocked, JobsOf
<1> HIDE DEF j, r
<1>5. \A k \in Jobs : k # j => (job'[k].status = "succeeded" <=> job[k].status = "succeeded")
  BY <1>2, <1>4
<1>6. TriesOK'
  <2>1. \A k \in Unblocked(j) : job[k].attempts = 0
    BY <1>4 DEF OutcomeInv, TriesOK
  <2> QED
    BY <1>0, <1>2, <1>4, <2>1, JobFacts DEF OutcomeInv, TriesOK
<1>7. ReadyOK'
  BY <1>0, <1>2, <1>4, <1>5, JobFacts DEF OutcomeInv, ReadyOK
<1>8. RunningOK'
  <2>1. ASSUME NEW k \in Jobs, job'[k].status = "active"
        PROVE  run'[RunOf[k]] = "running"
    <3>1. k # j /\ job[k].status = "active"
      BY <1>2, <2>1
    <3> QED
      BY <1>1, <1>3, <3>1, JobFacts DEF OutcomeInv, RunningOK, r
  <2> QED
    BY <2>1 DEF RunningOK
<1>9. SucceededOK'
  BY <1>0, <1>2, <1>3, <1>5 DEF OutcomeInv, SucceededOK, r
<1>10. FailedRunsOK'
  BY <1>0, <1>2, <1>3, <1>4 DEF OutcomeInv, FailedRunsOK
<1>11. VerifiedOK'
  <2>1. ASSUME NEW k \in Jobs, job'[k].status = "succeeded", k # j
        PROVE  job[k].status \in TerminalJobs
    BY <1>5, <2>1 DEF TerminalJobs
  <2> QED
    BY <1>0, <1>2, <1>3, <2>1, OverStaysEarned DEF VerifiedOK
<1>12. FailedOK'
  <2>1. \A k \in Jobs : job'[k].status = "failed" =>
          k # j /\ job[k].status = "failed" /\ job[k].status \in TerminalJobs
    BY <1>2 DEF TerminalJobs
  <2>2. \A k \in Jobs : job[k].status = "failed" => run'[RunOf[k]] = "failed"
    BY <1>1, <1>3, JobFacts DEF OutcomeInv, FailedOK
  <2> QED
    BY <2>1, <2>2, OverStaysEarned DEF OutcomeInv, FailedOK
<1> QED
  BY <1>6, <1>7, <1>8, <1>9, <1>10, <1>11, <1>12 DEF OutcomeInv

\* What fails a run and what cancels it both leave no job of it open.
LEMMA OpenJobsFacts ==
  ASSUME NEW r, NEW k \in Jobs
  PROVE  k \in OpenJobs(r) <=> RunOf[k] = r /\ job[k].status \notin TerminalJobs \cup {"absent"}
  BY DEF OpenJobs, JobsOf

LEMMA FailsKeepsOutcomes ==
  ASSUME Inv, OutcomeInv, JobsKept, AttemptsKept, NEW a \in Attempts, Fails(a)
  PROVE  OutcomeInv'
<1> DEFINE j == a[1]
           r == RunOf[a[1]]
<1>0. /\ j \in Jobs /\ job[j].status = "active" /\ job[j].attempts # 0
      /\ a = <<j, job[j].attempts>> /\ r \in Runs
  BY LiveFacts, JobFacts DEF Fails
<1>1. run[r] = "running"
  BY <1>0 DEF OutcomeInv, RunningOK
<1>2. /\ job'[j].status = "failed"
      /\ \A k \in Jobs : job'[k].attempts = job[k].attempts
      /\ \A k \in Jobs : k # j =>
           IF k \in OpenJobs(r) THEN job'[k].status = "cancelled"
                                ELSE job'[k].status = job[k].status
  BY <1>0 DEF Fails, Stays, Goes
<1>3. \A q \in Runs : run'[q] = IF q = r THEN "failed" ELSE run[q]
  BY <1>0 DEF Fails, Inv, TypeOK
<1>4. job[j].attempts = MaxAttempts[j] \/ attempt'[a].reason \in Ruled
  BY <1>0, JobFacts DEF Fails, Retryable, OutcomeInv, TriesOK
<1> HIDE DEF j, r
<1>5. \A k \in Jobs : k # j => \/ job'[k].status = job[k].status
                               \/ job'[k].status = "cancelled" /\ job[k].status # "absent"
                                  /\ job[k].status \notin TerminalJobs
  BY <1>2, OpenJobsFacts
<1>6. TriesOK'
  BY <1>0, <1>2, <1>5, JobFacts DEF OutcomeInv, TriesOK
<1>7. ReadyOK'
  <2>1. \A d \in Jobs : job[d].status = "succeeded" => job'[d].status = "succeeded"
    BY <1>0, <1>5 DEF TerminalJobs
  <2>2. \A k \in Jobs : job'[k].attempts > 0 \/ job'[k].status \in {"ready", "retry_wait"} =>
          job[k].attempts > 0 \/ job[k].status \in {"ready", "retry_wait"}
    BY <1>2, <1>5
  <2> QED
    BY <2>1, <2>2, JobFacts DEF OutcomeInv, ReadyOK
<1>8. RunningOK'
  <2>1. ASSUME NEW k \in Jobs, job'[k].status = "active"
        PROVE  run'[RunOf[k]] = "running"
    <3>1. k # j /\ job[k].status = "active" /\ k \notin OpenJobs(r)
      BY <1>2, <1>5, <2>1
    <3>2. RunOf[k] # r
      BY <3>1, OpenJobsFacts DEF TerminalJobs
    <3> QED
      BY <1>3, <3>1, <3>2, JobFacts DEF OutcomeInv, RunningOK
  <2> QED
    BY <2>1 DEF RunningOK
<1>9. SucceededOK'
  <2>1. RunOf[j] = r
    BY DEF r, j
  <2>2. \A k \in Jobs : RunOf[k] # r => job'[k].status = job[k].status
    BY <1>2, <2>1, OpenJobsFacts
  <2> QED
    BY <1>0, <1>2, <1>3, <2>1, <2>2 DEF OutcomeInv, SucceededOK
<1>10. FailedRunsOK'
  <2>1. \A k \in Jobs : job[k].status = "failed" => job'[k].status = "failed"
    BY <1>0, <1>5 DEF TerminalJobs
  <2>2. RunOf[j] = r
    BY DEF r, j
  <2> QED
    BY <1>0, <1>2, <1>3, <2>1, <2>2 DEF OutcomeInv, FailedRunsOK
<1>11. VerifiedOK'
  <2>1. \A k \in Jobs : job'[k].status = "succeeded" => job[k].status \in TerminalJobs
    BY <1>2, <1>5 DEF TerminalJobs
  <2> QED
    BY <2>1, OverStaysEarned DEF VerifiedOK
<1>12. FailedOK'
  <2>1. \A k \in Jobs : k # j /\ job'[k].status = "failed" =>
          /\ job[k].status = "failed" /\ job[k].status \in TerminalJobs
          /\ run[RunOf[k]] = "failed" /\ RunOf[k] # r
    BY <1>1, <1>5 DEF TerminalJobs, OutcomeInv, FailedOK
  <2>2. RunOf[j] = r
    BY DEF r, j
  <2>3. \A k \in Jobs : job'[k].status = "failed" =>
          /\ run'[RunOf[k]] = "failed"
          /\ \A i \in Jobs : RunOf[i] = RunOf[k] /\ job'[i].status = "failed" => i = k
    BY <1>0, <1>3, <2>1, <2>2, JobFacts DEF OutcomeInv, FailedOK
  <2>4. \A k \in Jobs : job'[k].status = "failed" =>
          /\ job'[k].attempts # 0
          /\ \/ job'[k].attempts = MaxAttempts[k]
             \/ attempt'[<<k, job'[k].attempts>>].reason \in Ruled
    BY <1>0, <1>2, <1>4, <2>1, OverStaysEarned
  <2> QED
    BY <2>3, <2>4 DEF FailedOK
<1> QED
  BY <1>6, <1>7, <1>8, <1>9, <1>10, <1>11, <1>12 DEF OutcomeInv

LEMMA CancelsKeepsOutcomes ==
  ASSUME Inv, OutcomeInv, JobsKept, AttemptsKept, NEW r \in Runs, Cancels(r)
  PROVE  OutcomeInv'
<1>1. run[r] \notin TerminalRuns
  BY DEF Cancels
<1>2. /\ \A k \in Jobs : job'[k].attempts = job[k].attempts
      /\ \A k \in Jobs : IF k \in OpenJobs(r) THEN job'[k].status = "cancelled"
                                              ELSE job'[k].status = job[k].status
  BY DEF Cancels, Stays, Goes
<1>3. \A q \in Runs : run'[q] = IF q = r THEN "cancelled" ELSE run[q]
  BY DEF Cancels, Inv, TypeOK
<1>4. \A k \in Jobs : \/ job'[k].status = job[k].status
                      \/ job'[k].status = "cancelled" /\ job[k].status # "absent"
                         /\ job[k].status \notin TerminalJobs
  BY <1>2, OpenJobsFacts
<1>5. /\ \A k \in Jobs : job[k].status = "succeeded" <=> job'[k].status = "succeeded"
      /\ \A k \in Jobs : job[k].status = "failed" <=> job'[k].status = "failed"
  BY <1>4 DEF TerminalJobs
<1>6. TriesOK'
  BY <1>2, <1>4, JobFacts DEF OutcomeInv, TriesOK
<1>7. ReadyOK'
  <2>1. \A k \in Jobs : job'[k].attempts > 0 \/ job'[k].status \in {"ready", "retry_wait"} =>
          job[k].attempts > 0 \/ job[k].status \in {"ready", "retry_wait"}
    BY <1>2, <1>4
  <2> QED
    BY <1>5, <2>1, JobFacts DEF OutcomeInv, ReadyOK
<1>8. RunningOK'
  <2>1. ASSUME NEW k \in Jobs, job'[k].status = "active"
        PROVE  run'[RunOf[k]] = "running"
    <3>1. job[k].status = "active" /\ k \notin OpenJobs(r)
      BY <1>2, <1>4, <2>1
    <3>2. RunOf[k] # r
      BY <3>1, OpenJobsFacts DEF TerminalJobs
    <3> QED
      BY <1>3, <3>1, <3>2, JobFacts DEF OutcomeInv, RunningOK
  <2> QED
    BY <2>1 DEF RunningOK
<1>9. SucceededOK' /\ FailedRunsOK'
  BY <1>1, <1>3, <1>5 DEF OutcomeInv, SucceededOK, FailedRunsOK, TerminalRuns
<1>10. VerifiedOK'
  BY <1>5, OverStaysEarned DEF VerifiedOK, TerminalJobs
<1>11. FailedOK'
  <2>1. \A k \in Jobs : job[k].status = "failed" => RunOf[k] # r
    BY <1>1 DEF OutcomeInv, FailedOK, TerminalRuns
  <2> QED
    BY <1>3, <1>5, <2>1, OverStaysEarned, JobFacts DEF OutcomeInv, FailedOK, TerminalJobs
<1> QED
  BY <1>6, <1>7, <1>8, <1>9, <1>10, <1>11 DEF OutcomeInv

LEMMA MovesKeepOutcomes ==
  ASSUME Inv, OutcomeInv, Moves, Kept
  PROVE  OutcomeInv'
  BY DetailsKeepOutcomes, CreatesKeepsOutcomes, SchedulesKeepsOutcomes, BeginsKeepsOutcomes,
     RetriesKeepsOutcomes, SucceedsKeepsOutcomes, FailsKeepsOutcomes, CancelsKeepsOutcomes
  DEF Moves, Kept

LEMMA InitOutcomes == Init => OutcomeInv
<1> SUFFICES ASSUME Init PROVE OutcomeInv
  OBVIOUS
<1>1. \A j \in Jobs : job[j].status = "absent" /\ job[j].attempts = 0
  BY DEF Init, NoJob
<1>2. \A r \in Runs : run[r] = "absent"
  BY DEF Init
<1> QED
  BY <1>1, <1>2, JobExecutionAssumption
  DEF OutcomeInv, TriesOK, ReadyOK, RunningOK, VerifiedOK, SucceededOK, FailedOK, FailedRunsOK

-----------------------------------------------------------------------------
(* Which effects exist: what a command asks for, and when it cancels.      *)

Told(a) == outbox[<<a, "cancel">>].status # "absent"
GivenUp == {"cancelled", "timed_out"}

\* Of the effects `out', only the cancellations of `told' are new.
Asks(told, out) ==
  \A b \in Attempts :
    /\ out[<<b, "cancel">>].status # "absent" <=> Told(b) \/ b \in told
    /\ \A e \in {"start", "verify"} :
         outbox[<<b, e>>].status = "absent" => out[<<b, e>>].status = "absent"

LEMMA EffectsAfterAsk ==
  ASSUME NEW over, NEW told
  PROVE  Asks(told, EffectsAfter(over, told))
<1> SUFFICES ASSUME NEW b \in Attempts
             PROVE  LET out == EffectsAfter(over, told)
                    IN /\ out[<<b, "cancel">>].status # "absent" <=> Told(b) \/ b \in told
                       /\ \A e \in {"start", "verify"} :
                            outbox[<<b, e>>].status = "absent" => out[<<b, e>>].status = "absent"
  BY DEF Asks
<1>1. \A e \in Effects : <<b, e>> \in Messages /\ outbox[<<b, e>>].status = "absent" =>
        outbox[<<b, e>>].status \notin {"pending", "leased"}
  BY EffectIsMessage
<1>2. "start" \in Effects /\ "verify" \in Effects /\ "cancel" \in Effects
  BY DEF Effects
<1>3. Enqueued.status = "pending"
  BY DEF Enqueued, NoMessage
<1>4. \A e \in Effects : <<b, e>> \in Messages
  BY EffectIsMessage
<1> QED
  BY <1>1, <1>2, <1>3, <1>4 DEF EffectsAfter, Told

\* The attempts of E end, and those of `told' are also cancelled.
LEMMA EndingIsAccounted ==
  ASSUME EffectInv, NEW E, NEW told,
         \A b \in Attempts : b \notin E => b \notin told /\ attempt'[b] = attempt[b],
         \A b \in Attempts : b \in E =>
           /\ attempt[b].status \in LiveAttempts
           /\ attempt'[b].status \notin LiveAttempts \cup {"absent"}
           /\ attempt'[b].external = attempt[b].external
           /\ b \in told => attempt[b].external /\ attempt'[b].status \in GivenUp
           /\ attempt[b].external /\ attempt'[b].receipt = "none"
              /\ attempt'[b].status \in GivenUp => b \in told,
         Asks(told, outbox')
  PROVE  EffectInv'
<1>0. \A b \in Attempts :
        /\ Told(b)' <=> Told(b) \/ b \in told
        /\ \A e \in {"start", "verify"} :
             outbox[<<b, e>>].status = "absent" => outbox'[<<b, e>>].status = "absent"
  BY DEF Asks, Told
<1> SUFFICES ASSUME NEW b \in Attempts
             PROVE  /\ attempt'[b].status = "absent" => outbox'[<<b, "start">>].status = "absent"
                    /\ attempt'[b].status \in Unverified =>
                         outbox'[<<b, "verify">>].status = "absent"
                    /\ attempt'[b].external /\ attempt'[b].receipt = "none"
                       /\ attempt'[b].status \in GivenUp => Told(b)'
                    /\ Told(b)' => attempt'[b].external /\ attempt'[b].status \in GivenUp
  BY DEF EffectInv, FreshEffects, KnownRunsAreCancelled, Told, GivenUp
<1>1. /\ attempt[b].status = "absent" => outbox[<<b, "start">>].status = "absent"
      /\ attempt[b].status \in Unverified => outbox[<<b, "verify">>].status = "absent"
      /\ attempt[b].external /\ attempt[b].receipt = "none"
         /\ attempt[b].status \in GivenUp => Told(b)
      /\ Told(b) => attempt[b].external /\ attempt[b].status \in GivenUp
  BY DEF EffectInv, FreshEffects, KnownRunsAreCancelled, Told, GivenUp
<1>2. CASE b \in E
  BY <1>0, <1>1, <1>2 DEF LiveAttempts, GivenUp, Unverified
<1>3. CASE b \notin E
  BY <1>0, <1>1, <1>3
<1> QED
  BY <1>2, <1>3

\* No attempt ends; one may go on to its next phase, with the effect of that phase.
LEMMA GoingOnIsAccounted ==
  ASSUME EffectInv,
         \A b \in Attempts :
           /\ Told(b)' <=> Told(b)
           /\ \/ /\ attempt'[b].status = attempt[b].status
                 /\ attempt'[b].external = attempt[b].external
                 /\ attempt'[b].receipt \in {"none"} => attempt[b].receipt = "none"
                 /\ \A e \in {"start", "verify"} :
                      outbox[<<b, e>>].status = "absent" => outbox'[<<b, e>>].status = "absent"
              \/ /\ attempt[b].status \in LiveAttempts \cup {"absent"}
                 /\ attempt'[b].status \in LiveAttempts
                 /\ attempt'[b].status \in Unverified =>
                      /\ attempt[b].status \in Unverified
                      /\ outbox'[<<b, "verify">>].status = outbox[<<b, "verify">>].status
  PROVE  EffectInv'
<1> SUFFICES ASSUME NEW b \in Attempts
             PROVE  /\ attempt'[b].status = "absent" => outbox'[<<b, "start">>].status = "absent"
                    /\ attempt'[b].status \in Unverified =>
                         outbox'[<<b, "verify">>].status = "absent"
                    /\ attempt'[b].external /\ attempt'[b].receipt = "none"
                       /\ attempt'[b].status \in GivenUp => Told(b)'
                    /\ Told(b)' => attempt'[b].external /\ attempt'[b].status \in GivenUp
  BY DEF EffectInv, FreshEffects, KnownRunsAreCancelled, Told, GivenUp
<1>1. /\ attempt[b].status = "absent" => outbox[<<b, "start">>].status = "absent"
      /\ attempt[b].status \in Unverified => outbox[<<b, "verify">>].status = "absent"
      /\ attempt[b].external /\ attempt[b].receipt = "none"
         /\ attempt[b].status \in GivenUp => Told(b)
      /\ Told(b) => attempt[b].external /\ attempt[b].status \in GivenUp
  BY DEF EffectInv, FreshEffects, KnownRunsAreCancelled, Told, GivenUp
<1> QED
  BY <1>1 DEF LiveAttempts, GivenUp, Unverified

\* One effect that is there already changes.
LEMMA OneEffectStays ==
  ASSUME Inv, NEW x \in Messages, NEW m, outbox[x].status # "absent", m.status # "absent",
         outbox' = [outbox EXCEPT ![x] = m], NEW b \in Attempts
  PROVE  /\ Told(b)' <=> Told(b)
         /\ \A e \in {"start", "verify"} :
              outbox[<<b, e>>].status = "absent" => outbox'[<<b, e>>].status = "absent"
<1>1. \A y \in Messages : outbox'[y] = IF y = x THEN m ELSE outbox[y]
  BY DEF Inv, TypeOK
<1>2. <<b, "start">> \in Messages /\ <<b, "verify">> \in Messages /\ <<b, "cancel">> \in Messages
  BY EffectIsMessage DEF Effects
<1> QED
  BY <1>1, <1>2 DEF Told

LEMMA SameOutbox ==
  ASSUME outbox' = outbox, NEW b \in Attempts
  PROVE  /\ Told(b)' <=> Told(b)
         /\ \A e \in {"start", "verify"} :
              outbox[<<b, e>>].status = "absent" => outbox'[<<b, e>>].status = "absent"
  BY DEF Told

LEMMA FinishedFacts ==
  ASSUME TypeOK, NEW b \in Attempts, NEW why \in Reasons \ {"none"}
  PROVE  /\ Finished(b, why).status = StatusFor(why)
         /\ Finished(b, why).external = attempt[b].external
         /\ Finished(b, why).receipt = attempt[b].receipt
  BY DEF TypeOK, Finished, AttemptRecord

\* The attempt a fails with the evidence `ended' and takes its run along.
LEMMA FailRunIsAccounted ==
  ASSUME Inv, EffectInv, NEW a \in Attempts, attempt[a].status \in LiveAttempts,
         NEW ended, DoneRecord(ended), ended.external = attempt[a].external, FailRun(a, ended),
         NEW self \in SUBSET {a},
         a \in self => ended.external /\ ended.status \in GivenUp,
         ended.external /\ ended.receipt = "none" /\ ended.status \in GivenUp => a \in self,
         Asks(self \cup Known(ActiveAttempts(Siblings(a))), outbox')
  PROVE  EffectInv'
<1> DEFINE gone == ActiveAttempts(Siblings(a))
           E == {a} \cup gone
           told == self \cup Known(gone)
<1>1. a \notin gone /\ gone \subseteq Attempts
  BY DEF ActiveAttempts, Siblings
<1>2. attempt' = [b \in Attempts |->
                   CASE b = a -> ended
                     [] b \in gone -> Finished(b, "run_failed")
                     [] OTHER -> attempt[b]]
  BY DEF FailRun
<1> HIDE DEF gone
<1>3. /\ attempt'[a] = ended
      /\ \A b \in gone : attempt'[b] = Finished(b, "run_failed")
      /\ \A b \in Attempts : b # a /\ b \notin gone => attempt'[b] = attempt[b]
  BY <1>1, <1>2
<1>4. ASSUME NEW b \in gone
      PROVE  /\ attempt[b].status \in LiveAttempts /\ attempt'[b].status = "cancelled"
             /\ attempt'[b].external = attempt[b].external
  <2>1. attempt[b].status \in LiveAttempts
    BY <1>1, ActiveAttemptsAreLive DEF gone, Inv, JobsInv, OneLiveAttempt
  <2>2. "run_failed" \in Reasons \ {"none"} /\ StatusFor("run_failed") = "cancelled"
    BY DEF Reasons, StatusFor
  <2> QED
    BY <1>1, <1>3, <2>1, <2>2, FinishedFacts DEF Inv
<1>5. \A b : b \in told <=> (b = a /\ a \in self) \/ b \in Known(gone)
  OBVIOUS
<1>6. \A b \in gone : b \in Known(gone) <=> attempt[b].external
  BY DEF Known
<1>7. Known(gone) \subseteq gone
  BY DEF Known
<1>8. \A b \in Attempts : b \in E =>
           /\ attempt[b].status \in LiveAttempts
           /\ attempt'[b].status \notin LiveAttempts \cup {"absent"}
           /\ attempt'[b].external = attempt[b].external
           /\ b \in told => attempt[b].external /\ attempt'[b].status \in GivenUp
           /\ attempt[b].external /\ attempt'[b].receipt = "none"
              /\ attempt'[b].status \in GivenUp => b \in told
  <2>1. ASSUME NEW b \in gone
        PROVE  b # a /\ attempt'[b].status \in GivenUp
               /\ attempt'[b].status \notin LiveAttempts \cup {"absent"}
    BY <1>1, <1>4 DEF GivenUp, LiveAttempts
  <2> QED
    BY <1>1, <1>3, <1>4, <1>5, <1>6, <1>7, <2>1 DEF DoneRecord
<1>9. \A b \in Attempts : b \notin E => b \notin told /\ attempt'[b] = attempt[b]
  BY <1>3, <1>5, <1>7
<1>10. Asks(told, outbox')
  BY DEF gone
<1> HIDE DEF E, told
<1> QED
  BY <1>8, <1>9, <1>10, EndingIsAccounted

\* The attempt a fails with the effects of a failure, but for the one delivered.
LEMMA FailAttemptIsAccounted ==
  ASSUME Inv, EffectInv, NEW a \in Attempts, attempt[a].status \in LiveAttempts,
         NEW why \in {"timed_out", "driver_error"},
         NEW ended, DoneRecord(ended), ended.external = attempt[a].external,
         ended.status = StatusFor(why), FailAttempt(a, ended),
         \A b \in Attempts :
           /\ outbox'[<<b, "cancel">>] = FailureEffects(a, why)[<<b, "cancel">>]
           /\ \A e \in {"start", "verify"} :
                outbox[<<b, e>>].status = "absent" =>
                  outbox'[<<b, e>>] = FailureEffects(a, why)[<<b, e>>]
  PROVE  EffectInv'
<1> DEFINE told == IF why = "timed_out" THEN Known({a}) ELSE {}
           gone == ActiveAttempts(Siblings(a))
<1>1. /\ told \in SUBSET {a}
      /\ a \in told <=> why = "timed_out" /\ attempt[a].external
  BY DEF Known
<1>2. ended.status \in GivenUp <=> why = "timed_out"
  BY DEF StatusFor, GivenUp
<1>3. ASSUME NEW asked, Asks(asked, FailureEffects(a, why))
      PROVE  Asks(asked, outbox')
  BY <1>3 DEF Asks
<1> DEFINE E == {a}
<1>4. CASE Retryable(a)
  <2>1. Asks(told, outbox')
    <3>1. FailureEffects(a, why) = EffectsAfter(E, told)
      BY <1>4 DEF FailureEffects
    <3> HIDE DEF told, E
    <3> QED
      BY <1>3, <3>1, EffectsAfterAsk
  <2>2. \A b \in Attempts : attempt'[b] = IF b = a THEN ended ELSE attempt[b]
    BY <1>4 DEF FailAttempt, Inv, TypeOK
  <2>3. \A b \in Attempts : b \notin E => b \notin told /\ attempt'[b] = attempt[b]
    BY <1>1, <2>2
  <2>4. \A b \in Attempts : b \in E =>
           /\ attempt[b].status \in LiveAttempts
           /\ attempt'[b].status \notin LiveAttempts \cup {"absent"}
           /\ attempt'[b].external = attempt[b].external
           /\ b \in told => attempt[b].external /\ attempt'[b].status \in GivenUp
           /\ attempt[b].external /\ attempt'[b].receipt = "none"
              /\ attempt'[b].status \in GivenUp => b \in told
    BY <1>1, <1>2, <2>2 DEF DoneRecord
  <2> HIDE DEF told, E
  <2> QED
    BY <2>1, <2>3, <2>4, EndingIsAccounted
<1>5. CASE ~Retryable(a)
  <2>1. Asks(told \cup Known(gone), outbox')
    <3>1. FailureEffects(a, why) = EffectsAfter(E \cup gone, told \cup Known(gone))
      BY <1>5 DEF FailureEffects, RunFailedEffects
    <3> HIDE DEF told, gone, E
    <3> QED
      BY <1>3, <3>1, EffectsAfterAsk
  <2>2. FailRun(a, ended)
    BY <1>5 DEF FailAttempt
  <2>3. /\ a \in told => ended.external /\ ended.status \in GivenUp
        /\ ended.external /\ ended.receipt = "none" /\ ended.status \in GivenUp => a \in told
    BY <1>1, <1>2
  <2> HIDE DEF told
  <2> QED
    BY <1>1, <2>1, <2>2, <2>3, FailRunIsAccounted
<1> QED
  BY <1>4, <1>5

LEMMA SameAttempts ==
  ASSUME EffectInv, attempt' = attempt,
         \A b \in Attempts :
           /\ Told(b)' <=> Told(b)
           /\ \A e \in {"start", "verify"} :
                outbox[<<b, e>>].status = "absent" => outbox'[<<b, e>>].status = "absent"
  PROVE  EffectInv'
  BY GoingOnIsAccounted

LEMMA OperatorIsAccounted ==
  ASSUME Inv, EffectInv, NEW r \in Runs, OperatorStep(r)
  PROVE  EffectInv'
<1>1. CASE CancelRun(r)
  <2> DEFINE E == ActiveAttempts(OpenJobs(r))
  <2>1. Asks(Known(E), outbox')
    BY <1>1, EffectsAfterAsk DEF CancelRun
  <2>2. \A b \in Attempts : b \notin E => b \notin Known(E) /\ attempt'[b] = attempt[b]
    BY <1>1 DEF CancelRun, Known
  <2>3. ASSUME NEW b \in Attempts, b \in E
        PROVE  /\ attempt[b].status \in LiveAttempts
               /\ attempt'[b].status \notin LiveAttempts \cup {"absent"}
               /\ attempt'[b].external = attempt[b].external
               /\ attempt'[b].status \in GivenUp
               /\ b \in Known(E) <=> attempt[b].external
    <3>1. attempt[b].status \in LiveAttempts
      BY <2>3, ActiveAttemptsAreLive DEF Inv, JobsInv, OneLiveAttempt
    <3>2. "operator_cancelled" \in Reasons \ {"none"} /\ StatusFor("operator_cancelled") = "cancelled"
      BY DEF Reasons, NonretryableOutcomes, StatusFor
    <3>3. attempt'[b] = Finished(b, "operator_cancelled")
      BY <1>1, <2>3 DEF CancelRun
    <3> QED
      BY <2>3, <3>1, <3>2, <3>3, FinishedFacts DEF Inv, GivenUp, LiveAttempts, Known
  <2>4. \A b \in Attempts : b \in E =>
           /\ attempt[b].status \in LiveAttempts
           /\ attempt'[b].status \notin LiveAttempts \cup {"absent"}
           /\ attempt'[b].external = attempt[b].external
           /\ b \in Known(E) => attempt[b].external /\ attempt'[b].status \in GivenUp
           /\ attempt[b].external /\ attempt'[b].receipt = "none"
              /\ attempt'[b].status \in GivenUp => b \in Known(E)
    BY <2>3
  <2> HIDE DEF E
  <2> QED
    BY <2>1, <2>2, <2>4, EndingIsAccounted
<1>2. CASE ~CancelRun(r)
  <2>1. attempt' = attempt /\ outbox' = outbox
    BY <1>2 DEF OperatorStep, CreateRun, ScheduleRun, StartMilestone, Schedule
  <2> QED
    BY <2>1, SameAttempts, SameOutbox
<1> QED
  BY <1>1, <1>2

LEMMA JobIsAccounted ==
  ASSUME Inv, EffectInv, NEW o \in Owners, NEW j \in Jobs, JobStep(o, j)
  PROVE  EffectInv'
<1>1. CASE AcquireJob(o, j)
  <2> DEFINE n == job[j].attempts + 1
             new == <<j, n>>
  <2>1. /\ \A b \in Attempts : attempt'[b] = IF b = new THEN [NoAttempt EXCEPT !.status = "starting"]
                                                       ELSE attempt[b]
        /\ \A x \in Messages : outbox'[x] = IF x = <<new, "start">> THEN Enqueued ELSE outbox[x]
    BY <1>1 DEF AcquireJob, Inv, TypeOK
  <2>2. [NoAttempt EXCEPT !.status = "starting"].status = "starting"
    BY DEF NoAttempt
  <2>3. new \in Attempts => attempt[new].status = "absent"
    <3>1. n > job[j].attempts
      BY DEF Inv, TypeOK, JobRecord
    <3> QED
      BY <3>1 DEF Inv, JobsInv, OneLiveAttempt
  <2> HIDE DEF new
  <2>4. \A b \in Attempts :
          /\ outbox'[<<b, "cancel">>] = outbox[<<b, "cancel">>]
          /\ outbox'[<<b, "verify">>] = outbox[<<b, "verify">>]
          /\ b # new => outbox'[<<b, "start">>] = outbox[<<b, "start">>]
    BY <2>1, EffectIsMessage DEF Effects
  <2>5. \A b \in Attempts : Told(b)' <=> Told(b)
    BY <2>4 DEF Told
  <2>6. \A b \in Attempts : b # new =>
           /\ attempt'[b] = attempt[b]
           /\ \A e \in {"start", "verify"} :
                outbox[<<b, e>>].status = "absent" => outbox'[<<b, e>>].status = "absent"
    BY <2>1, <2>4
  <2>7. \A b \in Attempts : b = new =>
           /\ attempt[b].status = "absent" /\ attempt'[b].status = "starting"
           /\ outbox'[<<b, "verify">>].status = outbox[<<b, "verify">>].status
    BY <2>1, <2>2, <2>3, <2>4
  <2> QED
    BY <2>5, <2>6, <2>7, GoingOnIsAccounted DEF LiveAttempts, Unverified
<1>2. CASE ~AcquireJob(o, j)
  <2>1. attempt' = attempt /\ outbox' = outbox
    BY <1>2 DEF JobStep, ResumeJob, RenewJob, ReleaseJob, vars
  <2> QED
    BY <2>1, SameAttempts, SameOutbox
<1> QED
  BY <1>1, <1>2

\* What a failure makes of the attempt itself.
LEMMA FailureIsDone ==
  ASSUME Inv, NEW a \in Attempts, NEW why \in {"timed_out", "driver_error"}
  PROVE  /\ DoneRecord(Finished(a, why)) /\ Finished(a, why).external = attempt[a].external
         /\ Finished(a, why).status = StatusFor(why) /\ Finished(a, why) \in AttemptRecord
<1>1. why \in Reasons \ {"none"}
  BY DEF Reasons
<1> QED
  BY <1>1, FinishedIsDone, FinishedFacts DEF Inv

LEMMA RequestIsAccounted ==
  ASSUME Inv, EffectInv, NEW a \in Attempts, attempt[a].status = "running",
         NEW to \in AttemptRecord, RequestVerification(a, to)
  PROVE  EffectInv'
<1> DEFINE next == [to EXCEPT !.status = "verifying", !.verification = "requested"]
<1>1. next.status = "verifying"
  BY DEF AttemptRecord
<1>2. /\ \A b \in Attempts : attempt'[b] = IF b = a THEN next ELSE attempt[b]
      /\ \A x \in Messages : outbox'[x] = IF x = <<a, "verify">> THEN Enqueued ELSE outbox[x]
  BY DEF RequestVerification, Inv, TypeOK
<1> HIDE DEF next
<1>3. \A b \in Attempts :
        /\ outbox'[<<b, "cancel">>] = outbox[<<b, "cancel">>]
        /\ outbox'[<<b, "start">>] = outbox[<<b, "start">>]
        /\ b # a => outbox'[<<b, "verify">>] = outbox[<<b, "verify">>]
  BY <1>2, EffectIsMessage DEF Effects
<1>4. \A b \in Attempts : Told(b)' <=> Told(b)
  BY <1>3 DEF Told
<1>5. \A b \in Attempts : b # a =>
        /\ attempt'[b] = attempt[b]
        /\ \A e \in {"start", "verify"} :
             outbox[<<b, e>>].status = "absent" => outbox'[<<b, e>>].status = "absent"
  BY <1>2, <1>3
<1>6. attempt[a].status \in LiveAttempts /\ attempt'[a].status = "verifying"
      /\ attempt'[a].status \in LiveAttempts \ Unverified
  BY <1>1, <1>2 DEF LiveAttempts, Unverified
<1> QED
  BY <1>4, <1>5, <1>6, GoingOnIsAccounted

\* A detail of an attempt; a receipt may be added.
LEMMA DetailIsAccounted ==
  ASSUME EffectInv, outbox' = outbox,
         \A b \in Attempts :
           /\ attempt'[b].status = attempt[b].status
           /\ attempt'[b].external = attempt[b].external
           /\ attempt'[b].receipt = "none" => attempt[b].receipt = "none"
  PROVE  EffectInv'
  BY SameOutbox, GoingOnIsAccounted

LEMMA AttemptIsAccounted ==
  ASSUME Inv, EffectInv, NEW o \in Owners, NEW f \in Fences, NEW a \in Attempts,
         AttemptStep(o, f, a)
  PROVE  EffectInv'
<1>0. attempt[a] \in AttemptRecord
  BY DEF Inv, TypeOK
<1>1. ASSUME NEW after \in Cursors, NEW n \in 1..EventLimit, ObserveDriverEvents(o, f, a, after, n)
      PROVE  EffectInv'
  <2>1. \A b \in Attempts : /\ attempt'[b].status = attempt[b].status
                            /\ attempt'[b].external = attempt[b].external
                            /\ attempt'[b].receipt = attempt[b].receipt
    BY <1>0, <1>1 DEF ObserveDriverEvents, Inv, TypeOK, AttemptRecord
  <2> QED
    BY <1>1, <2>1, DetailIsAccounted DEF ObserveDriverEvents
<1>2. ASSUME NEW outcome \in ReceiptOutcomes, NEW count \in Cursors,
             RecordDriverReceipt(o, f, a, outcome, count)
      PROVE  EffectInv'
  <2>0. attempt[a].status = "running" /\ attempt[a].status \in LiveAttempts
    BY <1>2 DEF RecordDriverReceipt, LiveAttempts
  <2>1. CASE outcome = "succeeded"
    <3>1. [attempt[a] EXCEPT !.receipt = outcome] \in AttemptRecord
      BY <1>0 DEF AttemptRecord
    <3> QED
      BY <1>2, <2>0, <2>1, <3>1, RequestIsAccounted
      DEF RecordDriverReceipt, NonretryableOutcomes
  <2>2. CASE outcome \in {"failed", "timed_out"}
    <3>1. PICK why \in {"timed_out", "driver_error"} :
            why = IF outcome = "timed_out" THEN "timed_out" ELSE "driver_error"
      OBVIOUS
    <3> DEFINE ended == [Finished(a, why) EXCEPT !.receipt = outcome]
    <3>2. FailAttempt(a, ended) /\ outbox' = FailureEffects(a, why)
      BY <1>2, <2>2, <3>1 DEF RecordDriverReceipt, NonretryableOutcomes
    <3>3. DoneRecord(ended) /\ ended.external = attempt[a].external
          /\ ended.status = StatusFor(why)
      BY FailureIsDone DEF DoneRecord, AttemptRecord
    <3> HIDE DEF ended
    <3> QED
      BY <2>0, <3>2, <3>3, FailAttemptIsAccounted
  <2>3. CASE outcome \in NonretryableOutcomes
    <3> DEFINE ended == [Finished(a, outcome) EXCEPT !.receipt = outcome]
               self == {}
               told == self \cup Known(ActiveAttempts(Siblings(a)))
    <3>1. FailRun(a, ended) /\ outbox' = RunFailedEffects(a, self)
      BY <1>2, <2>3 DEF RecordDriverReceipt, NonretryableOutcomes
    <3>2. DoneRecord(ended) /\ ended.external = attempt[a].external /\ ended.receipt # "none"
      <4>1. outcome \in Reasons \ {"none"}
        BY <2>3 DEF Reasons, NonretryableOutcomes
      <4> QED
        BY <2>3, <4>1, FinishedIsDone, FinishedFacts
        DEF Inv, DoneRecord, AttemptRecord, NonretryableOutcomes
    <3>3. Asks(told, outbox')
      <4>1. outbox' = EffectsAfter({a} \cup ActiveAttempts(Siblings(a)), told)
        BY <3>1 DEF RunFailedEffects
      <4> HIDE DEF told
      <4> QED
        BY <4>1, EffectsAfterAsk
    <3>4. self \in SUBSET {a} /\ a \notin self
      OBVIOUS
    <3> HIDE DEF ended, self
    <3> QED
      BY <2>0, <3>1, <3>2, <3>3, <3>4, FailRunIsAccounted
  <2> QED
    BY <2>1, <2>2, <2>3 DEF ReceiptOutcomes
<1>3. ASSUME NEW outcome \in {"succeeded", "failed"}, ObserveAttempt(o, f, a, outcome)
      PROVE  EffectInv'
  <2>1. attempt[a].status = "running" /\ attempt[a].status \in LiveAttempts
    BY <1>3 DEF ObserveAttempt, LiveAttempts
  <2>2. CASE outcome = "failed"
    <3>1. FailAttempt(a, Finished(a, "driver_error"))
          /\ outbox' = FailureEffects(a, "driver_error")
      BY <1>3, <2>2 DEF ObserveAttempt
    <3> QED
      BY <2>1, <3>1, FailureIsDone, FailAttemptIsAccounted
  <2>3. CASE outcome = "succeeded"
    BY <1>0, <1>3, <2>1, <2>3, RequestIsAccounted DEF ObserveAttempt
  <2> QED
    BY <2>2, <2>3
<1>4. ASSUME TimeoutAttempt(o, f, a)
      PROVE  EffectInv'
  <2>1. attempt[a].status \in LiveAttempts
    BY <1>4 DEF TimeoutAttempt, Inv, JobsInv, OneLiveAttempt
  <2>2. FailAttempt(a, Finished(a, "timed_out")) /\ outbox' = FailureEffects(a, "timed_out")
    BY <1>4 DEF TimeoutAttempt
  <2> QED
    BY <2>1, <2>2, FailureIsDone, FailAttemptIsAccounted
<1> QED
  BY <1>1, <1>2, <1>3, <1>4 DEF AttemptStep

LEMMA VerificationIsAccounted ==
  ASSUME Inv, EffectInv, NEW o \in Owners, NEW f \in Fences, NEW g \in Deliveries,
         NEW a \in Attempts, VerificationStep(o, f, g, a)
  PROVE  EffectInv'
<1> DEFINE x == <<a, "verify">>
           delivered == Closed(x, "delivered")
<1>0. x \in Messages /\ attempt[a] \in AttemptRecord /\ delivered.status = "delivered"
  <2>1. x \in Messages
    BY EffectIsMessage DEF Effects
  <2> QED
    BY <2>1 DEF Inv, TypeOK, MessageRecord, Closed
<1>1. ASSUME HoldsVerification(o, f, g, a)
      PROVE  attempt[a].status \in LiveAttempts /\ outbox[x].status = "leased"
  BY <1>0, <1>1, HoldsOpenMessage DEF HoldsVerification, LiveAttempts
<1>2. ASSUME NEW outcome \in {"passed", "failed", "invalid"},
             CompleteVerification(o, f, g, a, outcome)
      PROVE  EffectInv'
  <2>0. attempt[a].status \in LiveAttempts /\ outbox[x].status = "leased"
    BY <1>1, <1>2 DEF CompleteVerification
  <2>1. ASSUME NEW why \in Reasons \ {"none"}
        PROVE  /\ DoneRecord([Finished(a, why) EXCEPT !.verification = outcome])
               /\ [Finished(a, why) EXCEPT !.verification = outcome].status = StatusFor(why)
               /\ [Finished(a, why) EXCEPT !.verification = outcome].external = attempt[a].external
    BY FinishedIsDone, FinishedFacts DEF Inv, DoneRecord, AttemptRecord
  <2>2. CASE outcome = "passed"
    <3> DEFINE ended == [Finished(a, "completed") EXCEPT !.verification = outcome]
               E == {a}
               told == {}
    <3>1. /\ attempt' = [attempt EXCEPT ![a] = ended]
          /\ outbox' = [outbox EXCEPT ![x] = delivered]
      BY <1>2, <2>2 DEF CompleteVerification
    <3>2. /\ DoneRecord(ended) /\ ended.status \notin GivenUp
          /\ ended.external = attempt[a].external
      <4>1. "completed" \in Reasons \ {"none"} /\ StatusFor("completed") = "succeeded"
        BY DEF Reasons, StatusFor
      <4> QED
        BY <2>1, <4>1 DEF GivenUp
    <3> HIDE DEF ended
    <3>3. \A b \in Attempts : attempt'[b] = IF b = a THEN ended ELSE attempt[b]
      BY <3>1 DEF Inv, TypeOK
    <3> HIDE DEF x, delivered
    <3>4. Asks(told, outbox')
      BY <1>0, <2>0, <3>1, OneEffectStays DEF Asks, Told
    <3>5. \A b \in Attempts : b \in E =>
           /\ attempt[b].status \in LiveAttempts
           /\ attempt'[b].status \notin LiveAttempts \cup {"absent"}
           /\ attempt'[b].external = attempt[b].external
           /\ b \in told => attempt[b].external /\ attempt'[b].status \in GivenUp
           /\ attempt[b].external /\ attempt'[b].receipt = "none"
              /\ attempt'[b].status \in GivenUp => b \in told
      BY <2>0, <3>2, <3>3 DEF DoneRecord
    <3>6. \A b \in Attempts : b \notin E => b \notin told /\ attempt'[b] = attempt[b]
      BY <3>3
    <3> HIDE DEF E, told
    <3> QED
      BY <3>4, <3>5, <3>6, EndingIsAccounted
  <2>3. CASE outcome \in {"failed", "invalid"}
    <3>1. PICK why \in {"verification_failed", "verification_invalid"} :
            why = IF outcome = "failed" THEN "verification_failed" ELSE "verification_invalid"
      OBVIOUS
    <3> DEFINE ended == [Finished(a, why) EXCEPT !.verification = outcome]
               gone == ActiveAttempts(Siblings(a))
               self == {}
               told == self \cup Known(gone)
               out == EffectsAfter(gone, told)
    <3>2. FailRun(a, ended) /\ outbox' = [out EXCEPT ![x] = delivered]
      BY <1>2, <2>3, <3>1 DEF CompleteVerification
    <3>3. /\ DoneRecord(ended) /\ ended.status \notin GivenUp
          /\ ended.external = attempt[a].external
      <4>1. why \in Reasons \ {"none"} /\ StatusFor(why) = "failed"
        BY DEF Reasons, StatusFor
      <4> QED
        BY <2>1, <4>1 DEF GivenUp
    <3>4. Asks(told, outbox')
      <4>1. Asks(told, out)
        BY EffectsAfterAsk
      <4>2. \A y \in Messages : y # x => outbox'[y] = out[y]
        BY <3>2, EffectsAfterType DEF Inv
      <4>3. \A b \in Attempts : /\ outbox'[<<b, "cancel">>] = out[<<b, "cancel">>]
                                /\ outbox'[<<b, "start">>] = out[<<b, "start">>]
                                /\ outbox[<<b, "verify">>].status = "absent" =>
                                     outbox'[<<b, "verify">>] = out[<<b, "verify">>]
        BY <2>0, <4>2, EffectIsMessage DEF Effects
      <4> HIDE DEF told, out
      <4> QED
        BY <4>1, <4>3 DEF Asks
    <3>5. self \in SUBSET {a} /\ a \notin self
      OBVIOUS
    <3> HIDE DEF ended, self
    <3> QED
      BY <2>0, <3>2, <3>3, <3>4, <3>5, FailRunIsAccounted
  <2> QED
    BY <2>2, <2>3
<1>3. ASSUME NEW why \in {"timed_out", "driver_error"}, FailVerification(o, f, g, a, why)
      PROVE  EffectInv'
  <2>1. FailAttempt(a, Finished(a, why)) /\ outbox' = FailureEffects(a, why)
        /\ attempt[a].status \in LiveAttempts
    BY <1>1, <1>3 DEF FailVerification
  <2> QED
    BY <2>1, FailureIsDone, FailAttemptIsAccounted
<1> QED
  BY <1>2, <1>3 DEF VerificationStep

LEMMA OneEffectIsAccounted ==
  ASSUME Inv, EffectInv, attempt' = attempt, NEW x \in Messages, NEW m,
         outbox[x].status # "absent", m.status # "absent", outbox' = [outbox EXCEPT ![x] = m]
  PROVE  EffectInv'
  BY OneEffectStays, SameAttempts

LEMMA DeliveryIsAccounted ==
  ASSUME Inv, EffectInv, NEW o \in Owners, NEW g \in Deliveries, NEW a \in Attempts,
         DeliveryStep(o, g, a)
  PROVE  EffectInv'
<1>0. /\ attempt[a] \in AttemptRecord
      /\ \A e \in Effects : <<a, e>> \in Messages
  BY EffectIsMessage DEF Inv, TypeOK
<1>1. ASSUME NEW e \in Effects, HoldsMessage(o, g, <<a, e>>)
      PROVE  /\ outbox[<<a, e>>].status = "leased"
             /\ e # "cancel" => attempt[a].status \in LiveAttempts \ TerminalAttempts
  <2>1. outbox[<<a, e>>].status = "leased"
    BY <1>0, <1>1, HoldsOpenMessage
  <2> QED
    BY <2>1, LiveLeaseOnEffect DEF Effects, Open, LiveAttempts, TerminalAttempts
<1>2. ASSUME NEW e \in Effects, NEW status \in {"pending", "delivered", "dead_letter"}
      PROVE  Closed(<<a, e>>, status).status = status /\ Closed(<<a, e>>, status) \in MessageRecord
  BY <1>0, ClosedType DEF Closed, Inv, TypeOK, MessageRecord
<1>3. CASE DeliverStart(o, g, a)
  <2>1. attempt[a].status \in LiveAttempts \ TerminalAttempts
        /\ outbox[<<a, "start">>].status = "leased"
    BY <1>1, <1>3 DEF DeliverStart, Effects
  <2>2. outbox' = [outbox EXCEPT ![<<a, "start">>] = Closed(<<a, "start">>, "delivered")]
    BY <1>3, <2>1 DEF DeliverStart
  <2>3. <<a, "start">> \in Messages /\ Closed(<<a, "start">>, "delivered").status = "delivered"
    BY <1>0, <1>2 DEF Effects
  <2>4. \A b \in Attempts :
          /\ Told(b)' <=> Told(b)
          /\ \A e \in {"start", "verify"} :
               outbox[<<b, e>>].status = "absent" => outbox'[<<b, e>>].status = "absent"
    BY <2>1, <2>2, <2>3, OneEffectStays
  <2>5. \A b \in Attempts : b # a => attempt'[b] = attempt[b]
    BY <1>3, <2>1 DEF DeliverStart, Inv, TypeOK
  <2>6. attempt'[a].status = "running"
    BY <1>0, <1>3, <2>1 DEF DeliverStart, Inv, TypeOK, AttemptRecord
  <2>7. attempt[a].status \in Unverified
    BY <2>1 DEF Inv, EffectsInv, StartedAttemptsHaveNoStart, LiveAttempts, Unverified, Open
  <2>8. outbox'[<<a, "verify">>].status = outbox[<<a, "verify">>].status
    BY <2>2, EffectIsMessage DEF Effects, Inv, TypeOK
  <2> QED
    BY <2>1, <2>4, <2>5, <2>6, <2>7, <2>8, GoingOnIsAccounted DEF LiveAttempts
<1>4. CASE DeliverCancel(o, g, a)
  BY <1>0, <1>1, <1>2, <1>4, OneEffectIsAccounted DEF DeliverCancel, Effects
<1>5. ASSUME NEW e \in Effects, RetryDelivery(o, g, <<a, e>>)
      PROVE  EffectInv'
  <2>1. Closed(<<a, e>>, "pending").status = "pending"
        /\ Closed(<<a, e>>, "pending") \in MessageRecord
    BY <1>2
  <2>2. [Closed(<<a, e>>, "pending") EXCEPT !.due = FALSE].status = "pending"
    BY <2>1 DEF MessageRecord
  <2> QED
    BY <1>0, <1>1, <1>5, <2>2, OneEffectIsAccounted DEF RetryDelivery
<1>6. ASSUME NEW e \in Effects, DeadLetter(o, g, <<a, e>>)
      PROVE  EffectInv'
  <2>0. outbox[<<a, e>>].status = "leased"
    BY <1>1, <1>6 DEF DeadLetter
  <2>1. CASE e # "cancel"
    <3>1. attempt[a].status \in LiveAttempts \ TerminalAttempts
      BY <1>1, <1>6, <2>1 DEF DeadLetter
    <3> DEFINE out == FailureEffects(a, "driver_error")
    <3>2. /\ FailAttempt(a, Finished(a, "driver_error"))
          /\ outbox' = [out EXCEPT ![<<a, e>>] = Closed(<<a, e>>, "dead_letter")]
      BY <1>6, <2>1, <3>1 DEF DeadLetter
    <3>3. out \in [Messages -> MessageRecord]
      BY FailureEffectsType DEF Inv
    <3>4. \A y \in Messages : y # <<a, e>> => outbox'[y] = out[y]
      BY <3>2, <3>3
    <3>5. \A b \in Attempts :
           /\ outbox'[<<b, "cancel">>] = out[<<b, "cancel">>]
           /\ \A k \in {"start", "verify"} :
                outbox[<<b, k>>].status = "absent" => outbox'[<<b, k>>] = out[<<b, k>>]
      BY <2>0, <2>1, <3>4, EffectIsMessage DEF Effects
    <3> QED
      BY <3>1, <3>2, <3>5, FailureIsDone, FailAttemptIsAccounted
  <2>2. CASE e = "cancel"
    BY <1>0, <1>2, <1>6, <2>0, <2>2, OneEffectIsAccounted DEF DeadLetter
  <2> QED
    BY <2>1, <2>2
<1>7. ASSUME NEW outcome \in ReceiptOutcomes, NEW count \in Cursors,
             RecordTerminalReceipt(o, g, a, outcome, count)
      PROVE  EffectInv'
  <2>1. \A b \in Attempts : /\ attempt'[b].status = attempt[b].status
                            /\ attempt'[b].external = attempt[b].external
                            /\ b # a => attempt'[b].receipt = attempt[b].receipt
    BY <1>0, <1>7 DEF RecordTerminalReceipt, Inv, TypeOK, AttemptRecord
  <2>2. attempt[a].receipt = "none"
    BY <1>7 DEF RecordTerminalReceipt
  <2> QED
    BY <1>7, <2>1, <2>2, DetailIsAccounted DEF RecordTerminalReceipt
<1> QED
  BY <1>3, <1>4, <1>5, <1>6, <1>7 DEF DeliveryStep

LEMMA AcquireMessageIsAccounted ==
  ASSUME Inv, EffectInv, NEW o \in Owners, NEW x \in Messages, AcquireMessage(o, x)
  PROVE  EffectInv'
<1>1. outbox[x].status # "absent" /\ outbox[x] \in MessageRecord /\ attempt' = attempt
  BY DEF AcquireMessage, Inv, TypeOK
<1>2. Taken(x, o).status = "leased" /\ Closed(x, "obsolete").status = "obsolete"
  BY <1>1 DEF Taken, Closed, MessageRecord
<1> QED
  BY <1>1, <1>2, OneEffectIsAccounted DEF AcquireMessage

LEMMA ClockIsAccounted ==
  ASSUME Inv, EffectInv, ClockStep
  PROVE  EffectInv'
<1>1. ASSUME NEW j \in Jobs, ExpireJobLease(j) \/ JobBecomesDue(j)
      PROVE  EffectInv'
  BY <1>1, SameAttempts, SameOutbox DEF ExpireJobLease, JobBecomesDue
<1>2. ASSUME NEW x \in Messages, ExpireMessageLease(x) \/ MessageBecomesDue(x)
      PROVE  EffectInv'
  <2>1. outbox[x] \in MessageRecord
    BY DEF Inv, TypeOK
  <2>2. outbox[x].status # "absent"
    BY <1>2 DEF ExpireMessageLease, MessageBecomesDue, Inv, EffectsInv, LeasedEffectsAreTaken
  <2>3. /\ [outbox[x] EXCEPT !.lease = "expired"].status # "absent"
        /\ [outbox[x] EXCEPT !.due = TRUE].status # "absent"
    BY <2>1, <2>2 DEF MessageRecord
  <2> QED
    BY <1>2, <2>2, <2>3, OneEffectIsAccounted DEF ExpireMessageLease, MessageBecomesDue
<1>3. ASSUME NEW a \in Attempts, DeadlinePasses(a)
      PROVE  EffectInv'
  <2>1. \A b \in Attempts : /\ attempt'[b].status = attempt[b].status
                            /\ attempt'[b].external = attempt[b].external
                            /\ attempt'[b].receipt = attempt[b].receipt
    BY <1>3 DEF DeadlinePasses, Inv, TypeOK, AttemptRecord
  <2> QED
    BY <1>3, <2>1, DetailIsAccounted DEF DeadlinePasses
<1> QED
  BY <1>1, <1>2, <1>3 DEF ClockStep

LEMMA NextIsAccounted ==
  ASSUME Inv, EffectInv, [Next]_vars
  PROVE  EffectInv'
<1>1. CASE UNCHANGED vars
  BY <1>1, SameAttempts, SameOutbox DEF vars
<1>2. ASSUME NEW o \in Owners, SupervisorStep(o)
      PROVE  EffectInv'
  BY <1>2, JobIsAccounted, AcquireMessageIsAccounted, AttemptIsAccounted, DeliveryIsAccounted,
     VerificationIsAccounted
  DEF SupervisorStep
<1> QED
  BY <1>1, <1>2, OperatorIsAccounted, ClockIsAccounted DEF Next

LEMMA InitIsAccounted == Init => EffectInv
<1> SUFFICES ASSUME Init PROVE EffectInv
  OBVIOUS
<1>1. \A b \in Attempts : \A e \in {"start", "verify", "cancel"} :
        outbox[<<b, e>>].status = "absent" /\ attempt[b].status = "absent"
  BY EffectIsMessage DEF Init, Effects, NoMessage, NoAttempt
<1> QED
  BY <1>1 DEF EffectInv, FreshEffects, KnownRunsAreCancelled

-----------------------------------------------------------------------------
FullInv == Inv /\ EffectInv /\ OutcomeInv

LEMMA FullInvStep == FullInv /\ [Next]_vars => FullInv' /\ Moves /\ Kept
<1> SUFFICES ASSUME FullInv, [Next]_vars PROVE FullInv' /\ Moves /\ Kept
  OBVIOUS
<1>1. Inv' /\ EffectInv'
  BY NextInv, NextIsAccounted DEF FullInv
<1>2. Moves /\ Kept
  BY NextMoves DEF FullInv, EffectInv, OutcomeInv
<1>3. OutcomeInv'
  BY <1>2, MovesKeepOutcomes DEF FullInv
<1> QED
  BY <1>1, <1>2, <1>3 DEF FullInv

LEMMA FullInvariance == Spec => []FullInv
<1>1. Init => FullInv
  BY InitInv, InitIsAccounted, InitOutcomes DEF FullInv
<1> QED
  BY <1>1, FullInvStep, PTL DEF Spec

LEMMA OutcomeInvIsEarned ==
  ASSUME OutcomeInv
  PROVE  OutcomesAreEarned
<1>1. DependencyOrder
  BY DEF OutcomeInv, ReadyOK, DependencyOrder
<1>2. SuccessIsVerified
  BY DEF OutcomeInv, VerifiedOK, SucceededOK, SuccessIsVerified, JobsOf
<1>3. FailureIsEarned
  <2> SUFFICES ASSUME NEW r \in Runs
               PROVE  LET failed == {j \in JobsOf(r) : job[j].status = "failed"}
                      IN  /\ run[r] = "failed" <=> failed # {}
                          /\ \A j, k \in failed : j = k
                          /\ \A j \in failed :
                               \/ job[j].attempts = MaxAttempts[j]
                               \/ attempt[<<j, job[j].attempts>>].reason \in Ruled
    BY DEF FailureIsEarned, Ruled
  <2> DEFINE failed == {j \in JobsOf(r) : job[j].status = "failed"}
  <2>1. /\ \A j \in failed : j \in Jobs /\ RunOf[j] = r /\ job[j].status = "failed"
        /\ failed # {} <=> \E j \in Jobs : RunOf[j] = r /\ job[j].status = "failed"
    BY DEF JobsOf
  <2> HIDE DEF failed
  <2>0. FailedOK /\ FailedRunsOK
    BY DEF OutcomeInv
  <2>2. run[r] = "failed" <=> failed # {}
    BY <2>0, <2>1 DEF FailedOK, FailedRunsOK
  <2>3. ASSUME NEW j \in failed, NEW k \in failed
        PROVE  j = k
    BY <2>0, <2>1, <2>3 DEF FailedOK
  <2>4. \A j \in failed : \/ job[j].attempts = MaxAttempts[j]
                          \/ attempt[<<j, job[j].attempts>>].reason \in Ruled
    BY <2>0, <2>1 DEF FailedOK
  <2> QED
    BY <2>2, <2>3, <2>4 DEF failed
<1> QED
  BY <1>1, <1>2, <1>3 DEF OutcomesAreEarned

\* However deliveries, receipts, verifications and timeouts cross, a job starts
\* only after its dependencies, succeeds only by the passed verification of its
\* newest attempt, and fails only with nothing left to try; and a run succeeds
\* exactly with its last job and fails exactly with its first failed one.
THEOREM OutcomesAreEarnedHolds == Spec => []OutcomesAreEarned
<1>1. FullInv => OutcomesAreEarned
  BY OutcomeInvIsEarned DEF FullInv
<1> QED
  BY <1>1, FullInvariance, PTL

\* The kernel ends an attempt whose external run is still known only together
\* with an agent.cancel effect, in a cancellation, a timeout or the fall of its
\* run, and it cancels nothing else.
THEOREM KnownRunsAreCancelledHolds == Spec => []KnownRunsAreCancelled
<1>1. FullInv => KnownRunsAreCancelled
  BY DEF FullInv, EffectInv
<1> QED
  BY <1>1, FullInvariance, PTL

-----------------------------------------------------------------------------
(* Outcomes are final.                                                     *)

RunsKept == \A r \in Runs : run[r] \in TerminalRuns => run'[r] = run[r]

LEMMA MovesKeepRuns ==
  ASSUME FullInv, Moves
  PROVE  RunsKept
<1>0. run \in [Runs -> RunStatuses]
  BY DEF FullInv, Inv, TypeOK
<1>1. CASE Details
  BY <1>1 DEF Details, RunsKept
<1>2. ASSUME NEW r \in Runs, Creates(r) \/ Schedules(r) \/ Cancels(r)
      PROVE  RunsKept
  BY <1>0, <1>2 DEF Creates, Schedules, Cancels, RunsKept, TerminalRuns
<1>3. ASSUME NEW j \in Jobs, Begins(j)
      PROVE  RunsKept
  BY <1>0, <1>3 DEF Begins, RunsKept, TerminalRuns
<1>4. ASSUME NEW a \in Attempts, Retries(a)
      PROVE  RunsKept
  BY <1>4 DEF Retries, RunsKept
<1>5. ASSUME NEW a \in Attempts, Succeeds(a) \/ Fails(a)
      PROVE  RunsKept
  <2>1. a[1] \in Jobs /\ job[a[1]].status = "active"
    BY <1>5, LiveFacts DEF Succeeds, Fails, FullInv
  <2>2. run[RunOf[a[1]]] = "running"
    BY <2>1 DEF FullInv, OutcomeInv, RunningOK
  <2> QED
    BY <1>0, <1>5, <2>2 DEF Succeeds, Fails, RunsKept, TerminalRuns
<1> QED
  BY <1>1, <1>2, <1>3, <1>4, <1>5 DEF Moves

Final ==
  /\ \A r \in Runs : run[r] \in TerminalRuns => run'[r] = run[r]
  /\ \A j \in Jobs : job[j].status \in TerminalJobs => job'[j] = job[j]
  /\ \A a \in Attempts :
       attempt[a].status \in TerminalAttempts =>
         /\ attempt'[a].status = attempt[a].status
         /\ attempt'[a].verification = attempt[a].verification
  /\ \A x \in Messages :
       outbox[x].status \in {"delivered", "dead_letter", "obsolete"} => outbox'[x] = outbox[x]

\* No late command, clock tick or retry changes the outcome of a run, a job, an
\* attempt, a verification or an effect: every command that could is refused by
\* the status it has to find.
THEOREM OutcomesAreFinalHolds == Spec => OutcomesAreFinal
<1>1. FullInv /\ [Next]_vars => [Final]_vars
  <2> SUFFICES ASSUME FullInv, [Next]_vars PROVE Final
    OBVIOUS
  <2>1. RunsKept /\ Kept
    BY FullInvStep, MovesKeepRuns
  <2> QED
    BY <2>1 DEF Final, RunsKept, Kept, JobsKept, AttemptsKept, EffectsKept, SettledEffects,
                TerminalAttempts, LiveAttempts
<1>2. OutcomesAreFinal <=> [][Final]_vars
  BY PTL DEF OutcomesAreFinal, Final
<1> QED
  BY <1>1, <1>2, FullInvariance, PTL DEF Spec

-----------------------------------------------------------------------------
(* Each of the eight is a step of RunLifecycle, or none.                   *)

PhaseOf(status) ==
  CASE status \in {"blocked", "ready", "retry_wait"} -> "waiting"
    [] status = "active" -> "working"
    [] OTHER -> status

phases == [j \in Jobs |-> Phase(j)]
begun  == [j \in Jobs |-> job[j].attempts]

LEMMA PhaseBefore ==
  ASSUME NEW k \in Jobs
  PROVE  phases[k] = PhaseOf(job[k].status) /\ begun[k] = job[k].attempts
  BY DEF phases, begun, Phase, PhaseOf

LEMMA PhaseAfter ==
  ASSUME NEW k \in Jobs, NEW status, NEW n, Goes(k, status, n)
  PROVE  phases'[k] = PhaseOf(status) /\ begun'[k] = n
  BY DEF Goes, phases, begun, Phase, PhaseOf

LEMMA PhaseStays ==
  ASSUME NEW k \in Jobs, Stays(k)
  PROVE  phases'[k] = phases[k] /\ begun'[k] = begun[k]
  BY PhaseAfter, PhaseBefore DEF Stays

\* phases and begun as functions, to compare them before and after.
LEMMA PhaseFunctions ==
  /\ phases = [j \in Jobs |-> phases[j]] /\ begun = [j \in Jobs |-> begun[j]]
  /\ phases' = [j \in Jobs |-> phases'[j]] /\ begun' = [j \in Jobs |-> begun'[j]]
  BY DEF phases, begun

LEMMA DetailsStutter ==
  ASSUME Details
  PROVE  run' = run /\ phases' = phases /\ begun' = begun
<1>1. \A k \in Jobs : phases'[k] = phases[k] /\ begun'[k] = begun[k]
  BY PhaseStays DEF Details
<1> QED
  BY <1>1, PhaseFunctions DEF Details

LEMMA CreatesIsCreate ==
  ASSUME NEW r \in Runs, Creates(r)
  PROVE  Lifecycle!Create(r)
<1>1. \A k \in Jobs : phases'[k] = phases[k] /\ begun'[k] = begun[k]
  BY PhaseStays DEF Creates
<1>2. phases' = phases /\ begun' = begun
  BY <1>1, PhaseFunctions
<1> QED
  BY <1>2 DEF Creates, Lifecycle!Create, phases, begun

LEMMA SchedulesIsSchedule ==
  ASSUME FullInv, NEW r \in Runs, Schedules(r)
  PROVE  Lifecycle!Schedule(r)
<1>1. ASSUME NEW k \in Jobs, RunOf[k] = r
      PROVE  phases'[k] = "waiting" /\ begun'[k] = begun[k]
  <2>1. begun[k] = 0
    BY <1>1, PhaseBefore
    DEF Schedules, FullInv, Inv, RunsInv, UnscheduledRunsAreEmpty, JobsOf
  <2>2. Goes(k, IF DependsOn[k] = {} THEN "ready" ELSE "blocked", 0)
    BY <1>1 DEF Schedules
  <2> QED
    BY <2>1, <2>2, PhaseAfter DEF PhaseOf
<1>2. ASSUME NEW k \in Jobs, RunOf[k] # r
      PROVE  phases'[k] = phases[k] /\ begun'[k] = begun[k]
  BY <1>2, PhaseStays DEF Schedules
<1>3. begun' = begun
  BY <1>1, <1>2, PhaseFunctions
<1>4. phases' = [j \in Jobs |-> IF RunOf[j] = r THEN "waiting" ELSE phases[j]]
  BY <1>1, <1>2, PhaseFunctions
<1>5. [j \in Jobs |-> IF RunOf[j] = r THEN "waiting" ELSE phases[j]]
        = [j \in Jobs |-> IF RunOf[j] = r THEN "waiting" ELSE [k \in Jobs |-> Phase(k)][j]]
  BY DEF phases
<1> QED
  BY <1>3, <1>4, <1>5 DEF Schedules, Lifecycle!Schedule, phases, begun

LEMMA BeginsIsBegin ==
  ASSUME FullInv, NEW j \in Jobs, Begins(j)
  PROVE  Lifecycle!Begin(j)
<1>1. /\ run[RunOf[j]] \in {"scheduled", "running"} /\ run' = [run EXCEPT ![RunOf[j]] = "running"]
      /\ job[j].status \in {"ready", "retry_wait"}
      /\ Goes(j, "active", job[j].attempts + 1)
      /\ \A k \in Jobs : k # j => Stays(k)
  BY DEF Begins
<1>2. phases[j] = "waiting" /\ begun[j] = job[j].attempts
  BY <1>1, PhaseBefore DEF PhaseOf
<1>3. \A d \in DependsOn[j] : phases[d] = "succeeded"
  BY <1>1, PhaseBefore, JobFacts DEF PhaseOf, FullInv, OutcomeInv, ReadyOK
<1>4. begun[j] < MaxAttempts[j]
  BY <1>1, <1>2 DEF FullInv, OutcomeInv, TriesOK
<1>5. phases'[j] = "working" /\ begun'[j] = begun[j] + 1
  BY <1>1, <1>2, PhaseAfter DEF PhaseOf
<1>6. \A k \in Jobs : k # j => phases'[k] = phases[k] /\ begun'[k] = begun[k]
  BY <1>1, PhaseStays
<1>7. phases' = [phases EXCEPT ![j] = "working"] /\ begun' = [begun EXCEPT ![j] = @ + 1]
  BY <1>5, <1>6, PhaseFunctions
<1> QED
  BY <1>1, <1>2, <1>3, <1>4, <1>7 DEF Lifecycle!Begin, phases, begun

LEMMA RetriesIsRetry ==
  ASSUME FullInv, NEW a \in Attempts, Retries(a)
  PROVE  Lifecycle!Retry(a[1])
<1> DEFINE j == a[1]
<1>1. j \in Jobs /\ job[j].status = "active"
  BY LiveFacts DEF Retries, FullInv
<1>2. /\ Goes(j, "retry_wait", job[j].attempts) /\ run' = run
      /\ job[j].attempts < MaxAttempts[j]
      /\ \A k \in Jobs : k # j => Stays(k)
  BY DEF Retries, Retryable
<1> HIDE DEF j
<1>3. phases[j] = "working" /\ begun[j] < MaxAttempts[j] /\ begun[j] = job[j].attempts
  BY <1>1, <1>2, PhaseBefore DEF PhaseOf
<1>4. phases'[j] = "waiting" /\ begun'[j] = begun[j]
  BY <1>1, <1>2, <1>3, PhaseAfter DEF PhaseOf
<1>5. \A k \in Jobs : k # j => phases'[k] = phases[k] /\ begun'[k] = begun[k]
  BY <1>2, PhaseStays
<1>6. phases' = [phases EXCEPT ![j] = "waiting"] /\ begun' = begun
  BY <1>4, <1>5, PhaseFunctions
<1> QED
  BY <1>2, <1>3, <1>6 DEF Lifecycle!Retry, phases, begun, j

LEMMA SucceedsIsSucceed ==
  ASSUME FullInv, NEW a \in Attempts, Succeeds(a)
  PROVE  Lifecycle!Succeed(a[1])
<1> DEFINE j == a[1]
           r == RunOf[j]
           last == \A k \in Jobs : RunOf[k] = r => k = j \/ job[k].status = "succeeded"
<1>1. j \in Jobs /\ job[j].status = "active"
  BY LiveFacts DEF Succeeds, FullInv
<1>2. run[r] = "running"
  BY <1>1 DEF FullInv, OutcomeInv, RunningOK
<1>3. /\ Goes(j, "succeeded", job[j].attempts)
      /\ \A k \in Jobs : k # j =>
           \/ Stays(k)
           \/ job[k].status = "blocked" /\ Goes(k, "ready", job[k].attempts)
  BY <1>1 DEF Succeeds, Unblocked
<1>4. run' = [run EXCEPT ![r] = IF last THEN "succeeded" ELSE "running"]
  BY <1>2 DEF Succeeds, JobsOf, FullInv, Inv, TypeOK
<1> HIDE DEF j, r
<1>5. phases[j] = "working" /\ begun[j] = job[j].attempts
  BY <1>1, PhaseBefore DEF PhaseOf
<1>6. phases'[j] = "succeeded" /\ begun'[j] = begun[j]
  BY <1>1, <1>3, <1>5, PhaseAfter DEF PhaseOf
<1>7. \A k \in Jobs : k # j => phases'[k] = phases[k] /\ begun'[k] = begun[k]
  BY <1>3, PhaseStays, PhaseAfter, PhaseBefore DEF PhaseOf
<1>8. phases' = [phases EXCEPT ![j] = "succeeded"] /\ begun' = begun
  BY <1>6, <1>7, PhaseFunctions
<1>9. \A k \in Jobs : phases[k] = "succeeded" <=> job[k].status = "succeeded"
  BY PhaseBefore DEF PhaseOf
<1>10. last <=> \A k \in Jobs : RunOf[k] = r => phases'[k] = "succeeded"
  BY <1>6, <1>7, <1>9
<1> HIDE DEF last
<1>11. run' = [run EXCEPT ![r] = IF \A k \in Jobs : RunOf[k] = r => phases'[k] = "succeeded"
                                 THEN "succeeded" ELSE "running"]
  BY <1>4, <1>10
<1> QED
  BY <1>2, <1>5, <1>8, <1>11 DEF Lifecycle!Succeed, phases, begun, j, r

\* Closing the open jobs of a run is what ends it in RunLifecycle.
LEMMA ClosingIsEnd ==
  ASSUME FullInv, NEW r \in Runs, NEW how, run' = [run EXCEPT ![r] = how], NEW failed,
         \A k \in Jobs :
           IF k \in OpenJobs(r)
           THEN Goes(k, IF k \in failed THEN "failed" ELSE "cancelled", job[k].attempts)
           ELSE Stays(k)
  PROVE  Lifecycle!End(r, how, failed)
<1>1. ASSUME NEW k \in Jobs
      PROVE  /\ begun'[k] = begun[k]
             /\ phases'[k] = IF RunOf[k] # r \/ phases[k] \in Lifecycle!Over \cup {"absent"}
                             THEN phases[k]
                             ELSE IF k \in failed THEN "failed" ELSE "cancelled"
  <2>1. phases[k] \in Lifecycle!Over \cup {"absent"} <=> job[k].status \in TerminalJobs \cup {"absent"}
    <3>1. phases[k] = PhaseOf(job[k].status) /\ job[k].status \in JobStatuses
      BY PhaseBefore, JobFacts DEF FullInv
    <3> QED
      BY <3>1 DEF PhaseOf, Lifecycle!Over, TerminalJobs, JobStatuses
  <2>2. CASE k \in OpenJobs(r)
    <3>1. Goes(k, IF k \in failed THEN "failed" ELSE "cancelled", job[k].attempts)
      BY <2>2
    <3>2. /\ phases'[k] = PhaseOf(IF k \in failed THEN "failed" ELSE "cancelled")
          /\ begun'[k] = job[k].attempts
      BY <3>1, PhaseAfter
    <3>3. begun[k] = job[k].attempts
      BY PhaseBefore
    <3>4. PhaseOf(IF k \in failed THEN "failed" ELSE "cancelled")
            = IF k \in failed THEN "failed" ELSE "cancelled"
      BY DEF PhaseOf
    <3>5. RunOf[k] = r /\ job[k].status \notin TerminalJobs \cup {"absent"}
      BY <2>2, OpenJobsFacts
    <3> QED
      BY <2>1, <3>2, <3>3, <3>4, <3>5
  <2>3. CASE k \notin OpenJobs(r)
    BY <2>1, <2>3, OpenJobsFacts, PhaseStays
  <2> QED
    BY <2>2, <2>3
<1>2. begun' = begun
  BY <1>1, PhaseFunctions
<1>3. phases' = [j \in Jobs |-> IF RunOf[j] # r \/ phases[j] \in Lifecycle!Over \cup {"absent"}
                                THEN phases[j]
                                ELSE IF j \in failed THEN "failed" ELSE "cancelled"]
  BY <1>1, PhaseFunctions
<1> QED
  BY <1>2, <1>3 DEF Lifecycle!End, phases, begun

LEMMA FailsIsFail ==
  ASSUME FullInv, NEW a \in Attempts, Fails(a)
  PROVE  Lifecycle!Fail(a[1])
<1> DEFINE j == a[1]
           r == RunOf[j]
<1>1. j \in Jobs /\ job[j].status = "active" /\ r \in Runs /\ j \in OpenJobs(r)
  BY LiveFacts, JobFacts, LiveAttemptIsActive DEF Fails, FullInv
<1>2. run[r] = "running"
  BY <1>1 DEF FullInv, OutcomeInv, RunningOK
<1>3. phases[j] = "working"
  BY <1>1, PhaseBefore DEF PhaseOf
<1>4. \A k \in Jobs :
        IF k \in OpenJobs(r)
        THEN Goes(k, IF k \in {j} THEN "failed" ELSE "cancelled", job[k].attempts)
        ELSE Stays(k)
  BY <1>1 DEF Fails
<1>5. run' = [run EXCEPT ![r] = "failed"]
  BY DEF Fails
<1> HIDE DEF j, r
<1>6. Lifecycle!End(r, "failed", {j})
  BY <1>1, <1>4, <1>5, ClosingIsEnd
<1> QED
  BY <1>2, <1>3, <1>6 DEF Lifecycle!Fail, phases, j, r

LEMMA CancelsIsCancel ==
  ASSUME FullInv, NEW r \in Runs, Cancels(r)
  PROVE  Lifecycle!Cancel(r)
<1>1. run[r] \in {"created", "scheduled", "running"}
  BY DEF Cancels, FullInv, Inv, TypeOK, RunStatuses
<1>2. /\ run' = [run EXCEPT ![r] = "cancelled"]
      /\ \A k \in Jobs :
           IF k \in OpenJobs(r)
           THEN Goes(k, IF k \in {} THEN "failed" ELSE "cancelled", job[k].attempts)
           ELSE Stays(k)
  BY DEF Cancels
<1>3. Lifecycle!End(r, "cancelled", {})
  BY <1>2, ClosingIsEnd
<1> QED
  BY <1>1, <1>3 DEF Lifecycle!Cancel

LEMMA NextIsLifecycle == FullInv /\ [Next]_vars => [Lifecycle!Next]_(Lifecycle!vars)
<1> SUFFICES ASSUME FullInv, [Next]_vars
             PROVE  Lifecycle!Next \/ UNCHANGED Lifecycle!vars
  OBVIOUS
<1>1. Moves
  BY FullInvStep
<1>2. CASE Details
  BY <1>2, DetailsStutter DEF Lifecycle!vars, phases, begun
<1>3. ASSUME NEW r \in Runs, Creates(r) \/ Schedules(r) \/ Cancels(r)
      PROVE  Lifecycle!Next
  BY <1>3, CreatesIsCreate, SchedulesIsSchedule, CancelsIsCancel DEF Lifecycle!Next
<1>4. ASSUME NEW j \in Jobs, Begins(j)
      PROVE  Lifecycle!Next
  BY <1>4, BeginsIsBegin DEF Lifecycle!Next
<1>5. ASSUME NEW a \in Attempts, Retries(a) \/ Succeeds(a) \/ Fails(a)
      PROVE  Lifecycle!Next
  <2>1. a[1] \in Jobs
    BY AttemptIsPair
  <2> QED
    BY <1>5, <2>1, RetriesIsRetry, SucceedsIsSucceed, FailsIsFail DEF Lifecycle!Next
<1> QED
  BY <1>1, <1>2, <1>3, <1>4, <1>5 DEF Moves

LEMMA InitIsLifecycle == Init => Lifecycle!Init
  BY DEF Init, NoJob, Phase, Lifecycle!Init

\* Leases, the outbox, drivers and the clock apart, every command of the kernel
\* is a step of the run lifecycle or leaves it alone.
THEOREM LifecycleIsImplemented == Spec => ImplementsLifecycle
<1>1. Spec => Lifecycle!Init /\ [][Lifecycle!Next]_(Lifecycle!vars)
  BY InitIsLifecycle, NextIsLifecycle, FullInvariance, PTL DEF Spec
<1> QED
  BY <1>1 DEF ImplementsLifecycle, Lifecycle!Spec
=============================================================================
