----------------------------- MODULE DriverRuns -----------------------------
(***************************************************************************)
(* One attempt of a generic job, from its lease to its evidence: the       *)
(* supervisors that work on it (packages/runtime/src/supervisor.ts), the   *)
(* calls they make on GenericCommandDriver (generic-command-driver.ts),    *)
(* step by step, and the driver's store, container and log.                *)
(*                                                                         *)
(* A kernel command is one step; a call on the driver is several, between  *)
(* which the agent, the operator, the clock and the other supervisor go    *)
(* on, and after each of which the supervisor may crash.  The job has no   *)
(* retry, so its run ends with its attempt.  Fencing tokens are left out:  *)
(* a supervisor does one thing at a time, so whose lease it is tells as    *)
(* much.                                                                   *)
(***************************************************************************)
EXTENDS Integers

CONSTANTS
  Supervisors,
  NoOne,          \* leaseOwnerId = null
  MaxDeliveries,  \* OUTBOX_RETRY_DELAYS.length + 1
  Breaches,       \* rules the agent may break: a capability it uses, an approval it asks for
  EventLimit,     \* bound: events in the log of the container
  MaxFaults       \* bound: crashes, leases lost and commands that Docker refuses

ASSUME DriverRunsAssumption ==
  /\ NoOne \notin Supervisors /\ Breaches \subseteq {"violation", "approval"}
  /\ MaxDeliveries \in Nat \ {0} /\ EventLimit \in Nat /\ MaxFaults \in Nat

VARIABLES
  attempt,    \* what the kernel knows of the attempt
  lease,      \* the lease of its job
  message,    \* its agent.start and agent.cancel effects
  intent,     \* the launch intent: does it exist, and its cancellationReason
  workspace,  \* the directory mounted into the container
  container,  \* its status, its exit code, how often the agent was started in it, and
              \* whether Docker has refused a command of the driver on it
  log,        \* what the agent has written to its standard output
  bundle,     \* the receipt bundle in the store
  sup,        \* supervisor -> the step it is at and what it has read
  faults      \* crashes, lost leases and refused commands so far

kernel == <<attempt, lease, message>>
store == <<intent, workspace, bundle>>
docker == <<container, log>>
vars == <<kernel, store, docker, sup, faults>>

-----------------------------------------------------------------------------
Reasons  == {"operator_cancelled", "timed_out"}
Verdicts == {"succeeded", "failed"}
Flaws    == {"malformed", "violation", "approval"}
Outcomes ==
  Verdicts \cup Reasons \cup {"protocol_invalid", "capability_violation", "approval_required"}

Live == {"starting", "running", "verifying"}
Open == {"pending", "leased"}

NoLease   == [holder |-> NoOne, live |-> FALSE]
NoMessage == [status |-> "absent", deliveries |-> 0, holder |-> NoOne, live |-> FALSE,
              due |-> FALSE]
NoLog     == [count |-> 0, verdict |-> "none", flaw |-> "none"]
NoBundle  == [outcome |-> "none", count |-> 0]
Idle      == [at |-> "idle", for |-> "none", cursor |-> 0, log |-> NoLog, reason |-> "none",
              outcome |-> "none"]

Counts == 0..EventLimit
Starting == {"launch", "intend", "look", "create", "run"}
Stopping == {"mark", "stop"}
Reading == {"inspect", "examine", "observe"}
Collecting == {"collect", "judge", "keep", "sweep", "record"}
Steps == {"idle", "tell", "fail"} \cup Starting \cup Stopping \cup Reading \cup Collecting

Logs == [count : Counts, verdict : Verdicts \cup {"none"}, flaw : Flaws \cup {"none"}]

\* Every field of the state has its kind.
TypeOK ==
  /\ attempt \in [status : Live \cup {"absent", "ended"}, external : BOOLEAN, overdue : BOOLEAN,
                  cursor : Counts, receipt : Outcomes \cup {"none"}, reason : Reasons \cup {"none"}]
  /\ lease \in [holder : Supervisors \cup {NoOne}, live : BOOLEAN]
  /\ message \in [{"start", "cancel"} ->
       [status : Open \cup {"absent", "delivered", "dead_letter", "obsolete"},
        deliveries : 0..MaxDeliveries + MaxFaults + 1, holder : Supervisors \cup {NoOne},
        live : BOOLEAN, due : BOOLEAN]]
  /\ intent \in [made : BOOLEAN, reason : Reasons \cup {"none"}]
  /\ workspace \in {"empty", "filled", "removed"}
  /\ container \in [status : {"none", "created", "running", "exited", "removed"},
                    code : {"zero", "other"}, launches : 0..2, refused : BOOLEAN]
  /\ log \in Logs
  /\ bundle \in [outcome : Outcomes \cup {"none"}, count : Counts]
  /\ sup \in [Supervisors ->
       [at : Steps, for : {"none", "start", "cancel", "job"}, cursor : Counts, log : Logs,
        reason : Reasons \cup {"none"}, outcome : Outcomes \cup {"none", "running"}]]
  /\ faults \in 0..MaxFaults

Init ==
  /\ attempt = [status |-> "absent", external |-> FALSE, overdue |-> FALSE, cursor |-> 0,
                receipt |-> "none", reason |-> "none"]
  /\ lease = NoLease
  /\ message = [m \in {"start", "cancel"} |-> NoMessage]
  /\ intent = [made |-> FALSE, reason |-> "none"]
  /\ workspace = "empty"
  /\ container = [status |-> "none", code |-> "zero", launches |-> 0, refused |-> FALSE]
  /\ log = NoLog
  /\ bundle = NoBundle
  /\ sup = [s \in Supervisors |-> Idle]
  /\ faults = 0

-----------------------------------------------------------------------------
(* Kernel commands.  `ended' attempts take their job, its lease and their  *)
(* agent.start along; an external run that is known is cancelled, too.     *)

Settled(m, status) ==
  [message[m] EXCEPT !.status = status, !.holder = NoOne, !.live = FALSE, !.due = FALSE]
Enqueued == [NoMessage EXCEPT !.status = "pending", !.due = TRUE]

StartObsolete ==
  IF message["start"].status \in Open THEN Settled("start", "obsolete") ELSE message["start"]

\* The attempt ends for a reason that the driver is told if it may be running.
EndAndCancel(why) ==
  /\ attempt' = [attempt EXCEPT !.status = "ended", !.overdue = FALSE, !.reason = why]
  /\ lease' = NoLease
  /\ message' = [message EXCEPT
       !["start"] = StartObsolete,
       !["cancel"] = IF attempt.external /\ @.status = "absent" THEN Enqueued ELSE @]

\* The attempt ends by what its driver or its verifier says.
EndWith(ended) ==
  /\ attempt' = [ended EXCEPT !.status = "ended", !.overdue = FALSE]
  /\ lease' = NoLease
  /\ message' = [message EXCEPT !["start"] = StartObsolete]

\* run.cancel.
CancelRun ==
  /\ attempt.status \in Live
  /\ EndAndCancel("operator_cancelled")
  /\ UNCHANGED <<store, docker, sup, faults>>

\* verification.complete and verification.execution.fail.
VerificationEnds ==
  /\ attempt.status = "verifying"
  /\ EndWith(attempt)
  /\ UNCHANGED <<store, docker, sup, faults>>

DeadlinePasses ==
  /\ attempt.status \in Live /\ ~attempt.overdue
  /\ attempt' = [attempt EXCEPT !.overdue = TRUE]
  /\ UNCHANGED <<lease, message, store, docker, sup, faults>>

MessageBecomesDue(m) ==
  /\ message[m].status = "pending" /\ ~message[m].due
  /\ message' = [message EXCEPT ![m].due = TRUE]
  /\ UNCHANGED <<attempt, lease, store, docker, sup, faults>>

HoldsJob(s) == lease = [holder |-> s, live |-> TRUE]
HoldsMessage(s, m) == message[m].status = "leased" /\ message[m].holder = s /\ message[m].live

-----------------------------------------------------------------------------
(* Faults: leases that run out, supervisors that restart under their name. *)

JobLeaseExpires ==
  /\ lease.live /\ faults < MaxFaults
  /\ lease' = [lease EXCEPT !.live = FALSE]
  /\ faults' = faults + 1
  /\ UNCHANGED <<attempt, message, store, docker, sup>>

(* The lease of an effect on this driver lasts as long as an attempt may,  *)
(* and ten seconds more (for attempts of an hour at most): when that of an *)
(* agent.start runs out, its attempt is overdue.                           *)
MessageLeaseExpires(m) ==
  /\ message[m].live /\ faults < MaxFaults
  /\ m = "start" => attempt.overdue
  /\ message' = [message EXCEPT ![m].live = FALSE]
  /\ faults' = faults + 1
  /\ UNCHANGED <<attempt, lease, store, docker, sup>>

Crash(s) ==
  /\ sup[s].at # "idle" /\ faults < MaxFaults
  /\ sup' = [sup EXCEPT ![s] = Idle]
  /\ faults' = faults + 1
  /\ UNCHANGED <<kernel, store, docker>>

-----------------------------------------------------------------------------
(* Supervisor.tick: the first of these that there is to do.                *)

Free(s) == sup[s].at = "idle"
Does(s, step) == sup' = [sup EXCEPT ![s] = step]
Goes(s, where) == sup' = [sup EXCEPT ![s].at = where]
Done(s) == Does(s, Idle)
\* What it has read so far is of no more use.
Afresh(s, where) == Does(s, [Idle EXCEPT !.for = sup[s].for, !.at = where])

\* Active jobs whose lease ran out come first.
JobLost == attempt.status \in Live /\ ~lease.live

\* Fault (KnownRunsStop): the attempt that timed out is not cancelled at the driver.
TimeoutUntold(s) ==
  /\ Free(s) /\ ~JobLost /\ HoldsJob(s) /\ attempt.overdue
  /\ EndWith([attempt EXCEPT !.reason = "timed_out"])
  /\ UNCHANGED <<store, docker, sup, faults>>

\* Then the attempts past their deadline: attempt.timeout.
Timeout(s) ==
  /\ Free(s) /\ ~JobLost /\ HoldsJob(s) /\ attempt.overdue
  /\ EndAndCancel("timed_out")
  /\ UNCHANGED <<store, docker, sup, faults>>

Urgent(s) == JobLost \/ (HoldsJob(s) /\ attempt.overdue)

Lapsed(m)  == message[m].status = "leased" /\ ~message[m].live
Due(m)     == message[m].status = "pending" /\ message[m].due
Owned(s)   == {m \in {"start", "cancel"} : HoldsMessage(s, m)}

\* Fault (CancellationsSettleUnlessMismatched): an effect whose lease ran out is left to its holder.
AcquireDueMessage(s, m) ==
  /\ Free(s) /\ ~Urgent(s)
  /\ Due(m) /\ Owned(s) = {}
  /\ message' = [message EXCEPT ![m] =
       [status |-> "leased", deliveries |-> @.deliveries + 1, holder |-> s, live |-> TRUE,
        due |-> FALSE]]
  /\ UNCHANGED <<attempt, lease, store, docker, sup, faults>>

\* Then the effects: those whose lease ran out, its own, those that are due.
AcquireMessage(s, m) ==
  /\ Free(s) /\ ~Urgent(s)
  /\ \/ Lapsed(m)
     \/ Due(m) /\ Owned(s) = {} /\ \A n \in {"start", "cancel"} : ~Lapsed(n)
  /\ message' = [message EXCEPT ![m] =
       [status |-> "leased", deliveries |-> @.deliveries + 1, holder |-> s, live |-> TRUE,
        due |-> FALSE]]
  /\ UNCHANGED <<attempt, lease, store, docker, sup, faults>>

Quiet(s) == Free(s) /\ ~Urgent(s) /\ \A m \in {"start", "cancel"} : ~Lapsed(m)

DeliverMessage(s, m) ==
  /\ Quiet(s) /\ m \in Owned(s)
  /\ Does(s, [Idle EXCEPT !.for = m, !.at = IF m = "start" THEN "launch" ELSE "mark"])
  /\ UNCHANGED <<kernel, store, docker, faults>>

\* Then the jobs it holds: a running attempt is inspected.
ReconcileJob(s) ==
  /\ Quiet(s) /\ Owned(s) = {} /\ \A m \in {"start", "cancel"} : ~Due(m)
  /\ HoldsJob(s) /\ attempt.status = "running"
  /\ Does(s, [Idle EXCEPT !.for = "job", !.at = "inspect", !.cursor = attempt.cursor])
  /\ UNCHANGED <<kernel, store, docker, faults>>

\* job.lease.acquire of the job, or of its attempt when the lease ran out.
AcquireJob(s) ==
  /\ Free(s)
  /\ \/ JobLost /\ UNCHANGED <<attempt, message>>
     \/ /\ attempt.status = "absent"
        /\ attempt' = [attempt EXCEPT !.status = "starting"]
        /\ message' = [message EXCEPT !["start"] = Enqueued]
  /\ lease' = [holder |-> s, live |-> TRUE]
  /\ UNCHANGED <<store, docker, sup, faults>>

-----------------------------------------------------------------------------
(* GenericCommandDriver.start.                                             *)

\* The directories of the run; with an intent the container only has to run.
Launch(s) ==
  /\ sup[s].at = "launch"
  /\ \/ intent.made /\ Goes(s, "look") /\ UNCHANGED workspace
     \/ /\ ~intent.made /\ workspace = "empty"
        /\ workspace' = "filled" /\ Goes(s, "intend")
     \/ ~intent.made /\ workspace # "empty" /\ Goes(s, "fail") /\ UNCHANGED workspace
  /\ UNCHANGED <<kernel, intent, bundle, docker, faults>>

\* atomicCreate: the first intent stays.
Intend(s) ==
  /\ sup[s].at = "intend"
  /\ intent' = [intent EXCEPT !.made = TRUE]
  /\ Goes(s, "look")
  /\ UNCHANGED <<kernel, workspace, bundle, docker, faults>>

HasContainer == container.status \notin {"none", "removed"}

\* #ensureStarted: only a container that was created and no more is started.
LookForContainer(s) ==
  /\ sup[s].at = "look"
  /\ Goes(s, CASE ~HasContainer -> "create"
               [] container.status = "created" -> "run"
               [] OTHER -> "tell")
  /\ UNCHANGED <<kernel, store, docker, faults>>

\* docker create: its name must be free and the workspace it mounts must exist.
Create(s) ==
  /\ sup[s].at = "create"
  /\ IF ~HasContainer /\ workspace = "filled"
     THEN container' = [container EXCEPT !.status = "created"] /\ Goes(s, "look")
     ELSE UNCHANGED container /\ Goes(s, "fail")
  /\ UNCHANGED <<kernel, store, log, faults>>

\* docker start, which runs an exited container once more, if the workspace it
\* mounts is there.  While a container runs its exit code reads 0.
Run(s) ==
  /\ sup[s].at = "run"
  /\ \/ /\ container.status \in {"created", "exited"} /\ workspace = "filled"
        /\ container.launches < 2
        /\ container' = [container EXCEPT !.status = "running", !.code = "zero",
                                          !.launches = @ + 1]
        /\ Goes(s, "tell")
     \/ container.status = "running" /\ UNCHANGED container /\ Goes(s, "tell")
     \/ /\ ~HasContainer \/ (container.status # "running" /\ workspace # "filled")
        /\ UNCHANGED container /\ Goes(s, "fail")
  /\ UNCHANGED <<kernel, store, log, faults>>

-----------------------------------------------------------------------------
(* The agent in its container.                                             *)

Kinds == {"event", "malformed"} \cup Breaches \cup Verdicts

\* parseDriverJsonl: a stream starts first, starts once, and ends with a verdict.
Breaks(kind) ==
  \/ kind = "malformed"
  \/ log.count = 0 /\ kind # "event"
  \/ log.verdict # "none"
  \/ container.launches > 1

AgentWrites(kind) ==
  /\ container.status = "running" /\ log.count < EventLimit
  /\ log' = [count |-> log.count + 1,
             verdict |-> IF kind \in Verdicts /\ log.verdict = "none" THEN kind ELSE log.verdict,
             flaw |-> IF log.flaw = "malformed" \/ Breaks(kind) THEN "malformed"
                      ELSE IF kind = "violation" \/ (kind = "approval" /\ log.flaw = "none") THEN kind
                      ELSE log.flaw]
  /\ UNCHANGED <<kernel, store, container, sup, faults>>

Exited(code) == [container EXCEPT !.status = "exited", !.code = code]

AgentExits(code) ==
  /\ container.status = "running"
  /\ container' = Exited(code)
  /\ UNCHANGED <<kernel, store, log, sup, faults>>

\* A command that fails, or that Docker cannot be asked.
Refused ==
  /\ faults < MaxFaults /\ faults' = faults + 1
  /\ container' = [container EXCEPT !.refused = TRUE]

\* docker stop within a call of the driver, which does not look whether it succeeds.
Stopped ==
  \/ \E code \in {"zero", "other"} : container' = Exited(code) /\ UNCHANGED faults
  \/ Refused

-----------------------------------------------------------------------------
(* GenericCommandDriver.cancel.                                            *)

MarkCancelled(s) ==
  /\ sup[s].at = "mark"
  /\ intent' = [intent EXCEPT !.reason = IF @ = "none" THEN attempt.reason ELSE @]
  /\ Goes(s, "stop")
  /\ UNCHANGED <<kernel, workspace, bundle, docker, faults>>

StopContainer(s) ==
  /\ sup[s].at = "stop"
  /\ IF container.status = "running" THEN Stopped ELSE UNCHANGED <<container, faults>>
  /\ Goes(s, "collect")
  /\ UNCHANGED <<kernel, store, log>>

-----------------------------------------------------------------------------
(* #inspectDetailed: the intent and the log are read first (ReadLog), the  *)
(* container is looked at and, if need be, stopped after that (Examine).   *)

Throws(s) == IF sup[s].for = "job" THEN Done(s) ELSE Afresh(s, "fail")

ReadLog(s, next) ==
  IF HasContainer
  THEN Does(s, [sup[s] EXCEPT !.at = next, !.log = log, !.reason = intent.reason])
  ELSE Throws(s)

\* What the log says, or why the run was cancelled.
Verdict(seen, reason) ==
  IF reason # "none" THEN reason
  ELSE CASE seen.flaw = "malformed" -> "protocol_invalid"
         [] seen.flaw = "violation" -> "capability_violation"
         [] seen.flaw = "approval"  -> "approval_required"
         [] seen.flaw = "none"      -> IF seen.verdict = "none" THEN "running" ELSE seen.verdict

\* Nothing of a stream that cannot be parsed is kept.
Events(seen) == IF seen.flaw = "malformed" THEN 0 ELSE seen.count

\* Fault (DriverInv): a verdict counts before the container has exited.
StatusSeenAtOnce(s) == Verdict(sup[s].log, sup[s].reason)

\* A verdict of a container that still runs is not believed.
StatusSeen(s) ==
  LET v == Verdict(sup[s].log, sup[s].reason)
  IN  IF v \in Verdicts /\ container.status = "running" THEN "running" ELSE v

\* The verdict itself is held back with it.
EventsSeen(s) ==
  IF container.status = "running" /\ Verdict(sup[s].log, sup[s].reason) \in Verdicts
  THEN Events(sup[s].log) - 1 ELSE Events(sup[s].log)

\* Cancelled runs and those that broke a rule are stopped.
MustStop(s) == Verdict(sup[s].log, sup[s].reason) \notin Verdicts \cup {"running"}

\* docker inspect, after a docker stop if the run must end.
Look(s) ==
  IF container.status = "running" /\ MustStop(s) THEN Stopped ELSE UNCHANGED <<container, faults>>

\* A container that has exited without a verdict, or not with 0 after a success.
OutcomeSeen(s) ==
  CASE container'.status # "running" /\ StatusSeen(s) = "running" -> "protocol_invalid"
    [] StatusSeen(s) = "succeeded" /\ container'.code # "zero" -> "protocol_invalid"
    [] OTHER -> StatusSeen(s)

\* inspect: a bundle answers for a container that is gone.
Inspect(s) ==
  /\ sup[s].at = "inspect"
  /\ IF bundle = NoBundle THEN ReadLog(s, "examine")
     ELSE IF sup[s].cursor > bundle.count THEN Throws(s) ELSE Afresh(s, "collect")
  /\ UNCHANGED <<kernel, store, docker, faults>>

Examine(s) ==
  /\ sup[s].at = "examine"
  /\ HasContainer /\ Look(s)
  /\ IF EventsSeen(s) > sup[s].cursor
     THEN Does(s, [sup[s] EXCEPT !.at = "observe", !.reason = "none",
                                 !.log = [NoLog EXCEPT !.count = EventsSeen(s)]])
     ELSE IF OutcomeSeen(s) = "running" THEN Done(s) ELSE Afresh(s, "collect")
  /\ UNCHANGED <<kernel, store, log>>

\* attempt.driver-events.observe.
Observe(s) ==
  /\ sup[s].at = "observe"
  /\ attempt' = IF HoldsJob(s) /\ attempt.status = "running" /\ attempt.cursor = sup[s].cursor
                THEN [attempt EXCEPT !.cursor = sup[s].log.count] ELSE attempt
  /\ Done(s)
  /\ UNCHANGED <<lease, message, store, docker, faults>>

-----------------------------------------------------------------------------
(* collectReceipt and the command that records what it returns.            *)

Collect(s) ==
  /\ sup[s].at = "collect"
  /\ IF bundle = NoBundle THEN ReadLog(s, "judge") ELSE Goes(s, "sweep")
  /\ UNCHANGED <<kernel, store, docker, faults>>

\* Whatever the outcome, artifacts that were declared and are not there, or too
\* large, or a workspace that cannot be captured make it protocol_invalid.
Judge(s) ==
  /\ sup[s].at = "judge"
  /\ HasContainer /\ Look(s)
  /\ IF OutcomeSeen(s) = "running" THEN Throws(s)
     ELSE \E outcome \in {OutcomeSeen(s), "protocol_invalid"} :
            Does(s, [sup[s] EXCEPT !.at = "keep", !.outcome = outcome])
  /\ UNCHANGED <<kernel, store, log>>

\* The container of an inspection was removed in the meantime.
Vanished(s) ==
  /\ sup[s].at \in {"examine", "judge"} /\ ~HasContainer
  /\ Throws(s)
  /\ UNCHANGED <<kernel, store, docker, faults>>

\* docker inspect, create, start and logs, whose failure ends the call; a bundle
\* that is there is read without them.
AsksDocker(s) ==
  \/ sup[s].at \in {"look", "create", "run", "examine", "judge"}
  \/ sup[s].at \in {"inspect", "collect"} /\ bundle = NoBundle

DockerFails(s) ==
  /\ AsksDocker(s) /\ Refused
  /\ Throws(s)
  /\ UNCHANGED <<kernel, store, log>>

Judged(s) == [outcome |-> sup[s].outcome, count |-> Events(sup[s].log)]

\* Fault (EvidenceIsDurable): a second collection replaces the bundle of the first.
KeepLast(s) ==
  /\ sup[s].at = "keep"
  /\ bundle' = Judged(s)
  /\ Afresh(s, "sweep")
  /\ UNCHANGED <<kernel, intent, workspace, docker, faults>>

\* atomicCreate: the first bundle stays, and is read back.
Keep(s) ==
  /\ sup[s].at = "keep"
  /\ bundle' = IF bundle = NoBundle THEN Judged(s) ELSE bundle
  /\ Afresh(s, "sweep")
  /\ UNCHANGED <<kernel, intent, workspace, docker, faults>>

Removed == [container EXCEPT !.status = "removed",
                             !.code = IF container.status = "running" THEN "other" ELSE @]

\* docker rm --force, which may fail unseen, and the directories of the run.
Sweep(s) ==
  /\ sup[s].at = "sweep"
  /\ \/ container' = Removed /\ UNCHANGED faults
     \/ HasContainer /\ Refused
  /\ workspace' = "removed"
  /\ Goes(s, "record")
  /\ UNCHANGED <<kernel, intent, bundle, log>>

\* driver.receipt.record, refused unless it accounts for every observed event.
RecordReceipt(s) ==
  /\ sup[s].at = "record" /\ sup[s].for = "job"
  /\ LET recorded == [attempt EXCEPT !.receipt = bundle.outcome]
     IN  IF ~(HoldsJob(s) /\ attempt.status = "running" /\ bundle.count = attempt.cursor)
         THEN UNCHANGED kernel
         ELSE CASE bundle.outcome = "succeeded" ->
                     /\ attempt' = [recorded EXCEPT !.status = "verifying"]
                     /\ UNCHANGED <<lease, message>>
                [] OTHER -> EndWith(recorded)
  /\ Done(s)
  /\ UNCHANGED <<store, docker, faults>>

\* What driver.terminal-receipt.record accepts of a cancelled run.
Matches == bundle.outcome = attempt.reason /\ bundle.count >= attempt.cursor

\* The delivery goes on when the receipt is known; else it is recorded, and the
\* effect stays leased until the next tick, also when it is refused.
RecordTerminalReceipt(s) ==
  /\ sup[s].at = "record" /\ sup[s].for = "cancel"
  /\ IF attempt.receipt # "none" THEN UNCHANGED attempt /\ Goes(s, "tell")
     ELSE /\ attempt' = IF HoldsMessage(s, "cancel") /\ attempt.status = "ended" /\ Matches
                        THEN [attempt EXCEPT !.receipt = bundle.outcome, !.cursor = bundle.count]
                        ELSE attempt
          /\ Done(s)
  /\ UNCHANGED <<lease, message, store, docker, faults>>

-----------------------------------------------------------------------------
(* The outcome of a delivery.                                              *)

\* outbox.delivery.succeed: an agent that was started makes its attempt run.
Tell(s) ==
  /\ sup[s].at = "tell"
  /\ LET m == sup[s].for
     IN  IF ~HoldsMessage(s, m) THEN UNCHANGED kernel
         ELSE /\ message' = [message EXCEPT ![m] = Settled(m, "delivered")]
              /\ attempt' = IF m = "start"
                            THEN [attempt EXCEPT !.status = "running", !.external = TRUE]
                            ELSE attempt
              /\ UNCHANGED lease
  /\ Done(s)
  /\ UNCHANGED <<store, docker, faults>>

\* outbox.delivery.fail: another delivery until there were enough.
Fail(s) ==
  /\ sup[s].at = "fail"
  /\ LET m == sup[s].for
         spent == message[m].deliveries >= MaxDeliveries
     IN  CASE ~HoldsMessage(s, m) -> UNCHANGED kernel
           [] HoldsMessage(s, m) /\ spent /\ m = "start" ->
                /\ attempt' = [attempt EXCEPT !.status = "ended", !.overdue = FALSE]
                /\ lease' = NoLease
                /\ message' = [message EXCEPT ![m] = Settled(m, "dead_letter")]
           [] OTHER ->
                /\ message' = [message EXCEPT ![m] =
                                 Settled(m, IF spent THEN "dead_letter" ELSE "pending")]
                /\ UNCHANGED <<attempt, lease>>
  /\ Done(s)
  /\ UNCHANGED <<store, docker, faults>>

-----------------------------------------------------------------------------
StartStep(s) == Launch(s) \/ Intend(s) \/ LookForContainer(s) \/ Create(s) \/ Run(s)
CancelStep(s) == MarkCancelled(s) \/ StopContainer(s)
InspectStep(s) == Inspect(s) \/ Examine(s) \/ Observe(s)
CollectStep(s) ==
  Collect(s) \/ Judge(s) \/ Vanished(s) \/ Keep(s) \/ Sweep(s)
    \/ RecordReceipt(s) \/ RecordTerminalReceipt(s)
Tick(s) ==
  \/ Timeout(s) \/ AcquireJob(s) \/ ReconcileJob(s)
  \/ \E m \in {"start", "cancel"} : AcquireMessage(s, m) \/ DeliverMessage(s, m)

SupervisorStep(s) ==
  Tick(s) \/ StartStep(s) \/ CancelStep(s) \/ InspectStep(s) \/ CollectStep(s) \/ Tell(s) \/ Fail(s)

AgentStep ==
  \/ \E kind \in Kinds : AgentWrites(kind)
  \/ \E code \in {"zero", "other"} : AgentExits(code)

Clock == DeadlinePasses \/ \E m \in {"start", "cancel"} : MessageBecomesDue(m)

FaultStep ==
  \/ JobLeaseExpires
  \/ \E m \in {"start", "cancel"} : MessageLeaseExpires(m)
  \/ \E s \in Supervisors : Crash(s) \/ DockerFails(s)

Next ==
  \/ CancelRun \/ VerificationEnds \/ AgentStep \/ Clock \/ FaultStep
  \/ \E s \in Supervisors : SupervisorStep(s)

(* Supervisor.run ticks for ever and a call ends; time passes.  Agents and *)
(* operators need not do anything.                                         *)
Fairness ==
  /\ \A s \in Supervisors : WF_vars(SupervisorStep(s))
  /\ WF_vars(Clock)

Spec == Init /\ [][Next]_vars /\ Fairness

-----------------------------------------------------------------------------
(* What must hold.                                                         *)

\* What the kernel has recorded is what the store keeps, whichever supervisor
\* collected it, and accounts for all the events it was told of (collectReceipt
\* and the two commands that record a receipt).
EvidenceIsDurable ==
  attempt.receipt # "none" =>
    bundle = [outcome |-> attempt.receipt, count |-> attempt.cursor]

\* A run counts as succeeded only if its agent said so, broke no rule, was started
\* once, however often the start was delivered, and its container has exited with
\* 0 (#ensureStarted; #inspectDetailed, whose log may be older than the container
\* it looks at).
SuccessIsEarned ==
  bundle.outcome = "succeeded" =>
    /\ log.verdict = "succeeded" /\ log.flaw = "none" /\ log.count = bundle.count
    /\ container.status \in {"exited", "removed"} /\ container.code = "zero"
    /\ container.launches = 1

\* #inspectDetailed and #collect: what the driver makes of a container is what
\* happened in it.
DriverInv == TypeOK /\ SuccessIsEarned

\* The external run of an attempt that is over comes to an end, if the kernel
\* knows of it, by a cancellation or with its evidence (EndAndCancel), whatever
\* supervisors crash and leases are lost.  A docker stop or rm that fails is not
\* repeated for ever: then the run may go on.
KnownRunsStop ==
  (attempt.status = "ended" /\ attempt.external /\ container.status = "running")
    ~> (container.status \in {"exited", "removed"} \/ container.refused)

Cancelling == message["cancel"].status \in Open

\* A cancellation is delivered or given up in the end, unless the evidence that
\* was kept is of another outcome than the cancellation (#deliverOutbox).
CancellationsSettleUnlessMismatched ==
  Cancelling ~> (~Cancelling \/ (bundle # NoBundle /\ ~Matches /\ attempt.receipt = "none"))
=============================================================================
