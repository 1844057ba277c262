# ParallelPlay in TLA+

ParallelPlay runs software work done by agents: an event-sourced *kernel* (one
SQLite log) decides every command, and *supervisors* (long-running processes)
lease work from the kernel, call drivers, verifiers, git and providers, and
report what they saw. This directory models what makes that safe: who may act,
in which order, after which failures.

Paths below are relative to the repository (`packages/...`).

## 1. Inventory

| Component | Source | State | Operations | Interacts by |
|---|---|---|---|---|
| Execution core | `kernel/src/domain.ts` (`decide`), `model.ts` (`evolve`) | runs, jobs, attempts, verifications, outbox | create, schedule, cancel a run; acquire, renew, release a job lease; observe, receipt, timeout of an attempt; verification; outbox lease and delivery | commands of the supervisor, operator commands |
| Command log | `kernel/src/sqlite-kernel.ts`, `database.ts` | events, receipts by idempotency key, projections | `execute`: replay, decide, append, derive outcomes, store the receipt | called by everything; one SQLite transaction |
| Integration lane | `domain.ts` 3053-3583, `integration-supervisor.ts`, `source-store.ts` | targets, candidates, work leases, prepared revisions, authorizations, git reference | queue, lease, prepare, conflict, verify, compile the decision, promote | supervisor tick, git, operator acknowledgement |
| Programs, issues, decisions | `domain.ts` 1934-2640, 3686-4620, 4897-5430 | programs, graphs, issues, decision requests, attention items | kickoff, approve, start, advance, raise, resolve, acknowledge, park, expire | operators; `advanceProgram`, `compileAttention` of the supervisor |
| Portfolio | `domain.ts` 2640-3052, `sqlite-kernel.ts` 1291-1513 | admissions, leases, policies, SLO records | coordinate, renew, release, fence, approve policy | supervisor tick |
| Advisor | `kernel/src/advisor.ts`, `runtime/src/advisor-supervisor.ts` | subjects, cases, corpora, invocations and their leases, policies, reports, promotions, audits | queue, acquire, complete, fail; approve, evaluate, promote, suspend; resolve, audit | the kernel's log, the model provider |
| Attention delivery | `domain.ts` 4798-4896, `runtime/src/attention-delivery.ts` | deliveries, leases | lease, succeed, fail | notification provider |
| Outbound authority | `kernel/src/outbound-authority.ts` | append-only log of policies, authorizations, receipts, failures | promote, suspend, authorize, record | GitHub adapter |
| GitHub adapter | `adapter-github/src/index.ts` | receipts it remembers, in memory | deliver: observe, authorize, write, observe, record | GitHub, outbound authority |
| Provider broker | `runtime/src/provider-broker.ts` | grants, remaining requests, open exchanges | grant, revoke, handle a request | containers, HTTP |
| Supervisor | `runtime/src/supervisor.ts` | none that survives a crash | `tick`: one step of the first kind of work there is | kernel, driver, verifier |
| Drivers, verifier, artifacts | `generic-command-driver.ts`, `container-agent-driver.ts`, `verifier.ts` | intents, bundles and workspaces on disk, containers | start, inspect, cancel, collect, verify | the supervisor, docker |
| Migrations, read models, packets | `database.ts`, `projections.ts`, `outcome.ts` | none of their own | pure functions of the log; migrations when a database is opened | the kernel |
| Applications, contracts | `apps/*`, other `packages/*` | none of the core | parse, render, translate | kernel API |

How they interact. Every state change is a *command*: the caller gives an
idempotency key, an actor and a payload; `SqliteKernel.execute` opens a write
transaction, replays the log, lets `decide` accept the command (events) or
reject it (a code), stores the receipt and commits. Supervisors hold nothing:
each `tick` reads a snapshot, picks one thing to do, talks to a driver outside
any transaction and sends one command. Between the read and the command the
state may change arbitrarily; *leases* (owner, fencing token, expiry) are what
protects it.

Hard behaviours: supervisors that lost a lease and do not know it; a driver call
that happened while the kernel refused to record it; an attempt that ends while
its effects or its verification are in flight; the failure of one job while its
siblings run; retries of commands whose rejection was stored; a lane that needs
several parties (queue, prepare, verify, decide, promote) in order across
crashes; budgets and snapshots read before an await and used after it. The
complete list, with source lines, is under `hazards` in `PROJECT.json`.

What makes each component correct:

* execution core: one attempt at a time per job; nothing outlives its attempt;
  a run that is over is quiet; success needs a passed verification; dependency
  order; a failure uses up the policy; outcomes are final; handovers are fenced;
  attempts end;
* command log: a command takes effect at most once whatever is retried, the
  log, the projection and the receipt agree after a crash;
* integration lane: the target head only moves from the head a verified revision
  was built on, to that revision, once, with an operator's authority; candidates
  of one target land in sequence;
* portfolio: capacity is neither exceeded nor lost, whatever gives an admission
  back;
* programs: nothing runs without the evidence it builds on, beside an issue that
  pauses it, or for a program that is parked, handed over or complete;
* revisions: what is pinned exists and is followed, no program comes to need
  itself, and no promotion under one revision of a target undoes another's;
* attention: what is open comes before the operator as it is, what is reserved
  is paged, what is acknowledged or outdated is not;
* advisor: authority is earned and has nothing known against it, and a policy
  that lost it never has it again;
* delivery: each page is delivered, given up or obsolete in the end;
* outbound effects: what is there is not written again, receipts are evidence and stay,
  failures suspend the policy;
* driver: evidence lasts and is what happened, success is earned by one run of
  the agent, and what is known to run is stopped, unless Docker refuses;
* broker: at most the granted requests, none after a revocation.

## 2. Plan

| Order | Module | Models | Abstract specification / composition | Proved |
|---|---|---|---|---|
| 1 | `JobExecution` | execution core | implements `RunLifecycle` | all safety and action properties, the refinement |
| 2 | `IntegrationLane` | kernel lane commands, supervisor tick, git, crashes | implements `ManagedRef` | all safety properties, the refinement |
| 3 | `CommandLog` | `execute`, `rebuildProjections`, readers, failures and crashes | implements `AtomicLog` | all safety and action properties, the refinement |
| 4 | `Portfolio` | programs, admission, advance, issues, with what supervisors read before they call | abstracts runs and the lane | all safety properties |
| 5 | `PlanRevisions` | revisions of policies, targets and graphs, with a coarse lane | abstracts `Portfolio` and `IntegrationLane` | all safety properties |
| 6 | `Attention` | decision packets, their compilation, pages and their delivery | composes kernel, compiler and pager | all safety properties |
| 7 | `Advisor` | subjects, policies, reports, promotions, automatic resolutions | composes kernel and advisor supervisors | all safety and action properties |
| 8 | `OutboundEffects` | outbound authority and GitHub adapter | composes both with GitHub | all safety and action properties |
| 9 | `DriverRuns` | one attempt: supervisor, generic driver, container | composes all three | all safety properties |

All modules are written and checked, and every safety and action property of a
run is proved. Modules with theorems use no `RECURSIVE`
operator, and count and order with cardinalities and `CHOOSE` where a filter of a
sequence (`SelectSeq`) would do in a run: the library has no facts about filters.

Every run is of the least instance in which its hazards occur: two or three
jobs, candidates or programs, two supervisors, one or two losses of each lease.

## 3. The execution core: `JobExecution`

### State

| Variable | Code | Values |
|---|---|---|
| `run[r]` | `state.runs` | `absent`, `created`, `scheduled`, `running`, and the three outcomes |
| `job[j]` | `state.jobs` with its lease | status, `attempts` (attempt number), `active` (ordinal of `activeAttemptId`, 0 for null), owner, `fence`, `lease`, `due` |
| `attempt[<<j, n>>]` | `state.attempts`, `state.verifications`, driver receipts | status, reason, `external` (an external run id is recorded), `overdue`, `cursor`, receipt outcome, verification status |
| `outbox[<<a, e>>]` | `state.outbox` | status, `deliveries`, owner, lease, `due`; e is `start` (agent.start), `verify` (verification.run) or `cancel` (agent.cancel) |

An attempt has at most one effect of each kind (the code derives their ids from
the attempt), so an effect needs no identity of its own. A message's fencing
token and its `deliveryAttempts` are set together by `OutboxLeaseAcquired`, one
more than before: the model keeps one number.

Time. The code compares `leaseExpiresAt`, `availableAt` and `deadlineAt` with
the command's `occurredAt`. The model keeps what the comparison says: a lease is
`none`, `live` or `expired`, something is due or not, an attempt is overdue or
not. `ExpireJobLease`, `ExpireMessageLease`, `JobBecomesDue`,
`MessageBecomesDue` and `DeadlinePasses` are the clock; they come in any order,
so the model allows every ratio of the durations in the code.

### Actions

One action is one accepted command with everything its events do, the loops over
siblings, verifications and outbox included. A rejected command changes nothing
here; that its rejection is *remembered* is the subject of `CommandLog`. A supervisor is its parameters: `o` (ownerId), `f` (fencing token
of the job lease) and `g` (of the message lease) range over all values, so every
stale view is among them.

| Action | Command |
|---|---|
| `CreateRun`, `ScheduleRun`, `StartMilestone`, `CancelRun` | `run.create`, `run.schedule`, `milestone.start`, `run.cancel` |
| `AcquireJob`, `ResumeJob` | `job.lease.acquire` for a waiting and for an active job |
| `RenewJob`, `ReleaseJob` | `job.lease.renew`, `job.lease.release` |
| `ObserveDriverEvents` | `attempt.driver-events.observe` |
| `RecordDriverReceipt`, `RecordTerminalReceipt` | `driver.receipt.record`, `driver.terminal-receipt.record` |
| `ObserveAttempt`, `TimeoutAttempt` | `attempt.observe`, `attempt.timeout` |
| `CompleteVerification`, `FailVerification` | `verification.complete`, `verification.execution.fail` |
| `AcquireMessage` | `outbox.lease.acquire`, also dropping an obsolete effect |
| `DeliverStart`, `DeliverCancel` | `outbox.delivery.succeed` |
| `RetryDelivery`, `DeadLetter` | `outbox.delivery.fail` |

`RenewJob` extends a live lease, which the abstract clock cannot see: it is a
stuttering step, kept so that the command is accounted for.
`FailAttempt`/`FailRun` and `EffectsAfter` are `failureTransitionEvents`,
`nonretryableDriverFailureEvents` and `cancellationEvents`, which the code
shares between commands in the same way.

Two disjuncts of the code cannot be reached and are visible in the model as
such: `DeliverStart` on an ended attempt (every end of an attempt obsoletes its
`agent.start`, so `HoldsMessage` is false by then), and with it the
`agent.cancel` the code would enqueue there. This is why a run that is
cancelled between the driver's start and its recording leaves an external run
that nobody cancels; see hazards.

### Not modelled

Jobs without a verifier (logs older than verification), and the direct success
of `attempt.observe` that goes with them; `verification.run` settled by
`outbox.delivery.succeed`, which no caller sends; the retired
`attempt.allocate`; the approvals and issues that driver events may raise; digests,
artifacts and budgets, whose checks reject commands for reasons the properties
do not tell apart; which command keys are reused.

### Abstract specification: `RunLifecycle`

What a client of the kernel sees: runs and the phase of their jobs (waiting,
working, ended), with no lease, effect, driver or clock. `JobExecution`
implements it under `phase <- Phase(j)`, `tries <- job[j].attempts`
(`ImplementsLifecycle`).

## 4. The integration lane: `IntegrationLane`

A program that ends leaves one final candidate. The supervisor queues it, takes
a lease on its work, makes a revision on the current head of the target,
verifies it, asks the operator, moves the Git ref and reports that. The kernel
checks every report against its own state; the ref is outside the kernel.

### State

| Variable | Code | Values |
|---|---|---|
| `pending` | `program.phase = "integration_pending"` | set of candidates |
| `diff[c]` | `state.candidateDiffs` and the surface issue | `none`, `eligible`, `violating`, `raised` |
| `queue`, `work[c]` | `state.integrationWork` and its order | status, owner, fence, lease, `expected` (`expectedHeadRef`), `verdict`, `preds` (`predecessorCandidateIds`) |
| `packets` | open `integration_decision` packets | set of candidates |
| `head[t]` | `target.currentHeadRef` | revision |
| `ref[t]` | the Git ref `refs/parallelplay/integration/...` | revision |
| `used` | receipts of the kernel, by idempotency key | keys |
| `doing[s]` | the local variables of a tick between its read and its command | step, candidate, fence, head seen, predecessors |

A revision is the sequence of candidates merged on the initial head, which is
`<<>>`: commits are told apart by what they contain. A rebase appends; the
original revision, made on the initial head, is used as it is when the head is
still the initial one, which gives the same sequence.

### Actions

| Action | Code |
|---|---|
| `FinishProgram` | the last `program.advance`; `portfolio.coordinate` has admitted the program only after those it depends on |
| `RecordDiff`, `RaiseViolation` | `candidate-diff.record`, `issue.raise` |
| `ReadQueue`, `Queue` | the tick reads the lane, then `integration-candidate.queue` |
| `AcquireWork` | `integration-work.lease.acquire` |
| `Rebase`, `Prepare`, `RecordConflict` | `prepareIntegrationRevision`, then `integration-work.prepare` or `.conflict` |
| `RunVerifier`, `Verify` | the verifier, then `integration-work.verify` |
| `CompileDecision`, `Integrate` | `integration-decision.compile`, the operator's `decision.integrate` |
| `MoveRef`, `RecordPromotion` | `promoteIntegrationRef`, then `integration.promote.record` |
| `Die`, `TimePasses` | a process ends between the two; the lease reaches and passes its expiry |

The tick looks for work in a fixed order and does the first thing it finds
(`AtClaims` ... `AtPromotion`); a thing it finds and cannot do keeps it from
everything after. Leases have two boundaries because the code has two: the
instant of `leaseExpiresAt` (`due`) is still accepted by `prepare`, and no longer
by `verify` and `conflict`.

Receipts. The keys of the supervisor name the command, the candidate and the
fence or the head. A used key gives no effect: the payload is either the same,
and the stored answer comes back, or it differs (owner, clock) and the kernel
refuses it. `Fresh` is that rule; `AcquireWork` shows its consequence, that a
refused lease is refused for good at that fence.

### Not modelled

Parking of work, the approval and revision of targets (`PlanRevisions`), the
release of a lane by an operator, ties of `availableAt` in the order of the
queue, preparing a second time on a head whose revision was captured already and
whose lease was lost since (the source store throws, which leaves the work to
the next lease), commits made on the ref by other programs, issues and their
effect on the decision.

### Abstract specification: `ManagedRef`

A target whose head grows by one candidate, each at most once; the ref moves
first, only from the recorded head, and the record follows it. `IntegrationLane`
implements it with the same `head` and `ref` (`ImplementsManagedRef`): whatever
supervisors do, no commit of the ref is lost or recorded twice.

## 5. The command log: `CommandLog`

Everything above takes a command as one step. `CommandLog` is why it may:
`SqliteKernel.execute` statement by statement, in several processes on one
database, any of which may throw or die between two statements.

| Variable | Code | Values |
|---|---|---|
| `db` | the database as committed last | `events` (stream, version, request), `receipts` by key, `projection` by stream |
| `lock`, `draft` | the open write transaction | its process, the database as it would be committed |
| `call[c]` | the locals of `execute` | step, request, answer |
| `answers` | - (history) | what clients were answered, with the request |
| `view[v]` | the locals of `readProjectionState` | the tables read so far |

SQLite is modelled from its use: `BEGIN IMMEDIATE` waits for the lock and gives
up (`Busy`), `COMMIT` publishes the draft, `ROLLBACK` and the death of a process
drop it, a statement of a reader sees what was committed last (WAL). Of the
domain the log needs only that a decision depends on the requests accepted
before (`Permits`: some are needed, some are in the way), and the streams a
request writes (`Writes`), which include the outcome events derived from its
events. An input with the same key and another body is another request. One
stream has one table.

Actions: `Call`, `Begin` or `Busy`, then `Replay` (the key has a receipt), or
`Reject` (stored and committed), or `AppendEvents`, `Project`, `StoreReceipt`,
`Commit`; `Answer`. `Refuse` is an input that fails the schema. `BeginRebuild`,
`Rebuild`, `CommitRebuild`. `Fail`, `Die`, `Damage`. `ReadTable`.

`AtomicLog` is what callers rely on: a key is decided once, on the log at that
instant; the log grows by the whole request; what is told of a request is what
became of its key. `CommandLog` implements it with `log` read off the events
(`Order`) and the receipts as outcomes (`ImplementsAtomicLog`).

Not modelled: the number of stale decisions that `decide` is also given, the
digests `verifyProjections` compares, migrations, loss of the disk.

## 6. Programs and the portfolio: `Portfolio`

What happens around the runs of `JobExecution` and before the candidates of
`IntegrationLane`: a program is started, its milestones are admitted to the
shared capacity or (`graph_v1`) started directly, outcomes are validated by
`program.advance`, and the last of them hands the program over. `portfolio.coordinate`
names the log position it was computed at, and operator decisions name the
versions they were made for, so each is one step. `program.advance` and
`integration-candidate.queue` were read earlier and are two.

| Variable | Code | Values |
|---|---|---|
| `program[p]` | `state.programs`, the active graph | phase, `resume` (`resumePhase`), revision of the graph, the promotions that revision needs, `latest` (what the last packet recommends) |
| `milestone[m]` | `state.milestones`, `milestoneGenerations`, `outcomePackets` | status, generation, the outcomes of its runs in order (`open` for the one in progress), `packet` and `validated` (which of them `outcomePacketId` and `latestValidatedOutcomePacketId` name, 0 for null), `pauseReason` |
| `admissions` | active `portfolioAdmissions` with their `concurrencyLeases` | milestone, slots, lease `live`, `due` or `expired` |
| `queue` | `executionRequestedAt` | programs in order |
| `issue` | `routedIssues` | status |
| `candidates`, `promoted` | `integrationCandidates`, `promotionReceipts` | what was handed over |
| `plan[s]`, `handover` | locals of `advanceProgram` and of the integration tick | the call about to be sent |
| `receipts` | receipts of those two | keys |

| Action | Code |
|---|---|
| `RequestExecution`, `StartLegacy` | `program.start` of a graph V2 and of a graph V1 |
| `Coordinate` | `portfolio.coordinate`: the first program of the queue that fits |
| `LeaseRunsOut`, `RenewLease` | the clock, `portfolio-lease.renew` |
| `GiveUpAdmission` | `portfolio-admission.release` and `.fence` |
| `RunEnds` | whatever command ends the run, with the derived outcome events |
| `PrepareAdvance` | the supervisor's tick reads a program (`advanceProgram`) |
| `RecordEvidence`, `StartNext`, `FinishProgram`, `RejectAdvance` | `program.advance`, by what it leads to |
| `PrepareHandover`, `QueueCandidate`, `Promote` | the integration tick, `integration-candidate.queue`, `integration.promote.record` |
| `RaiseIssue`, `ResolveIssue` | `issue.raise`, `issue.resolve` (also as a decision) |
| `ApproveGraph`, `RetryMilestone`, `Park`, `Resume` | `program-graph.approve`, `decision.retry`, `.park`, `.approve` |

Abstractions. An outcome recommends to merge or not. A milestone claims one
capability, resources exclusive to one admission of the whole portfolio, and
files and subtrees of the source. A surface claim carries the target revision of
the graph (`surfaceClaimKey`, here `target` in the admission) and is compared,
as `workSurfacesOverlap` says, with claims on the same revision only
(`Collides`; `MayChange` is what a claim means, and `ClaimsAreExclusive` is about
that). The leases of one admission are taken
and given back together and are one. `RenewLease` renews before the expiry only,
as the code does; `portfolio.coordinate` does not read the expiry. A repeated
call with a receipt that was accepted is a stutter and left out of
`PrepareAdvance`. The revisions of a graph are given by `Nodes`; a new one needs
the programs it depends on at their current revision. One call to queue a
candidate is on the way at a time. What the lane adds (its capacity, order,
verification, operator) is in `IntegrationLane`: here a candidate may be
promoted at any time.

Not modelled: what comes before the first approved graph (`PlanRevisions`),
issues that are only recorded, the test for retries of blockers. A superseded
policy or target and an open SLO incident make `portfolio.coordinate` refuse,
for good (no command resolves an incident): the model admits whatever else fits.
A refusal changes nothing, so each behaviour with refusals is one of the model's.

`RunsOnEvidence`, `QuietPrograms` and `AdmissionsMatchWork` except graph_v2
programs with more than one graph (`OneGraph`): a program that is approved anew
while its candidate is in flight is completed by that promotion, whatever it is
doing. `IssuesHoldMilestones` excepts milestones that another issue named as
well and that was resolved, and `ClaimsAreExclusive` lets a program whose
admission was given up by hand have two, see Findings.

## 7. Revisions of plans: `PlanRevisions`

Policies, targets and graphs are revised by operators while programs run. A
graph pins the portfolio policy and the target revision it was approved for, and
the graph revisions of other programs that it needs; `portfolio.coordinate` and
`integration-candidate.queue` look at pins, `program.advance` does not. All
revisions of a target move one Git ref, while each has a head of its own in the
kernel.

| Variable | Code |
|---|---|
| `sources`, `workflows` | registered source revisions (an import, with the candidates on it), workflow versions |
| `attention`, `policies` | revisions of the attention and portfolio policies |
| `targets[t]`, `ref[t]`, `opening[t]` | the revisions of a target with lane and head; the Git ref; the head with which the CLI's `integration-target approve` has made the ref before it sends its command |
| `interviewed`, `graphs[p]`, `phase[p]`, `done` | the interview, the graph revisions with their pins, the program's phase, its milestone's outcome |
| `work[c]` | the candidate of a graph revision: status and expected head; `refused` is a rejection stored under its key |

| Action | Code |
|---|---|
| `RegisterSource`, `RegisterWorkflow` | `source.register`, `workflow.register` |
| `ApproveAttentionPolicy`, `ApprovePortfolioPolicy` | the two `*-policy.approve` commands |
| `OpenTarget`, `ApproveTarget`, `AbandonTarget` | `initializeIntegrationRef`, then `integration-target.approve`, or no such command |
| `CreateProgram`, `ApproveProgram`, `Kickoff`, `CaptureInterview`, `ApproveGraph` | the way of a program to its first and later graphs |
| `StartProgram`, `Coordinate`, `FinishRun`, `Advance` | execution, coarse |
| `QueueCandidate`, `Prepare`, `Integrate`, `MoveRef`, `RecordPromotion` | integration, coarse |

Abstractions. One portfolio policy with revisions, graphs in version 2 only
(version 1 is in `Portfolio`); a program has one milestone, which its revised
graphs repeat. Capacity, slots, parking and several milestones are in
`Portfolio`, the order among candidates, leases, conflicts and failed
verification in `IntegrationLane`: here any ready candidate may go first, and
verification, packet and authorization are one step, `Integrate`. Resources
other than lanes are left out, and the interview and the kickoff always match.

## 8. What the operator sees: `Attention`

`compileAttention` reads the open issues, denied capabilities, outcomes and
requests, the oldest first, and compiles each into a *packet* with a revision
for each change of what it shows; policy routes a revision to the queue or to a
page, within a budget. Delivery supervisors lease, send and record pages.

| Variable | Code |
|---|---|
| `source[s]`, `order` | issues, denials, outcome packets and requests, and when they occurred |
| `run[s]`, `inScope`, `late` | the version of the run a packet can cancel; whether a request's program still has the version it names; deadlines that have passed |
| `policy` | the active attention policy |
| `packet[<<s, k>>]` | decision packets; k tells whether the options include to cancel, since the option kinds are part of `deduplicationKey` |
| `page[p][n]` | the delivery of revision n: status, attempts (also its fencing token), owner, lease |
| `reading[c]` | the candidates a call of `compileAttention` has read, until any event makes them stale |
| `calling[w]`, `receipts` | the provider call a pager is in; what the provider has accepted, by idempotency key |

Actions: `ReadSources`, `CompileSources` (the snapshot, then `attention.compile`
at that position); `RaiseSource`, `RequestDecision`; `Acknowledge`,
`DecideSource`, `ApproveRecord`, `DecideProgram`, `CancelRun`, `ExpireDecision`
(`decision.*` by the kind of the option taken); `ResolveDirectly`; `RunMoves`,
`ProgramMoves`, `ApprovePolicy`, `DeadlinePasses`; `AcquireDelivery`,
`CallProvider`, `ReportSuccess`, `ReportFailure`, `LeaseExpires`, `Crash`.

Abstractions. The window of a page budget does not end in a run; a delivery
waits for no delay before it is tried again; evidence of a request that goes
stale is the same as a target that has moved (`Versioned`); a settled delivery
forgets its attempts; a pager restarts under its identity. Left out: digests,
attention spans, `deduplicationWindowMs` (which nothing reads).

## 9. The advisor: `Advisor`

A *subject* (a model with its prompt) answers cases whose right option is known;
an evaluation of the answers earns a policy a report; an operator promotes the
policy on the report; from then on the subject's recommendations resolve routine
packets, and a sample of what it resolved is audited.

| Variable | Code |
|---|---|
| `subjects`, `cases`, `corpus`, `contaminated` | approved subjects, recorded cases, the corpus revision in force, the contaminated ones |
| `invocation[i]`, `queue` | advisor invocations: status, attempts, lease, whether the answer is right or wrong or none is recommended; in which order those about cases were queued |
| `approved`, `policy[p]`, `report[p]`, `ballot[b]`, `ended`, `incidents` | policy revisions, their latest report (with what it has seen: cases, invocations asked and answered), promotion packets, passed expiries, incidents |
| `packet[d]`, `audit[d]` | decision packets and audits of automatic resolutions |

Actions: `ApproveSubject`, `RecordCase`, `ApproveCorpus`, `RecordContamination`;
`QueueInvocation`, `AcquireLease`, `Complete`, `Fail`, `Cancel`;
`ApprovePolicy`, `CompileEvaluation`, `CompilePromotion`, `Promote`,
`SuspendPolicy`; `Resolve`, `RecordAudit`; and what happens elsewhere,
`LeaseExpires`, `Settle`, `AuditFallsDue`, `PolicyEnds`, `PromotionEnds`.

A report is eligible (`Earns`) when its corpus has no contaminated case, the
answers that count cover `Coverage` per cent of the held out cases and of the
recent ones the caller names (0.8 in the code), none of them is wrong, and each
recent case has some answer (1464-1480). Of the answers to a case the last one
asked for counts (`Counts`). Calibration cases need no answer, held out ones may
lack one or get an abstention.

Abstractions. All cases and packets match the matcher of every policy. How many
cases a report needs, and of which categories, is left out; so is the Wilson
bound, which adds nothing: with no wrong answer it is n / (n + 2.71) for n
answers, at least 0.95 from 52 on, and 80 of 100 are asked for. A packet stands for one
revision of it, and a right answer about it for a recommendation that the policy
allows. Left out: policy proposals (`advisor.ts` 1227-1333), delays
before a failed invocation is due, invocations about cases in purpose
`promoted`, the packets that incidents open.

## 10. Effects on GitHub: `OutboundEffects`

`GitHubAdapter.deliver` looks for the effect of its key, asks the
`OutboundAuthority`, writes, looks again and records a receipt. Each method of
the authority replays its log, then appends, without a transaction around both:
a worker's `prior` and `active` are what it replayed, and the step between is
`Alone` only within one process.

| Variable | Code |
|---|---|
| `promotion[p]`, `expired`, `effect[e]` | the replayed log: the promotion of each policy and its end, and of each effect its status, whether it has a receipt, its failures |
| `live[e]`, `writes[e]`, `removals[e]`, `shown` | GitHub: what is found under the marker of the effect or by its name, how often it was written and was gone again, and which effects have been there exactly as asked for (the last three are history: no step reads them but `Edit`) |
| `worker[w]` | the locals of one `deliver` |
| `known[p]` | `#effects`, the receipts a process remembers |

Actions: `Observe`, `Perform`, `Confirm` (the calls of GitHub, each of which may
fail, retryable or not, before or after it took effect), `Replay`, `Authorize`,
`Record`, `Fail` (the authority), `PromotePolicy`, `SuspendPolicy`,
`PolicyExpires`, `Create`, `Edit`, `Remove` (others on GitHub), `ProcessDies`. The specification is `EffectSpec`; no name of
the module is one of `Attention`, so that `DeliveryProofs` can extend both.

External: GitHub itself, modelled by what the adapter relies on. A branch or a
pull request (`Exclusive`) is refused the second time, a comment is not; a write
reaches GitHub during the call or never. Branches and labels (`Unmarked`) are
found by their name, so one that was there before is taken for the effect and
gets a receipt without a write; everything else is found by a marker that only a
write puts there. Whatever is there may be made by others (`MayBe`), edited, or
gone: deleted, or its marker replaced by that of a later update. `There` and
`removals` are what `PostedOnce` allows for: one write for each time that nothing
was there. The only caller of the adapter in the
repository is a pilot script, which promises nothing about repeating deliveries;
so the module states no fairness. Left out: the credentials an authority names,
digests of payloads, pagination.

## 11. Supervisors and the driver: `DriverRuns`

`JobExecution` takes what a supervisor reports as given. `DriverRuns` has the
supervisors themselves, for one attempt of a generic job: `Supervisor.tick` in
its order of priorities, and `GenericCommandDriver` call by call, with its
store, container and log. Between any two steps the agent writes or exits, the
operator cancels, the deadline passes, another supervisor acts or a crash comes.

| Variable | Code |
|---|---|
| `attempt`, `lease`, `message` | the kernel's attempt, job lease, `agent.start` and `agent.cancel` |
| `intent`, `workspace`, `bundle` | files of the driver: launch intent with `cancellationReason`, mounted directory, receipt bundle |
| `container`, `log` | docker: status, exit code, how often the agent was started in it, whether a command on it was refused; what the agent wrote |
| `sup[s]` | the locals of a tick and of the driver call in it |

| Action | Code |
|---|---|
| `JobLost`, `Urgent`, `Quiet` (guards), `Timeout`, `AcquireMessage`, `DeliverMessage`, `AcquireJob`, `ReconcileJob` | the order of `tick` |
| `Launch`, `Intend`, `LookForContainer`, `Create`, `Run` | `start`, `#ensureStarted` |
| `MarkCancelled`, `StopContainer` | `cancel` |
| `Inspect`, `Examine`, `Observe` | `inspect`, `#inspectDetailed`, `attempt.driver-events.observe` |
| `Collect`, `Judge`, `Vanished`, `Keep`, `Sweep` | `collectReceipt`, `#collect` |
| `RecordReceipt`, `RecordTerminalReceipt`, `Tell`, `Fail` | the commands that end a delivery or an attempt |
| `AgentWrites`, `AgentExits`, `CancelRun`, `VerificationEnds`, `DeadlinePasses`, `MessageBecomesDue`, `JobLeaseExpires`, `MessageLeaseExpires`, `Crash` | everyone else |
| `Stopped`, `Sweep` (`Refused`), `DockerFails` | docker commands that fail: `stop` and `rm` unseen, the others end the call |

Abstractions. Fencing tokens are left out: a supervisor does one thing at a
time, so whose lease it is says as much. The job has no retry. Artifacts and the
capture of the workspace are a choice of `Judge`: where they are not as declared,
the outcome is `protocol_invalid`, also that of a cancelled run. Left
out: renewal of the job lease, the driver's integrity check (it never fails),
protocol versions, a docker command that does its work and fails. One step each: `docker rm` with the removal of the
directories, and reading intent and log. A throw of `inspect` or
`collectReceipt` in `#reconcileJob` ends `Supervisor.run`; the model lets the
supervisor tick again, as after its restart.

## 12. Runs

Named properties that a run checks as one (`LaneInv` and the like) are
conjunctions, taken apart in the module's comments.

| Run | Instance | Shows |
|---|---|---|
| `join` | jobs a (two attempts), b, and c that needs both; a generic and legacy drivers; no lost leases | `OneLiveAttempt`, `QuiescentRun`, `OutcomesAreEarned` (verified success, dependency order, failure only when the policy is used up), `KnownRunsAreCancelled`, and the implementation of `RunLifecycle` |
| `jobs` | one job, two supervisors that lose its lease and its effects twice, an event, two deliveries of each effect; deadlines are kept | `TypeOK`, `NothingOutlivesItsAttempt`, `NoStrandedAttempt`, `OutcomesAreFinal`, `AttemptsEnd` |
| `targets` | two candidates of one target that overlap and may conflict, a third on another target that needs the first and may leave its surfaces; two mortal supervisors, lost leases, verifications that may fail, a limit of two ready candidates | `LaneInv` (typing, one rebase at a time, verified lineage), `RefIsRecordable`, `PredecessorsPrecede`, and the implementation of `ManagedRef` |
| `processes` | two processes that fail and die, four commands: two under one key, two that exclude each other, one that needs another, one invalid; a rebuild, a reader, a table damaged from outside | `TypeOK`, `LogInv` (whole commands, decided on the log, readers go forward), `AnswersAreKept`, `CommitsRepair`, `LockIsFreed`, and the implementation of `AtomicLog` |
| `competing` | two graph_v2 programs, one of two milestones, the other with a second graph on the next revision of the target, whose claims on the source lie below one another; two slots; an admission given up by hand, an issue (a contradiction) | `PortfolioInv` (typing, exact capacity, issues hold milestones), `ClaimsAreExclusive` |
| `mixed` | a graph_v1 program that is retried and gets a second milestone with its second graph, two graph_v2 programs of which one needs the other and both need one resource, one of them in the pipeline at a time | `QuietPrograms`, `RunsOnEvidence` |
| `plans` | two programs, the first revised once, two policies, two revisions of one target | `PlanInv` (what is cited exists, no program needs itself), `HeadsAreHistory`, `DependentsFollow` |
| `attention` | a reserved issue with a run to cancel, and a versioned request with a deadline; a compiler and a pager | `AttentionInv` (typing, live deliveries are current, reserved is paged), `QuestionsAreShownUnlessJammed`, `PagesSettle` |
| `effects` | a comment and a branch, two deliveries in one process that both want the branch, a policy of two failures | `EffectInv` (typing, written again only when gone, receipts are evidence), `FailuresSuspend`, `ReceiptsAreKept` |
| `driver` | two supervisors, two deliveries, two events, one fault | `DriverInv` (typing, success is earned), `EvidenceIsDurable`, `KnownRunsStop`, `CancellationsSettleUnlessMismatched` |
| `advisor` | a subject and its revision, a policy and its revision, two held out cases of which one must be covered, an invocation about each and one about a packet, three attempts | `AdvisorInv` (typing, authority is backed), `SuspendedForGood`, `FailuresEnd` |
| `disagreement` | one case asked about twice, one packet | expected violation of `SeriousDisagreementSuspends`, see Findings |

Deadlock is not checked: each of these systems may come to rest, when its runs,
candidates, commands or effects are done.

### Bounds

All are in guards. Of the execution core: `AttemptLimit` (largest
`policy.maxAttempts`), `EventLimit` (driver events of one attempt), `LeaseLosses`
and `DeliveryLosses` (a lease is lost only at fences or deliveries up to the
bound). `MaxDeliveries` is the code's eight (`OUTBOX_RETRY_DELAYS` and one) and
is one or two in the runs: its only use is the comparison at the last delivery.
Two attempts show a retry and the last attempt; one lost lease shows a stale
holder, two a stale holder after a handover back. Three jobs are the least with
a join. Retries under lost leases are not in one run: the invariants about them
are proved for all values.

The lane: a lease is lost at the first fence only (`LeaseLosses`), which
gives two holders of one work; `MaxReady` is the code's largest limit, two, so
that with three candidates one is refused. A target with two candidates is the
least on which a head moves under a prepared revision; the third candidate and
the second target are there for dependencies across targets. Whether a merge
conflicts is chosen at each rebase.

The log's instance has the commands that matter to each other and two
processes: SQLite admits one writer, so a third only waits as the second does.
Keys are used up, which bounds the log without a counter.

The portfolio's only bound is `MaxOutcomes` (generations of each milestone). Two
programs are the least that compete; in `competing` the claims of the first
milestone overlap with those of the other program until that is given its second
graph, on the next revision of the target: from then on the pair is admitted
together. Two generations of that milestone let a call prepared for the first
arrive in the second. There is one issue, so what `IssuesHoldMilestones` excepts
(another issue on the same milestone) is left to its proof.

Of plans: one workflow, two revisions of each policy and of the target, two and
one of the graphs (`Max...`). That is the least in which a candidate of a
superseded target revision, of a superseded graph and of a superseded pin exist.

Of attention: `MaxRevision` three for each packet, `MaxPolicy` and `MaxRun` one,
`MaxChanges` one of what moves from outside (a run, a program, a policy, a
deadline, a lease, a crash) at any point of the behaviour.

Of effects: `MaxFailures` two, the threshold, and `MaxEvents` two crashes or acts
of others, which is what it takes to remove what was written and to lose the
process that wrote it; further faults come from every call of GitHub. The branch
is what is refused a second time and found by its name, the comment neither; pull
requests (refused, but found by a marker) and labels (found by their name, but made
again) are left to the proof. Of the advisor: `MaxAsked` is the number of
invocations, and `MaxEvents` one contamination, revision, expiry, suspension, lost
lease or cancellation at any point of the behaviour. Failures of calls are not among
these: an invocation may fail as often as `Tries` allows, which is the code's three
(`ADVISOR_RETRY_DELAYS_MS` and one). With one lost lease a failure may come from
the holder of an expired one. Of the driver: `MaxFaults` one crash, lost lease or
docker command that fails, each at any step, and no broken capability
(`Breaches`); what more of them do to the evidence is left to the proof. One
refused command does not yet leave a container running, since it takes three
(Findings, driver) for what `KnownRunsStop` excepts.

### Fairness

`FairSpec` of `JobExecution` asks for the deadlines only: time passes, a job whose
lease was lost is taken over, and an overdue attempt is timed out by the holder
of its job. A tick does these two before it delivers any effect
(`supervisor.ts:231-251`), and the kernel refuses neither. Nothing is asked of
deliveries, drivers, verifiers or waiting jobs, since a cancellation whose
evidence is refused heads every tick once it is leased (Findings, driver), and
nothing of operators. `AttemptsEnd` then says that every attempt ends. Two things
are supposed: the parts of the tick before the jobs come to rest (where attention
does not, no job is served either, see Findings), and leases are not lost for
ever (`LeaseLosses`). That a run ends, or a cancellation is settled, is not
promised by the code.

`FairSpec` of `CommandLog` asks that a process goes on with the call it is in.

`FairSpec` of `Attention` asks that the compiler, which each tick of the
supervisor calls, and the pagers go on; of `Advisor`, that an invocation is leased
when it can be, and that a call of the adapter returns, with an answer or a
failure, while its lease lasts. Leases are lost only `MaxEvents` times: taking over
an invocation has no limit of attempts (`advisor.ts:1055-1095`), so that an adapter
that is always slower than its lease, or a supervisor that dies in each call, is
asked for ever; `FailuresEnd` is about calls that fail. `Spec` of
`DriverRuns`, that each supervisor goes on and time passes. Operators and agents
are never asked to do anything. `IntegrationLane`, `PlanRevisions`,
`Portfolio` and `OutboundEffects` state none.

Each property also fails under a plausible fault of the code (`mutants` in
`PROJECT.json`); the faulty operators stand before the ones they replace and are
marked `Fault`.

## 13. Findings

### Shown by a run

`SeriousDisagreementSuspends`: the option by which an operator promotes a policy
says (`advisor.ts:1657`) "Serious disagreement, drift, contamination, or overdue
audit suspends authority". `evaluationEvidenceChanged` (`advisor.ts:463`) asks only
for what was queued after the report. The run `disagreement` has a case asked
about again before the report and answered wrongly after it: the report stays
good, the policy is promoted on it and resolves a packet.

### Seen while modelling

Each of the following is what the modules do because the code does it; none is a
property of a run.

Execution core and log:

* `outbox.lease.acquire` (`domain.ts:7002`) takes over a message whose lease
  expired without a look at the delivery budget, which only
  `outbox.delivery.fail` (7122) compares: a supervisor that keeps crashing in a
  delivery is never dead-lettered. The test at
  `runtime.integration.test.ts:1206` "dead-letters an effect after eight
  deliveries and fails the run once" fails each of them;
* a rejected command is stored under its key and replayed for ever, also when
  what made it wrong has passed (`sqlite-kernel.ts:393`);
* `readProjectionState` (`projections.ts:242`) reads some seventy tables with one
  statement each and no transaction, so that a query of another process (the
  Explorer has its own read-only kernel) mixes two commits, though
  `docs/ARCHITECTURE.md:8` says that a command "appends authorized events, and
  writes a disposable projection in one transaction". Decisions are not touched:
  `execute` replays the events.

Integration lane:

* while the first candidate of a target waits for verification, a decision or
  its promotion, the second is pending; the tick requests its lease first
  (`integration-supervisor.ts:347`), and the kernel refuses since it is not its
  turn ("An earlier integration candidate owns ordering"). The refusal is stored
  under the key of that candidate and fence. Every later tick makes the same
  request before anything else, is given the stored refusal and goes no further:
  the first candidate is never promoted, without a crash or a failure, and the
  second would be refused even if it were. Nothing in the repository promises
  that candidates are integrated, so no run is about it;
* work prepared on a head that then moves, or whose holder died after preparing,
  is never leased again (`domain.ts:3339`): its program waits for ever;
* while the packet of one candidate is open, no authorized candidate of any
  target is promoted (`integration-supervisor.ts:534`);
* a second preparation of one revision with another timestamp throws
  (`source-store.ts:735`), and only the first program that waits for integration
  is looked at (`integration-supervisor.ts:126`).

Programs and portfolio:

* the test at `attention-actions.integration.test.ts:395` "parks one program, blocks
  advance, then resumes only through a separate approve packet". A program may go on
  without one: the integration supervisor reads it as `integration_pending`, an
  operator parks it, and `integration-candidate.queue` (`domain.ts:3310`), which looks
  at no phase, makes it `integration_pending` again (`QueueCandidate`). A promotion of
  a candidate that was queued before the parking completes it in the same way;
* a graph_v2 program whose admission was released or fenced by hand while its
  run goes on may be admitted again, for a milestone that is ready beside it.
  `decision.park` then cancels the run that `activeGenerationForProgram`
  (`domain.ts:421`) finds first, which is the older one; the newer run and its
  admission stay, and after `decision.approve` the program is admitted once more
  and holds two admissions at a time;
* two issues that pause one milestone: `pauseReason` keeps the last, resolving
  it resumes the milestone, and `portfolio.coordinate` starts it beside the
  first (`program.advance` would refuse);
* surface claims are compared within one target revision (`surfaceClaimKey`,
  `domain.ts:453`): while a milestone admitted under one revision of a target
  still runs, one under the next revision, which moves the same ref, is admitted
  with the same paths;
* `issue.resolve` resumes the milestones the issue names, so what a
  contradiction paused beyond those stays paused; after `record_only` all of it does;
* `latestValidatedOutcomePacketId` is never cleared: when a milestone runs again
  and fails, milestones that depend on it go on with the earlier outcome;
* the first program that `advanceProgram` can prepare ends each tick, also when
  its answer is a stored one, so later programs of the list wait;
* a rejection of `program.advance` is stored under a key that names neither
  phase nor issue: a program parked in between and resumed with the same
  packets is refused until one of these changes;
* a graph_v1 program whose run is over and a graph_v2 program may run at once:
  `portfolio.coordinate` refuses only while the former is `running`, and a
  parked one is resumed and retried without a look at the admissions.

Revisions:

* revision n+1 of a target may be approved while a candidate of revision n is on
  its way. Its promotion moves the head of revision n and the common ref; the
  head of revision n+1 stays where it was, `prepareIntegrationRevision` throws
  for each candidate of it ("Managed integration ref already has another head"),
  `IntegrationSupervisor.run` ends, and after a restart the lapsed work comes
  first: the lane stands still for all targets. No further revision helps, since
  it has to continue the stale head. What holds is `HeadsAreHistory`: nothing is
  overwritten;
* a graph that is revised when its milestones are done goes past
  `portfolio.coordinate`, and `program.advance` looks at no pins. Queueing it
  before its dependencies have candidates is rejected under its key for ever;
* a graph may pin a superseded graph revision of another program (the message
  says "stale or incompatible"); programs with superseded pins are passed over
  by `portfolio.coordinate` without a word;
* the attention policy that a portfolio policy pins is not looked at again when
  it is replaced;
* a crash between the CLI's `initializeIntegrationRef` and its command leaves a
  ref without a target; repeating the command is safe.

Attention:

* a request whose target has moved is refused by every compilation;
  `compileAttention` (`sqlite-kernel.ts:1646`) returns that refusal,
  `Supervisor.tick` (`supervisor.ts:154`) stops there, before SLOs, leases, jobs
  and effects, and later sources are not compiled, though the test at
  `attention-actions.integration.test.ts:577` "compiles eligible authoritative
  sources after restart and skips record-only issues". After its deadline the
  request can be neither decided nor compiled, and `decision.expire` has no
  caller. `QuestionsAreShownUnlessJammed` excepts this case (`Jammed`);
* the kinds of options are in the deduplication key (`domain.ts:1346`), so an
  issue whose run ends gets a second packet, and resolving one leaves the other;
* pages of resolved packets are still delivered; pages that were sent and then
  made obsolete count in no budget; a routine page revised on a used-up budget
  makes its own page obsolete and is only queued;
* after `cancel` of a run the packet is closed and the issue open, and it is
  never compiled again;
* taking over an expired delivery has no limit of attempts, and the passing of a
  rule's `deadlineWithinMs` does not route a packet anew.

Advisor:

* `advisor-audit.record` (2297) suspends a revision that is superseded already;
  the next revision then continues that one, and two revisions are active;
* a policy about a subject that was revised can still be approved and promoted,
  on a report that need not be the latest; a suspension by hand records no
  incident, and incidents are never closed; a new corpus suspends policies only
  at their next resolution; reclaiming an invocation has no limit of attempts,
  and the holder of an expired lease may still fail it (1173).

Outbound effects:

* `recordFailure` (436-489) looks at no status: a retryable failure after a
  terminal one makes the effect authorized again, though
  `docs/FAILURE_SEMANTICS.md:6` has "Record the terminal reason and stop the
  attempt" and "None unless an exact prior receipt is observed";
* two processes on one key: a second `effect.authorized` erases the receipt, and
  a failure computed from a stale replay misses the suspension (4.0 million
  states were searched with two processes; the run keeps to one);
* two deliveries of a comment at once write it twice, which is why the run lets
  only one worker have the comment;
* an update of a pull request whose answer was lost and whose body a later update
  has replaced is not found (`index.ts:577`): delivered again, it overwrites the
  later one. `PostedOnce` counts the replacement as a removal;
* a branch that already names the commit (504) and a label that is already on the
  issue (467) are observed exactly, and get a receipt without a write;
* failures before the authorization throw "was not authorized" and never count;
  effects authorized before a suspension go on; a 422 for a branch that is there
  already is terminal and suspends the policy.

Driver:

* a bundle kept before an operator cancels or a deadline passes has another
  outcome than the cancel reason. `driver.terminal-receipt.record` refuses it on
  each delivery, and `#deliverOutbox` (`supervisor.ts:531`) returns the refused
  tick without `outbox.delivery.fail`: the message stays leased, heads every
  tick, and the supervisor does nothing else, though `docs/FAILURE_SEMANTICS.md:5`
  has "Preserve effect identity, reacquire a fenced lease, retry within policy".
  `CancellationsSettleUnlessMismatched` excepts just this case;
* the log is read before `docker inspect`: a verdict and an exit between the two
  give `protocol_invalid`, and the receipt that accounts for one more event is
  refused until the deadline; a parse error after observed events gives a count
  of 0, below the cursor, with the same end;
* a run that is cancelled after `start` and before `outbox.delivery.succeed`
  (`supervisor.ts:425`) has an obsolete `agent.start` and no `agent.cancel`: its
  container runs on. `KnownRunsStop` is about runs the kernel knows;
* failures of `docker stop` (488, 820) and `docker rm` (499, 692) are swallowed:
  the bundle of a cancelled run is kept, its workspace is removed and its
  cancellation settled while its container may run on, and nothing looks at it
  again. When `docker logs` or `docker inspect` fail in each delivery, the
  cancellation is given up, with the same end. `KnownRunsStop` excepts containers
  on which a command was refused: with `MaxFaults` three (`docker stop` in `cancel`
  and in `#inspectDetailed`, and `docker rm`) and a silent agent (`EventLimit` zero)
  it fails without that exception, and holds with it;
* an agent that declares an artifact it does not write turns the outcome of its
  cancelled run into `protocol_invalid` (`evidenceError`, 555-627), which
  `driver.terminal-receipt.record` refuses, with the end described first;
* after a crash between the workspace and the intent, retries throw until the
  dead letter; a crash in `captureCandidate` between its intent and `update-ref`
  is similar;
* an overlapping supervisor may start an exited container again; that is never a
  success (`SuccessIsEarned`, `launches`).

## 14. Proofs

Each `...Proofs` module proves its component's properties (`DeliveryProofs` those of
`OutboundEffects` and `Attention`) for every value of the constants that the
component's assumption admits: any number of jobs, programs,
supervisors, retries, lost leases and crashes. The bounds of a module are
constants as well, so a theorem covers every bound. The argument is the same
each time: an inductive invariant `Inv`, one lemma per helper that rebuilds a
record, one per command or step, and a last step in temporal logic.

### `JobExecutionProofs`

*Types.* `TypeCorrect`. Each helper that rebuilds a record (`Closed`, `Ended`,
`Finished`, `Leased`, `Taken`, `EffectsAfter`) has a lemma with its type, and
each action cites those.

*What commands leave behind.* `OneLiveAttempt`, `QuiescentRun`,
`NothingOutlivesItsAttempt` and `NoStrandedAttempt`. None is inductive alone,
and the four are one argument:

* `job.lease.acquire` on a waiting job starts an attempt from the job's record
  alone: that no earlier attempt is still in flight is `OneLiveAttempt` itself;
* `outbox.delivery.succeed` sets an attempt running, and `.fail` gives it up,
  because its effect is open: that the attempt is then in flight is
  `NothingOutlivesItsAttempt`;
* `run.schedule` makes every job of a run; that none was there is
  `UnscheduledRunsAreEmpty`;
* `verification.complete` ends an attempt and settles only its verification
  effect; that no start is left open is `StartedAttemptsHaveNoStart`;
* every lease that is cleared with its record is `LeasedJobsAreActive` and
  `LeasedEffectsAreTaken`.

`Inv` is the conjunction, with `TypeOK`. Six commands end attempts (three
failures, a verdict, two cancellations), and all of them rebuild jobs, attempts
and effects together. The lemmas `EndingKeepsJobs` and `EndingKeepsEffects`
state that shape once, for the set of attempts that end; the helpers of the
commands are then shown to have it, and one lemma per command applies it. A
failure on the last attempt ends its run and so the attempts of every job of the
run: the set is then all of them.

*What becomes of runs and jobs.* `OutcomesAreEarned`, `KnownRunsAreCancelled`,
`OutcomesAreFinal`, and `LifecycleIsImplemented`, that every step is one of
`RunLifecycle` or a stutter. A command does one of eight things to runs, jobs and
the outcomes of attempts (`Creates`, `Schedules`, `Begins`, `Retries`,
`Succeeds`, `Fails`, `Cancels`, `Details`): each command is shown to do one of
them, and the rest is shown of the eight. The invariant adds that a job that
waits has a try left, that a ready job waits for no other, that the run of an
active job runs (`TriesOK`, `ReadyOK`, `RunningOK`), and the outcomes one job or
one run at a time (`VerifiedOK`, `SucceededOK`, `FailedOK`, `FailedRunsOK`).
Success and failure need these two ways: that the last job succeeds is seen from
the others, that one fails closes the others. `KnownRunsAreCancelled` needs that
no effect is there before its command (`FreshEffects`).

### `CommandLogProofs`

Whichever processes fail or die and whichever tables are damaged:

* `TypeCorrect`: `Spec => []TypeOK`. It needs that a call past its start holds a
  request the schema accepted (`RequestsOK`): `Nobody` is never appended;
* `AnswersKept`: `Spec => []AnswersAreKept`. An answer is about the committed
  database, and was settled in a transaction. `AnswerInv` therefore relates the
  three: receipts and log of what is committed agree (`Consistent`); so do those
  of the open transaction, except between append and receipt (`Pending`); the
  transaction loses no receipt (`Continues`) and belongs to the holder of the
  lock (`DraftOK`); a decided call, like a given answer, is `Kept`. Since a
  commit can only add receipts (`Grows`), what is kept stays so (`KeptStays`);
* `ReceiptsMatchLog`: the committed half of `AnswerInv`. With it, a repeated
  request never appends its events a second time;
* `CommitsAlwaysRepair`: `Spec => CommitsRepair`. `RepairInv` adds that the
  tables of the open transaction, once written, are what its log replays to;
* `LogInvHolds`: `Spec => []LogInv`. `TransactionInv` adds what the open
  transaction is: the committed database and the part of the command done so
  far, decided on that very database (`TransactionOK`), which nobody else can
  touch meanwhile (`OthersWait`). So every step has one of seven effects on what
  is committed, told and read (`Effects`), and a command is added whole or not
  at all. That the log stays `WholeLog` is then about sequences: the new events
  follow the old ones (`TogetherAfter`), their versions continue those of their
  streams (`VersionsAfter`), and the new request is the last of the order
  (`PlacesAfter`, `OrderAfter`). For the readers, the lengths the log had at
  commits stay such lengths, with the same prefix before them (`ReadersStay`),
  and the table read next is one of the newest (`ReadersAdvance`, `TablesOK`);
* `ExecuteIsAtomic`: `Spec => ImplementsAtomicLog`. A commit or a stored
  rejection is `Execute`, an answer is `Tell`, by `AnswerInv` the answer the
  receipts give, and every other step is a stutter.

### `IntegrationLaneProofs`

`LaneInvHolds`, `RefIsRecordableHolds`, `PredecessorsPrecedeHolds`, and
`ManagedRefIsImplemented`: every step is one of `ManagedRef` or a stutter,
whatever dies or loses its lease. `WorkInv` is about the kernel's records: the
predecessors of a candidate are those its place in the queue calls for
(`PredsOK`), one rebase goes on at a time, a verified revision was built on a
head the target has or had (`LineageIsVerified`), and nobody works on a candidate
before what it waits for is promoted, so that the head it is rebased on contains
its predecessors (`CandidatesOK`). `RefInv` is about what is held outside: what
a supervisor has between its read and its command (`Holding`), that a promotion
which was refused is refused for ever, since its head has gone (`PromoteKeysOK`),
and that a ref which is ahead of the head is ahead by one authorized candidate. That
last one is what makes a death between the compare-and-set and
`integration.promote.record` harmless: no other candidate of the target can be
authorized, and the record can still be made.

### `PlanRevisionsProofs`

`PlanInvHolds`, `HeadsAreHistoryHolds`, `DependentsFollowHolds`. `Inv` has the
types, that a program on its way has a graph (`PhasesOK`), that a graph and what
it needs go to one revision of one target (`PinsOK`), that an opening head stays
in the history of its ref (`RefsOK`), and that a candidate placed on a head finds
there all it needs (`WorkOK`). `NoProgramNeedsItself` is
about `Reached`, a function of layers: the proof shows that the layers exist,
and by a least counterexample that they depend only on the needs of what is
reached, so that a new graph of one program leaves what others reach as it was.
The assumption names what the constants are anyway: finitely many candidates, and
an absent ref that is no revision.

### `PortfolioProofs`

`PortfolioInvHolds`, `ClaimsAreExclusiveHolds`, `QuietProgramsHolds` and
`RunsOnEvidenceHolds`, one argument again:

* an admission is for one open run of its own program (`AdmissionsOK`), so giving
  it back with the run loses nothing; for programs whose admission is never given
  up by hand the converse holds too, and what waits, is parked or has handed over
  has no run (`WorkIsAdmitted`). `portfolio.coordinate` looks at the phase
  `eligible` only, and that is why it admits no program twice;
* `program.advance` and `decision.retry` refuse a program with an open run. With
  `PhasesOK` (a graph_v2 program that is running has an admission, so a run) they
  can start only graph_v1 programs, which have one run at a time while they are
  running (`LegacyIsSerial`);
* `integration-candidate.queue` and promotions set a phase without a look at the
  one before. Without a new graph that does no harm, since a program whose
  candidate is on its way is past all work, for good (`HandedOver`, `Past`);
* what a call carries is about outcomes there are (`SendingOK`), outcomes are
  only added and validation is never taken back (`Grows`), so the evidence that
  was checked when a call was prepared is still there when it is decided
  (`EvidenceKept`);
* `ApartShown` says that what `workSurfacesOverlap` compares pairwise keeps apart
  every path that two claims cover: of two subtrees with a path in common one
  contains the other.

A milestone by itself is `Sound`: only its last run may be open, it is paused for
a reason, what was validated was to be merged. Each operator that rebuilds one
(`Started`, `Finished`, what pauses, resumes or validates) has a lemma, and each
part of `Inv` a lemma that says what it asks of a step.

### `DeliveryProofs`

*Effects on GitHub.* `EffectsAreCarriedOutOnce`, `FailedPoliciesAreSuspended`,
`ReceiptsStay`. All three are about deployments in which an effect is handled by one process
(`EffectsAreLocal`), and by one worker unless its second creation is refused or
changes nothing (`SharedAreMadeOnce`); without them the code does write twice (see Findings).
`MCOutboundEffects` states both of its instance, where TLC evaluates them. The
only caller in the repository is one process that delivers one effect after the
other. A worker acts on what it has seen (`SeenOK`), which others can change
only where nothing is made twice (`OthersStep`), and on what it replayed
(`PriorOK`), and the latter is still what the log says because a method of the
authority is not interrupted within its process. `CountOK` says that the bound
on failures is never what stops a worker.

*Pages to the operator.* `AttentionInvHolds` (types, live deliveries are current,
reserved is paged). Each packet and its deliveries are `Sound`, and each step
rebuilds at most one packet, in one of four ways with a lemma each: it is revised,
acknowledged, ended, or a delivery under way is leased or recorded. Revising
and acknowledging take back the delivery of the revision there was; a record is
written only under the lease of what is still leased, so it is about the current
revision and never makes a page obsolete. A packet is revised only when it is
open or new, for which the invariant keeps that what was read to be compiled is
still undecided (`ReadingOK`: any event empties the reading), that the order
names every source there is, and that a source that has not occurred has no
packet; and a page is recorded as delivered only if the provider accepted it
(`CallingOK`).

### `DriverRunsProofs`

`DriverInvHolds` (types, success is earned) and `EvidenceIsDurableHolds`, whatever
docker commands fail (`Looked`: the container is as it was, or has exited). A
success counts only if the inspection it rests on saw the end: the run is not
started again once it is inspected. That is the argument. An attempt in time has
one supervisor that starts it, which holds the lease of `agent.start`
(`StartsOK`); it is inspected only when that effect is delivered and the attempt
is still in time, so by then nothing is started any more (`NoStarts`), and a
container that has exited, with its log, stays as it is (`JobSeen`, `Earned`).
`Forward` states what no step takes back (the reason of a cancellation, a flaw of
the log, a bundle, a launch), which keeps what a supervisor has seen true.

### `AdvisorProofs`

`AdvisorInvHolds` (types, authority is backed) and `SuspendedForGoodHolds`.
A promotion is decided on the report in its packet, which need not be the latest. What keeps the authority backed nevertheless:

* a report, and the one a packet shows, rests on answers it has seen, which pass for
  the held out cases of the policy's corpus (`EarnedOK`). These answers stay what
  they are, since an invocation that ended is not asked again, and of them the same
  ones count, whatever is asked or answered later (`CountsStays`, `PassesStays`);
* only a promotion gives a policy its packet, and that was the open one about it
  (`UnpromotedOK`), so what is active was promoted by a packet that is resolved;
* whatever is known against a policy suspends it in the same command
  (`ActiveOK`): contamination of its corpus, a serious audit of what it resolved,
  an incident. A command that finds something takes authority away and gives
  none (`Retires`), and is shown to keep the rest by one lemma;
* a serious finding is an incident for good, a promotion is refused where there is
  one, and only approved policies resolve (`FindingsOK`).

### What is only model-checked

Liveness (`AttemptsEnd`, `LockIsFreed`, `PagesSettle`, `QuestionsAreShownUnlessJammed`,
`FailuresEnd`, `KnownRunsStop`, `CancellationsSettleUnlessMismatched`), which is
out of the prover's reach.

## 15. Not modelled

* Provider broker: grants and request budgets in memory, with sockets; nothing
  of it reaches the kernel. Its hazard (the budget is checked before an await
  and charged after it) is in `PROJECT.json` without a property.
* Migrations: run once under their own checks when a database is opened;
  `CommandLog` starts on an opened database. The list of applied migrations is
  read before the write transaction (`database.ts:180`).
* Outcome packets, evidence and read models: pure functions of the log.
* Measurement reports, SLO incidents, dispositions of outcomes, attention spans.
* The verifier, the artifact store, the drivers other than the generic one, and
  capture and checkout of sources: file system and git around one call each;
  what they return is a choice in the models.
* Applications, contracts, profiles, evaluators, telemetry, conformance:
  parsing, rendering and stateless checks.
