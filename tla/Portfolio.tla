----------------------------- MODULE Portfolio -----------------------------
(***************************************************************************)
(* Programs and their milestones in packages/kernel/src/domain.ts and      *)
(* model.ts: start, admission to the shared capacity, advance, issues,     *)
(* parking, new revisions of a graph, and what a finished run leads to,    *)
(* with the calls by which supervisors move programs on.                   *)
(*                                                                         *)
(* A milestone is executed by one-job runs, one for each generation        *)
(* (JobExecution); here a run is open until it ends with an outcome that   *)
(* recommends to merge or does not.  What a program hands over in the end  *)
(* is integrated and promoted (IntegrationLane); here it is a candidate    *)
(* that may be promoted.                                                   *)
(*                                                                         *)
(* portfolio.coordinate and the decisions of an operator are refused when  *)
(* the state they were made for has changed: each is one step.  What the   *)
(* supervisors send as program.advance and integration-candidate.queue was *)
(* read earlier, and the state may have changed.                           *)
(***************************************************************************)
EXTENDS Integers, Sequences, FiniteSets

CONSTANTS
  Programs,
  Legacy,        \* programs in mode graph_v1; the others are graph_v2
  Created,       \* the programs in the order of their creation
  Milestones,
  Nodes,         \* program -> revision of its graph -> milestones in order
  TargetOf,      \* program -> revision of its graph -> revision of the target
  Deps,          \* milestone -> milestones of the same program it depends on
  CrossDeps,     \* program -> programs of which it needs the promotion
  Resources,     \* milestone -> resources it claims
  Surfaces,      \* milestone -> files and subtrees of the source it claims
  Paths,         \* the paths of the source, as sequences of names
  Skill,         \* milestone -> the capability it claims
  Capacity,      \* capability -> slots the policy has for it
  MaxExecuting,
  MaxPipelineWip,
  Issues,
  Affects,       \* issue -> milestones of one program
  Contradictions,\* issues that pause what depends on those milestones too
  Fenceable,     \* programs whose admission is released or fenced by hand
  Supervisors,
  Nothing,
  MaxOutcomes    \* bound: milestone -> its generations

Elements(s) == {s[i] : i \in DOMAIN s}

\* A sequence without its entry e, of which it has at most one.
Without(s, e) ==
  IF e \notin Elements(s) THEN s
  ELSE LET i == CHOOSE k \in DOMAIN s : s[k] = e
       IN SubSeq(s, 1, i - 1) \o SubSeq(s, i + 1, Len(s))

\* validateProgramGraph: one source root, from which all other milestones
\* descend through dependencies in the graph that form no cycle.
ValidGraph(nodes) ==
  LET graph == Elements(nodes)
  IN /\ Cardinality(graph) = Len(nodes)
     /\ \A m \in graph : Deps[m] \subseteq graph \ {m} /\ (Deps[m] = {} <=> m = nodes[1])
     /\ \A waiting \in SUBSET graph :
          waiting # {} => \E m \in waiting : Deps[m] \cap waiting = {}

ASSUME PortfolioAssumption ==
  /\ Legacy \subseteq Programs /\ Fenceable \subseteq Programs
  /\ Created \in Seq(Programs)
  /\ Nodes \in [Programs -> Seq(Seq(Milestones))]
  /\ \A p \in Programs : Len(Nodes[p]) > 0 /\ \A r \in DOMAIN Nodes[p] :
       Len(Nodes[p][r]) > 0 /\ ValidGraph(Nodes[p][r])
  /\ DOMAIN TargetOf = Programs /\ \A p \in Programs : DOMAIN TargetOf[p] = DOMAIN Nodes[p]
  /\ \A p, q \in Programs : \A r \in DOMAIN Nodes[p] : \A k \in DOMAIN Nodes[q] :
       p # q => Elements(Nodes[p][r]) \cap Elements(Nodes[q][k]) = {}
  /\ \A m \in Milestones : \E p \in Programs : \E r \in DOMAIN Nodes[p] : m \in Elements(Nodes[p][r])
  /\ Deps \in [Milestones -> SUBSET Milestones]
  /\ \A m \in Milestones : \A s \in Surfaces[m] : s.kind \in {"file", "subtree"} /\ s.path \in Paths
  /\ \A path \in Paths : path \in Seq(Elements(path))
  /\ Skill \in [Milestones -> DOMAIN Capacity] /\ Capacity \in [DOMAIN Capacity -> Nat]
  /\ CrossDeps \in [Programs -> SUBSET Programs] /\ \A p \in Legacy : CrossDeps[p] = {}
  /\ Affects \in [Issues -> SUBSET Milestones]
  /\ \A i \in Issues : \E p \in Programs :
       Affects[i] \subseteq UNION {Elements(Nodes[p][r]) : r \in DOMAIN Nodes[p]}
  /\ MaxExecuting \in 1..2 /\ MaxPipelineWip \in 1..4
  /\ MaxOutcomes \in [Milestones -> Nat \ {0}]
  /\ Nothing \notin Issues \cup Milestones \cup Programs

VARIABLES
  program,     \* program -> phase, revision of its graph, promotions it needs
  milestone,   \* milestone -> status, generation and the outcomes of its runs
  admissions,  \* the active admissions with their claims
  queue,       \* the programs in the order in which they asked for execution
  issue,       \* issue -> its status
  candidates,  \* what programs handed over for integration
  promoted,    \* the candidates that have a promotion receipt
  plan,        \* supervisor -> the program.advance it is about to send
  handover,    \* the integration-candidate.queue about to be sent
  receipts     \* those of the two whose idempotency key has a receipt

vars == <<program, milestone, admissions, queue, issue, candidates, promoted, plan, handover, receipts>>

-----------------------------------------------------------------------------
Phases == {"approved", "eligible", "running", "integration_pending", "parked", "completed"}
Results == {"merge", "other"}  \* other: reject or investigate

Lowest(S) == CHOOSE i \in S : \A k \in S : i <= k

First(s, Fits(_)) ==
  LET fit == {i \in DOMAIN s : Fits(s[i])}
  IN IF fit = {} THEN Nothing ELSE s[Lowest(fit)]

V2(p) == p \notin Legacy
Graph(p) == Nodes[p][program[p].revision]
Target(p) == TargetOf[p][program[p].revision]
MilestonesOf == [p \in Programs |-> UNION {Elements(Nodes[p][r]) : r \in DOMAIN Nodes[p]}]
ProgramOf == [m \in Milestones |-> CHOOSE p \in Programs : m \in MilestonesOf[p]]
RaisedFor == [i \in Issues |-> CHOOSE p \in Programs : Affects[i] \subseteq MilestonesOf[p]]

Open(m) == "open" \in Elements(milestone[m].outcomes)
Busy(p) == \E m \in MilestonesOf[p] : Open(m)
Unresolved(i) == issue[i] \in {"open", "requires_graph_revision"}
Blocked(p) == \E i \in Issues : Unresolved(i) /\ RaisedFor[i] = p

\* The first approved milestone whose dependencies all have an outcome.
NextNode(p) ==
  LET Ready(m) == /\ milestone[m].status = "approved"
                  /\ \A d \in Deps[m] : milestone[d].status = "outcome_ready"
  IN First(Graph(p), Ready)

Fresh == [status |-> "approved", generation |-> 0, outcomes |-> <<>>, packet |-> 0,
          validated |-> 0, pauseReason |-> Nothing]

\* A new generation, with its run.
Started(rec, generation) ==
  [rec EXCEPT !.status = "running", !.generation = generation, !.packet = 0,
              !.pauseReason = Nothing, !.outcomes = Append(@, "open")]

\* The packet derived from a run that has ended.
Finished(rec, result) ==
  [rec EXCEPT !.status = IF rec.pauseReason = Nothing THEN "outcome_ready" ELSE "paused",
              !.packet = Len(rec.outcomes), !.outcomes[Len(rec.outcomes)] = result]

Start(m, generation) ==
  /\ Len(milestone[m].outcomes) < MaxOutcomes[m]
  /\ milestone' = [milestone EXCEPT ![m] = Started(@, generation)]

\* Fault (PortfolioInv): the program keeps its phase.
ReleasedSilently(p, released) == program[p].phase

\* Giving back the admission of a milestone makes its program eligible.
Released(p, released) ==
  IF released # {} /\ program[p].phase = "running" THEN "eligible" ELSE program[p].phase

AdmissionsOf(m) == {a \in admissions : a.milestone = m}

TypeOK ==
  /\ \A p \in Programs :
       /\ program[p].phase \in Phases /\ program[p].resume \in Phases \cup {Nothing}
       /\ program[p].revision \in DOMAIN Nodes[p]
       /\ \A n \in program[p].needs : n[2] \in 1..program[n[1]].revision
       /\ program[p].latest \in Results \cup {Nothing}
  /\ \A m \in Milestones :
       /\ milestone[m].status \in {"approved", "running", "paused", "outcome_ready"}
       /\ milestone[m].outcomes \in Seq(Results \cup {"open"})
       /\ milestone[m].generation \in 0..Len(milestone[m].outcomes)
       /\ {milestone[m].packet, milestone[m].validated} \subseteq 0..Len(milestone[m].outcomes)
       /\ milestone[m].pauseReason \in Issues \cup {Nothing}
       /\ Open(m) <=> milestone[m].status = "running"
  /\ \A a \in admissions : a.milestone \in Milestones /\ a.slot \in 1..2
  /\ queue \in Seq(Programs)
  /\ issue \in [Issues -> {"none", "open", "requires_graph_revision", "resolved"}]
  /\ promoted \subseteq candidates /\ candidates \subseteq receipts

\* The first graph of every program is approved and nothing is started.
Init ==
  /\ program = [p \in Programs |->
       [phase |-> "approved", resume |-> Nothing, revision |-> 1,
        needs |-> CrossDeps[p] \X {1}, latest |-> Nothing]]
  /\ milestone = [m \in Milestones |-> Fresh]
  /\ admissions = {} /\ queue = <<>>
  /\ issue = [i \in Issues |-> "none"]
  /\ candidates = {} /\ promoted = {}
  /\ plan = [s \in Supervisors |-> Nothing] /\ handover = Nothing
  /\ receipts = {}

sending == <<plan, handover, receipts>>
integration == <<candidates, promoted>>

-----------------------------------------------------------------------------
(* Starting a program. *)

\* A graph_v2 program is put into the queue of the portfolio.
RequestExecution(p) ==
  LET wip == {q \in Programs : /\ V2(q)
                               /\ program[q].phase \in {"eligible", "running", "integration_pending"}}
  IN /\ V2(p) /\ program[p].phase = "approved"
     /\ Cardinality(wip) < MaxPipelineWip
     /\ program' = [program EXCEPT ![p].phase = "eligible", ![p].resume = Nothing]
     /\ queue' = Append(Without(queue, p), p)
     /\ UNCHANGED <<milestone, admissions, issue, integration, sending>>

\* A graph_v1 program starts at once with its root, if nothing at all runs.
StartLegacy(p) ==
  /\ ~ V2(p) /\ program[p].phase = "approved"
  /\ \A m \in Milestones : ~ Open(m)
  /\ Start(Graph(p)[1], 1)
  /\ program' = [program EXCEPT ![p].phase = "running"]
  /\ UNCHANGED <<admissions, queue, issue, integration, sending>>

-----------------------------------------------------------------------------
(* Admission.  Capacity is what the active admissions leave, whether their *)
(* leases have expired or not.  A superseded policy or target and an open  *)
(* incident refuse admissions, for good: here each that fits may happen.   *)

FreeSlots(taken, size) == (1..size) \ taken

ExecutionSlots == FreeSlots({a.slot : a \in admissions}, 2)
SkillSlots(m) ==
  FreeSlots({a.skillSlot : a \in {b \in admissions : Skill[b.milestone] = Skill[m]}},
            Capacity[Skill[m]])

\* Fault (RunsOnEvidence): what is queued for integration counts.
NeedsQueued(p) ==
  \A n \in program[p].needs : \E c \in candidates : c.program = n[1] /\ c.revision = n[2]

NeedsMet(p) ==
  \A n \in program[p].needs : \E c \in promoted : c.program = n[1] /\ c.revision = n[2]

\* Each dependency has a validated outcome, be it of an earlier generation.
HasEvidence(m) == \A d \in Deps[m] : milestone[d].validated # 0

Below(p, q) == Len(p) <= Len(q) /\ SubSeq(q, 1, Len(p)) = p

\* workSurfacesOverlap
SurfacesOverlap(l, r) ==
  \/ l.path = r.path
  \/ l.kind = "subtree" /\ Below(l.path, r.path)
  \/ r.kind = "subtree" /\ Below(r.path, l.path)

\* A resource is claimed of all programs, a path of those that are on the same
\* revision of the target.
Collides(a, p, m) ==
  \/ Resources[a.milestone] \cap Resources[m] # {}
  \/ /\ a.target = Target(p)
     /\ \E l \in Surfaces[a.milestone], r \in Surfaces[m] : SurfacesOverlap(l, r)

\* Fault (ClaimsAreExclusive): an admission ends with its lease.
LiveConflicts(p, m) == {a \in admissions : a.lease # "expired" /\ Collides(a, p, m)}

Conflicts(p, m) == {a \in admissions : Collides(a, p, m)}

Admissible(p) ==
  /\ V2(p) /\ program[p].phase = "eligible"
  /\ Cardinality(admissions) < MaxExecuting
  /\ NeedsMet(p)
  /\ NextNode(p) # Nothing
  /\ LET m == NextNode(p)
     IN /\ HasEvidence(m)
        /\ ExecutionSlots # {} /\ SkillSlots(m) # {} /\ Conflicts(p, m) = {}

\* The admission with its claims, each of which is leased.
Granted(p, m) ==
  [program |-> p, target |-> Target(p), milestone |-> m, lease |-> "live",
   slot |-> Lowest(ExecutionSlots), skillSlot |-> Lowest(SkillSlots(m))]

\* The first program in the queue that fits is admitted.
Coordinate ==
  /\ \A p \in Legacy : program[p].phase # "running"
  /\ LET p == First(queue, Admissible)
         m == NextNode(p)
     IN /\ p # Nothing
        /\ Start(m, milestone[m].generation + 1)
        /\ program' = [program EXCEPT ![p].phase = "running"]
        /\ admissions' = admissions \cup {Granted(p, m)}
  /\ UNCHANGED <<queue, issue, integration, sending>>

Relet(a, lease) ==
  /\ admissions' = (admissions \ {a}) \cup {[a EXCEPT !.lease = lease]}
  /\ UNCHANGED <<program, milestone, queue, issue, integration, sending>>

\* The clock: a lease comes near its end, then ends.
LeaseRunsOut(a) ==
  \/ a.lease = "live" /\ Relet(a, "due")
  \/ a.lease = "due" /\ Relet(a, "expired")

\* A supervisor renews what is due; a lease that has expired stays so.
RenewLease(a) == a.lease = "due" /\ Relet(a, "live")

\* An admission is released or fenced by hand: its run goes on.
GiveUpAdmission(a) ==
  /\ a.program \in Fenceable
  /\ admissions' = admissions \ {a}
  /\ program' = [program EXCEPT ![a.program].phase = Released(a.program, {a})]
  /\ UNCHANGED <<milestone, queue, issue, integration, sending>>

\* A run ends, by itself or cancelled by an operator.
RunEnds(m, result) ==
  LET p == ProgramOf[m]
  IN /\ Open(m)
     /\ milestone' = [milestone EXCEPT ![m] = Finished(@, result)]
     /\ admissions' = admissions \ AdmissionsOf(m)
     /\ program' = [program EXCEPT ![p].latest = result,
                                   ![p].phase = Released(p, AdmissionsOf(m))]
     /\ UNCHANGED <<queue, issue, integration, sending>>

-----------------------------------------------------------------------------
(* program.advance, first as advanceProgram prepares it, then as the       *)
(* kernel decides.                                                         *)

\* Fault (QuietPrograms): the phase is only looked at when the call is prepared.
AnyPhase(p) == TRUE

Advanceable(p) ==
  \/ program[p].phase = "running"
  \/ V2(p) /\ program[p].phase = "eligible"

\* Milestones whose packets the request has to carry.
Evidence(p) ==
  IF NextNode(p) # Nothing THEN Deps[NextNode(p)]
  ELSE {m \in Elements(Graph(p)) : milestone[m].validated = 0}

Preparable(p) ==
  /\ IF V2(p) THEN program[p].phase = "eligible" ELSE program[p].phase = "running"
  /\ ~ Busy(p) /\ ~ Blocked(p)
  /\ \A m \in Evidence(p) :
       milestone[m].packet # 0 /\ milestone[m].outcomes[milestone[m].packet] = "merge"

\* Its idempotency key: the graph, the next generation and the packets.
Advance(p) ==
  [program |-> p, revision |-> program[p].revision, node |-> NextNode(p),
   generation |-> IF NextNode(p) = Nothing THEN 0 ELSE milestone[NextNode(p)].generation + 1,
   packets |-> {<<m, milestone[m].packet>> : m \in Evidence(p)}]

\* A tick ends with the first program that has anything to send, also when
\* that is only a repetition: then nothing changes.
PrepareAdvance(s) ==
  LET p == First(Created, Preparable)
  IN /\ plan[s] = Nothing /\ p # Nothing /\ Advance(p) \notin receipts
     /\ plan' = [plan EXCEPT ![s] = Advance(p)]
     /\ UNCHANGED <<program, milestone, admissions, queue, issue, integration, handover, receipts>>

Carried(k) == {x[1] : x \in k.packets}

Acceptable(k) ==
  /\ Advanceable(k.program) /\ k.revision = program[k.program].revision
  /\ ~ Busy(k.program) /\ ~ Blocked(k.program)
  /\ \A x \in k.packets : milestone[x[1]].outcomes[x[2]] = "merge"
  /\ k.node = NextNode(k.program)
  /\ IF k.node = Nothing
     THEN \A m \in Elements(Graph(k.program)) : milestone[m].validated # 0 \/ m \in Carried(k)
     ELSE /\ k.generation = milestone[k.node].generation + 1
          /\ Carried(k) = Deps[k.node]
          /\ V2(k.program) => k.packets # {}

Recorded(k) ==
  [m \in Milestones |->
     IF m \in Carried(k)
     THEN [milestone[m] EXCEPT !.validated =
             CHOOSE i \in DOMAIN milestone[m].outcomes : <<m, i>> \in k.packets]
     ELSE milestone[m]]

\* Without new evidence the candidate of the last packet counts, and a run
\* that was not to be merged may have left none.
MayLackCandidate(k) ==
  V2(k.program) /\ k.node = Nothing /\ k.packets = {} /\ program[k.program].latest # "merge"

Answered(s) ==
  /\ plan[s] # Nothing
  /\ plan' = [plan EXCEPT ![s] = Nothing]
  /\ receipts' = receipts \cup {plan[s]}
  /\ UNCHANGED <<admissions, queue, issue, integration, handover>>

Accepted(s) == Answered(s) /\ plan[s] \notin receipts /\ Acceptable(plan[s])

\* A rejection is stored under the key too, and returned from then on.
RejectAdvance(s) ==
  /\ Answered(s)
  /\ \/ plan[s] \in receipts
     \/ ~ Acceptable(plan[s])
     \/ MayLackCandidate(plan[s])
  /\ UNCHANGED <<program, milestone>>

\* graph_v2: the evidence is recorded, the generation starts by admission.
RecordEvidence(s) ==
  /\ Accepted(s)
  /\ V2(plan[s].program) /\ plan[s].node # Nothing
  /\ milestone' = Recorded(plan[s])
  /\ UNCHANGED program

\* graph_v1: the evidence is recorded and the generation started.
StartNext(s) ==
  /\ Accepted(s)
  /\ ~ V2(plan[s].program) /\ plan[s].node # Nothing
  /\ LET m == plan[s].node
     IN /\ Len(milestone[m].outcomes) < MaxOutcomes[m]
        /\ milestone' = [Recorded(plan[s]) EXCEPT ![m] = Started(@, plan[s].generation)]
  /\ UNCHANGED program

\* All milestones are done: graph_v1 is complete, graph_v2 hands over.
FinishProgram(s) ==
  LET p == plan[s].program
  IN /\ Accepted(s)
     /\ plan[s].node = Nothing
     /\ milestone' = Recorded(plan[s])
     /\ program' = [program EXCEPT ![p].phase = IF V2(p) THEN "integration_pending" ELSE "completed"]

-----------------------------------------------------------------------------
(* Integration, as far as programs see it. *)

\* What is handed over: the candidate of the last packet to be merged.
Merges(p) ==
  UNION {{<<m, i>> : i \in {k \in DOMAIN milestone[m].outcomes : milestone[m].outcomes[k] = "merge"}} :
           m \in MilestonesOf[p]}
Candidate(p) ==
  [program |-> p, revision |-> program[p].revision, merges |-> Cardinality(Merges(p)),
   needs |-> program[p].needs]

Pending(p) == V2(p) /\ program[p].phase = "integration_pending"

\* The integration supervisor takes the first program that is pending ...
PrepareHandover ==
  LET p == First(Created, Pending)
  IN /\ handover = Nothing /\ p # Nothing
     /\ Candidate(p) \notin candidates
     /\ handover' = Candidate(p)
     /\ UNCHANGED <<program, milestone, admissions, queue, issue, integration, plan, receipts>>

Precursors(c) ==
  \A n \in c.needs : \E d \in candidates : d.program = n[1] /\ d.revision = n[2]

\* ... and queues its candidate later, when the kernel does not look at the
\* phase, but sets it.
QueueCandidate ==
  /\ handover # Nothing
  /\ handover' = Nothing /\ receipts' = receipts \cup {handover}
  /\ IF handover \notin receipts /\ Precursors(handover)
     THEN /\ candidates' = candidates \cup {handover}
          /\ program' = [program EXCEPT ![handover.program].phase = "integration_pending"]
     ELSE UNCHANGED <<candidates, program>>
  /\ UNCHANGED <<milestone, admissions, queue, issue, promoted, plan>>

\* A promotion completes the program, whatever has become of it.
Promote(c) ==
  /\ c \in candidates \ promoted
  /\ promoted' = promoted \cup {c}
  /\ program' = [program EXCEPT ![c.program].phase = "completed"]
  /\ UNCHANGED <<milestone, admissions, queue, issue, candidates, sending>>

-----------------------------------------------------------------------------
(* What operators and workers intervene with. *)

Closed(p, S) == \A m \in Elements(Graph(p)) : Deps[m] \cap S # {} => m \in S

\* What an issue pauses: with a contradiction, all that depends on it too.
Paused(i) ==
  IF i \notin Contradictions THEN Affects[i]
  ELSE LET p == RaisedFor[i]
       IN {m \in Elements(Graph(p)) :
             \A S \in SUBSET Elements(Graph(p)) : Affects[i] \subseteq S /\ Closed(p, S) => m \in S}

\* The milestones are paused, and what runs of them is cancelled.
RaiseIssue(i) ==
  LET p == RaisedFor[i]
      Reason(m) == [milestone[m] EXCEPT !.status = "paused", !.pauseReason = i]
      stopped == {m \in Paused(i) : Open(m)}
      released == UNION {AdmissionsOf(m) : m \in stopped}
  IN /\ issue[i] = "none" /\ Affects[i] \subseteq Elements(Graph(p))
     /\ issue' = [issue EXCEPT ![i] = "open"]
     /\ milestone' = [m \in Milestones |->
          IF m \in stopped THEN Finished(Reason(m), "other")
          ELSE IF m \in Paused(i) THEN Reason(m) ELSE milestone[m]]
     /\ admissions' = admissions \ released
     /\ program' = [program EXCEPT
          ![p].latest = IF stopped = {} THEN @ ELSE "other",
          ![p].phase = Released(p, released)]
     /\ UNCHANGED <<queue, integration, sending>>

\* Only the milestones that the issue names and still pauses are resumed.
ResolveIssue(i, action) ==
  /\ issue[i] = "open"
  /\ issue' = [issue EXCEPT ![i] =
       IF action = "requires_graph_revision" THEN action ELSE "resolved"]
  /\ milestone' = [m \in Milestones |->
       IF action = "resume_unchanged_contract" /\ m \in Affects[i] /\ milestone[m].pauseReason = i
       THEN [milestone[m] EXCEPT !.status = "approved", !.pauseReason = Nothing]
       ELSE milestone[m]]
  /\ UNCHANGED <<program, admissions, queue, integration, sending>>

\* The next revision of a graph, bound to the current graphs of the programs
\* it depends on.
ApproveGraph(p) ==
  /\ ~ Busy(p)
  /\ program[p].revision < Len(Nodes[p])
  /\ program' = [program EXCEPT
       ![p].phase = IF @ = "running" THEN @ ELSE "approved",
       ![p].revision = @ + 1,
       ![p].needs = {<<q, program[q].revision>> : q \in CrossDeps[p]}]
  /\ issue' = [i \in Issues |->
       IF issue[i] = "requires_graph_revision" /\ RaisedFor[i] = p THEN "resolved" ELSE issue[i]]
  /\ UNCHANGED <<milestone, admissions, queue, integration, sending>>

\* decision.retry: another generation of the same contract.  Each dependency
\* has had an outcome to be merged.
RetryMilestone(p, m) ==
  /\ program[p].phase = "running" /\ m \in Elements(Graph(p))
  /\ ~ Busy(p) /\ ~ Blocked(p)
  /\ milestone[m].outcomes # <<>>
  /\ \A d \in Deps[m] : "merge" \in Elements(milestone[d].outcomes)
  /\ Start(m, milestone[m].generation + 1)
  /\ UNCHANGED <<program, admissions, queue, issue, integration, sending>>

\* decision.park: the run is cancelled and its admission fenced.
Park(p) ==
  LET phase == program[p].phase
      parked == [program[p] EXCEPT !.phase = "parked",
                   !.resume = IF ~ V2(p) THEN Nothing
                              ELSE IF phase = "running" THEN "eligible" ELSE phase]
  IN /\ \/ phase = "running"
        \/ V2(p) /\ phase \in {"eligible", "integration_pending"}
     /\ \/ /\ ~ Busy(p)
           /\ program' = [program EXCEPT ![p] = parked]
           /\ UNCHANGED <<milestone, admissions>>
        \/ \E m \in MilestonesOf[p] :
             /\ Open(m)
             /\ program' = [program EXCEPT ![p] = [parked EXCEPT !.latest = "other"]]
             /\ milestone' = [milestone EXCEPT ![m] = Finished(@, "other")]
             /\ admissions' = admissions \ AdmissionsOf(m)
     /\ UNCHANGED <<queue, issue, integration, sending>>

\* decision.approve of a packet to resume a parked program.
Resume(p) ==
  /\ program[p].phase = "parked"
  /\ program' = [program EXCEPT
       ![p].phase = IF V2(p) THEN program[p].resume ELSE "running", ![p].resume = Nothing]
  /\ UNCHANGED <<milestone, admissions, queue, issue, integration, sending>>

-----------------------------------------------------------------------------
\* The commands portfolio.* and the clock they look at.
Admission ==
  \/ Coordinate
  \/ \E a \in admissions : LeaseRunsOut(a) \/ RenewLease(a) \/ GiveUpAdmission(a)

Next ==
  \/ \E p \in Programs :
       RequestExecution(p) \/ StartLegacy(p) \/ ApproveGraph(p) \/ Park(p) \/ Resume(p)
  \/ \E p \in Programs, m \in Milestones : RetryMilestone(p, m)
  \/ \E m \in Milestones, result \in Results : RunEnds(m, result)
  \/ Admission
  \/ \E s \in Supervisors :
       PrepareAdvance(s) \/ RejectAdvance(s) \/ RecordEvidence(s) \/ StartNext(s) \/ FinishProgram(s)
  \/ PrepareHandover \/ QueueCandidate
  \/ \E c \in candidates : Promote(c)
  \/ \E i \in Issues : RaiseIssue(i)
  \/ \E i \in Issues, action \in {"record_only", "resume_unchanged_contract", "requires_graph_revision"} :
       ResolveIssue(i, action)

Spec == Init /\ [][Next]_vars

-----------------------------------------------------------------------------
(* Properties.  A program that is given a new graph while its candidate is *)
(* on the way is left out of some: the promotion completes it whatever it  *)
(* is doing then (README).                                                 *)

OneGraph(p) == Len(Nodes[p]) = 1

\* The paths that the claims of a milestone let it change.
MayChange(m) ==
  {p \in Paths : \E s \in Surfaces[m] : p = s.path \/ (s.kind = "subtree" /\ Below(s.path, p))}

\* portfolio.coordinate: no two active admissions share an execution slot, a
\* slot of a capability, a resource or, on one revision of the target, a path
\* that both may change, no matter which leases have expired, how runs ended, in
\* what order admissions were given back and which graphs were revised since;
\* and no two are of one program, unless one was given up by hand and its run,
\* older than the next one, was the one that parking cancelled.
ClaimsAreExclusive ==
  \A a, b \in admissions : a # b =>
    /\ a.slot # b.slot
    /\ a.program = b.program => a.program \in Fenceable
    /\ Resources[a.milestone] \cap Resources[b.milestone] = {}
    /\ a.target = b.target => MayChange(a.milestone) \cap MayChange(b.milestone) = {}
    /\ Skill[a.milestone] = Skill[b.milestone] => a.skillSlot # b.skillSlot

\* Capacity is never lost or used twice: a graph_v2 program whose admission
\* is not given up by hand is running exactly while it has an admission, and
\* that is for the one run it has open.
AdmissionsMatchWork ==
  \A p \in Programs :
    V2(p) /\ p \notin Fenceable /\ OneGraph(p) =>
      LET own == {a \in admissions : a.program = p}
          open == {m \in MilestonesOf[p] : Open(m)}
      IN /\ program[p].phase = "running" <=> own # {}
         /\ open = {a.milestone : a \in own}
         /\ Cardinality(own) <= 1

\* A program that was parked, or has handed over, or is complete has no run
\* open, and no call prepared before can give it one.
QuietPrograms ==
  \A p \in Programs :
    program[p].phase \in {"approved", "parked", "integration_pending", "completed"}
      /\ p \notin Fenceable /\ (V2(p) => OneGraph(p)) => ~ Busy(p)

\* What advanceProgram read and the kernel decides later: only outcomes to be
\* merged are ever validated, no milestone runs before each of its
\* dependencies has one, and no program before what it needs is promoted.
RunsOnEvidence ==
  \A m \in Milestones :
    /\ milestone[m].validated # 0 => milestone[m].outcomes[milestone[m].validated] = "merge"
    /\ milestone[m].outcomes # <<>> =>
         /\ \A d \in Deps[m] : milestone[d].validated # 0
         /\ OneGraph(ProgramOf[m]) =>
              program[ProgramOf[m]].needs \subseteq {<<c.program, c.revision>> : c \in promoted}

\* A milestone of a graph_v2 program that an unresolved issue names neither
\* runs nor is taken for done, though portfolio.coordinate does not look at
\* issues and one may be raised in the middle of a run or of program.advance;
\* unless another issue that named it too took the place of this one, and was
\* resolved.
IssuesHoldMilestones ==
  \A i \in Issues : V2(RaisedFor[i]) /\ Unresolved(i) =>
    \A m \in Affects[i] :
      \/ milestone[m].status = "paused"
      \/ \E j \in Issues : issue[j] = "resolved" /\ m \in Affects[j]

\* portfolio.coordinate, issue.raise and decision.*: no capacity is lost, and no
\* work goes on behind an issue.
PortfolioInv == TypeOK /\ AdmissionsMatchWork /\ IssuesHoldMilestones
=============================================================================
