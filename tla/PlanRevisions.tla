---------------------------- MODULE PlanRevisions ----------------------------
(***************************************************************************)
(* The revisions that an operator approves before and while programs run:  *)
(* of attention policies, portfolio policies, integration targets and the  *)
(* graphs of programs (packages/kernel/src/domain.ts, model.ts), with the  *)
(* sources and workflows they cite, and how far a program follows them.    *)
(*                                                                         *)
(* A graph pins one revision of the policy and of a target, and revisions  *)
(* of the graphs of other programs whose promotion it needs.  A candidate  *)
(* stays with the target revision it was made for, which keeps a head of   *)
(* its own, but all revisions of a target move one Git ref.                *)
(*                                                                         *)
(* Here a program has one milestone, which its revised graphs repeat, and  *)
(* any order is possible among candidates that are ready: admission and    *)
(* several milestones are in Portfolio, order and leases in                *)
(* IntegrationLane.                                                        *)
(***************************************************************************)
EXTENDS Integers, FiniteSets, Sequences

CONSTANTS
  Programs,
  Targets,
  Lanes,         \* resources of kind merge_lane that a policy may register
  Imported,      \* Source revisions that are imported from outside
  Absent,        \* no ref, no head
  MaxWorkflows,  \* bound: versions of the workflow
  MaxAttention,  \* bound: revisions of the attention policy
  MaxPolicies,   \* bound: revisions of the portfolio policy
  MaxTargets,    \* bound: revisions of a target
  MaxGraphs      \* bound: program -> revisions of its graph

\* A candidate is named by the graph revision that it was made for.
Candidates == UNION {{p} \X (1..MaxGraphs[p]) : p \in Programs}

ASSUME PlanAssumption ==
  /\ MaxGraphs \in [Programs -> Nat]
  /\ \A n \in {MaxWorkflows, MaxAttention, MaxPolicies, MaxTargets} : n \in Nat
  /\ IsFiniteSet(Candidates) /\ Absent \notin Seq(Imported \cup Candidates)

VARIABLES
  sources,    \* the registered source revisions: an import with candidates on it
  workflows,  \* the latest version of the workflow
  attention,  \* revisions of the attention policy: whether it pages for routine
  policies,   \* revisions of the portfolio policy
  targets,    \* target -> its revisions, each with its lane and head
  ref,        \* target -> the commit of its Git ref
  opening,    \* target -> initial head of the revision an operator approves
  interviewed,\* programs with a captured interview
  graphs,     \* program -> the revisions of its graph, each with its pins
  phase,      \* program -> its phase
  done,       \* programs whose milestone has its outcome
  work        \* candidate -> its status and the head it was prepared on

plans == <<sources, workflows, attention, policies, interviewed, graphs>>
lane  == <<targets, ref, opening>>
vars  == <<plans, lane, phase, done, work>>

-----------------------------------------------------------------------------
Phases == {"none", "legacy_active", "draft", "approved", "eligible", "running",
           "integration_pending", "completed"}

Sources == Seq(Imported \cup Candidates)
Contents(h) == {h[i] : i \in DOMAIN h}
IsPrefixOf(g, h) == Len(g) <= Len(h) /\ g = SubSeq(h, 1, Len(g))

Approved == {c \in Candidates : c[2] <= Len(graphs[c[1]])}
Graph(c) == graphs[c[1]][c[2]]
Current(p) == <<p, Len(graphs[p])>>
In(s) == {c \in Candidates : work[c].status = s}

\* Where a candidate is integrated: a target, and the revision of it.
Target(c) == Graph(c).target
HeadFor(c) == targets[Target(c)][Graph(c).targetRevision].head
Rebased(c) == Append(work[c].expected, c)

\* The graph revisions that one of S needs, directly or through others.
Reached(S) ==
  LET from[n \in 0..Cardinality(Candidates)] ==
        IF n = 0 THEN S ELSE from[n - 1] \cup UNION {Graph(c).needs : c \in from[n - 1]}
  IN from[Cardinality(Candidates)]

\* Fault (PlanInv): only the programs named are looked at.
NamesNot(p, S) == \A c \in S : c[1] # p

ReachesNot(p, S) == \A c \in Reached(S) : c[1] # p

Policies == [attention : Nat, lanes : SUBSET Lanes]
TargetRevisions == [lane : Lanes, head : Sources]
GraphRevisions ==
  [policy : Nat, target : Targets, targetRevision : Nat, needs : SUBSET Candidates]
Works ==
  [status : {"none", "refused", "pending", "prepared", "authorized", "promoted"},
   expected : Sources]

\* What every reachable state looks like: whatever is cited exists.
TypeOK ==
  /\ sources \subseteq Sources /\ workflows \in 0..MaxWorkflows
  /\ attention \in Seq(BOOLEAN)
  /\ policies \in Seq(Policies)
  /\ \A n \in DOMAIN policies : policies[n].attention \in DOMAIN attention
  /\ targets \in [Targets -> Seq(TargetRevisions)]
  /\ \A t \in Targets : {targets[t][n].head : n \in DOMAIN targets[t]} \subseteq sources
  /\ ref \in [Targets -> sources \cup {Absent}]
  /\ opening \in [Targets -> sources \cup {Absent}]
  /\ interviewed \subseteq Programs
  /\ graphs \in [Programs -> Seq(GraphRevisions)]
  /\ \A c \in Approved :
       /\ Graph(c).policy \in DOMAIN policies /\ Graph(c).needs \subseteq Approved
       /\ Graph(c).targetRevision \in DOMAIN targets[Target(c)]
  /\ phase \in [Programs -> Phases] /\ done \subseteq Programs
  /\ work \in [Candidates -> Works]

Init ==
  /\ sources = {} /\ workflows = 0 /\ attention = <<>> /\ policies = <<>>
  /\ targets = [t \in Targets |-> <<>>]
  /\ ref = [t \in Targets |-> Absent] /\ opening = [t \in Targets |-> Absent]
  /\ interviewed = {} /\ graphs = [p \in Programs |-> <<>>]
  /\ phase = [p \in Programs |-> "none"] /\ done = {}
  /\ work = [c \in Candidates |-> [status |-> "none", expected |-> <<>>]]

-----------------------------------------------------------------------------
(* What plans cite.                                                        *)

RegisterSource(i) ==
  /\ <<i>> \notin sources
  /\ sources' = sources \cup {<<i>>}
  /\ UNCHANGED <<workflows, attention, policies, interviewed, graphs, lane, phase, done, work>>

RegisterWorkflow ==
  /\ workflows < MaxWorkflows
  /\ workflows' = workflows + 1
  /\ UNCHANGED <<sources, attention, policies, interviewed, graphs, lane, phase, done, work>>

ApproveAttentionPolicy(routine) ==
  /\ Len(attention) < MaxAttention
  /\ attention' = Append(attention, routine)
  /\ UNCHANGED <<sources, workflows, policies, interviewed, graphs, lane, phase, done, work>>

\* A portfolio policy pins the attention policy in force, which must not page
\* for routine; that one may be replaced later.
ApprovePortfolioPolicy(lanes) ==
  /\ Len(policies) < MaxPolicies
  /\ attention # <<>> /\ ~ attention[Len(attention)]
  /\ policies' = Append(policies, [attention |-> Len(attention), lanes |-> lanes])
  /\ UNCHANGED <<sources, workflows, attention, interviewed, graphs, lane, phase, done, work>>

-----------------------------------------------------------------------------
(* A new revision of a target: the command line first makes the ref, or    *)
(* finds it at the initial head, and then sends integration-target.approve. *)

\* initializeIntegrationRef: another head is refused.
CanInitialize(t, h) == ref[t] \in {Absent, h}

OpenTarget(t, h) ==
  /\ Len(targets[t]) < MaxTargets /\ opening[t] = Absent
  /\ h \in sources /\ CanInitialize(t, h)
  /\ ref' = [ref EXCEPT ![t] = h]
  /\ opening' = [opening EXCEPT ![t] = h]
  /\ UNCHANGED <<plans, targets, phase, done, work>>

\* The head of the revision in force: the only one a new revision may start from.
Continues(t, h) == targets[t] # <<>> => targets[t][Len(targets[t])].head = h

ApproveTarget(t, l) ==
  /\ opening[t] # Absent
  /\ Continues(t, opening[t])
  /\ policies # <<>> /\ l \in policies[Len(policies)].lanes
  /\ targets' = [targets EXCEPT ![t] = Append(@, [lane |-> l, head |-> opening[t]])]
  /\ opening' = [opening EXCEPT ![t] = Absent]
  /\ UNCHANGED <<plans, ref, phase, done, work>>

\* The command is refused, or never sent: the ref stays.
AbandonTarget(t) ==
  /\ opening[t] # Absent
  /\ opening' = [opening EXCEPT ![t] = Absent]
  /\ UNCHANGED <<plans, targets, ref, phase, done, work>>

-----------------------------------------------------------------------------
(* Programs and their graphs.                                              *)

Enter(p, ph) ==
  /\ phase[p] = "none"
  /\ phase' = [phase EXCEPT ![p] = ph]
  /\ UNCHANGED <<plans, lane, done, work>>

CreateProgram(p) == Enter(p, "legacy_active")

\* The milestone binds to a registered workflow of one step.
Executable == workflows > 0

\* A program with an intent and one milestone, which cites a workflow.
ApproveProgram(p) == Executable /\ Enter(p, "legacy_active")

Kickoff(p) == (\E i \in Imported : <<i>> \in sources) /\ Enter(p, "draft")

CaptureInterview(p) ==
  /\ phase[p] = "draft"
  /\ interviewed' = interviewed \cup {p}
  /\ UNCHANGED <<sources, workflows, attention, policies, graphs, lane, phase, done, work>>

\* The policy and the target in force, which agree on the lane.  What is needed
\* is pinned as it is, superseded or not, if it goes to the same revision of the
\* target.
Pinnable(p, t, S) ==
  LET n == Len(targets[t]) IN
  /\ policies # <<>> /\ n > 0
  /\ targets[t][n].lane \in policies[Len(policies)].lanes
  /\ \A c \in S : Target(c) = t /\ Graph(c).targetRevision = n
  /\ ReachesNot(p, S)

\* The next revision replaces the one in force, which stays for its candidate.
Superseded(p, t, S) ==
  [graphs EXCEPT ![p] =
     Append(@, [policy |-> Len(policies), target |-> t,
                targetRevision |-> Len(targets[t]), needs |-> S])]

ApproveGraph(p, t, S) ==
  /\ Len(graphs[p]) < MaxGraphs[p]
  /\ p \in interviewed /\ phase[p] # "running"
  /\ Pinnable(p, t, S) /\ Executable
  /\ graphs' = Superseded(p, t, S)
  /\ phase' = [phase EXCEPT ![p] = "approved"]
  /\ UNCHANGED <<sources, workflows, attention, policies, interviewed, lane, done, work>>

Move(p, from, to) ==
  /\ phase[p] = from
  /\ phase' = [phase EXCEPT ![p] = to]
  /\ UNCHANGED <<plans, lane>>

StartProgram(p) == Move(p, "approved", "eligible") /\ UNCHANGED <<done, work>>

\* The pins of a graph are still the revisions in force.
InForce(c) ==
  /\ Graph(c).policy = Len(policies)
  /\ Graph(c).targetRevision = Len(targets[Target(c)])

\* portfolio.coordinate passes over a program whose pins are superseded.
Coordinate(p) ==
  /\ p \notin done
  /\ Move(p, "eligible", "running")
  /\ InForce(Current(p)) /\ Graph(Current(p)).needs \subseteq In("promoted")
  /\ UNCHANGED <<done, work>>

FinishRun(p) ==
  /\ Move(p, "running", "eligible")
  /\ done' = done \cup {p}
  /\ UNCHANGED work

\* program.advance looks at no pin and at no other program: a graph revised
\* after its milestone was done comes here without portfolio.coordinate.
Advance(p) == p \in done /\ Move(p, "eligible", "integration_pending") /\ UNCHANGED <<done, work>>

-----------------------------------------------------------------------------
(* Integration, as far as revisions matter.                                *)

\* A rejection is stored under the key of the candidate, for ever.
QueueCandidate(p) ==
  LET c == Current(p)
      known == \A d \in Graph(c).needs : work[d].status \notin {"none", "refused"}
  IN /\ phase[p] = "integration_pending" /\ work[c].status = "none"
     /\ work' = [work EXCEPT ![c].status = IF known THEN "pending" ELSE "refused"]
     /\ UNCHANGED <<plans, lane, phase, done>>

\* Fault (DependentsFollow): it is enough that they were queued.
PrecursorsQueued(c) == TRUE

PrecursorsPromoted(c) == Graph(c).needs \subseteq In("promoted")

\* The candidate is rebased on the head of its own target revision, where the
\* ref has to be.
Prepare(c) ==
  /\ c \in In("pending") /\ PrecursorsPromoted(c)
  /\ CanInitialize(Target(c), HeadFor(c))
  /\ work' = [work EXCEPT ![c] = [status |-> "prepared", expected |-> HeadFor(c)]]
  /\ sources' = sources \cup {Append(HeadFor(c), c)}
  /\ UNCHANGED <<workflows, attention, policies, interviewed, graphs, lane, phase, done>>

\* Verified, shown to the operator and authorized, all on the same head.
Integrate(c) ==
  /\ c \in In("prepared") /\ HeadFor(c) = work[c].expected
  /\ work' = [work EXCEPT ![c].status = "authorized"]
  /\ UNCHANGED <<plans, lane, phase, done>>

\* Fault (HeadsAreHistory): update-ref without the commit it expects.
AnyCommit(c) == TRUE

ExpectedCommit(c) == ref[Target(c)] = work[c].expected

MoveRef(c) ==
  /\ c \in In("authorized") /\ ExpectedCommit(c)
  /\ ref' = [ref EXCEPT ![Target(c)] = Rebased(c)]
  /\ UNCHANGED <<plans, targets, opening, phase, done, work>>

\* The program is complete, whichever revision of its graph is in force.
RecordPromotion(c) ==
  /\ c \in In("authorized")
  /\ ref[Target(c)] = Rebased(c) /\ HeadFor(c) = work[c].expected
  /\ targets' = [targets EXCEPT ![Target(c)][Graph(c).targetRevision].head = Rebased(c)]
  /\ work' = [work EXCEPT ![c].status = "promoted"]
  /\ phase' = [phase EXCEPT ![c[1]] = "completed"]
  /\ UNCHANGED <<plans, ref, opening, done>>

-----------------------------------------------------------------------------
Registry ==
  \/ \E i \in Imported : RegisterSource(i)
  \/ RegisterWorkflow
  \/ \E routine \in BOOLEAN : ApproveAttentionPolicy(routine)
  \/ \E lanes \in SUBSET Lanes : ApprovePortfolioPolicy(lanes)

Opening(t) ==
  (\E h \in sources : OpenTarget(t, h)) \/ (\E l \in Lanes : ApproveTarget(t, l)) \/ AbandonTarget(t)

Program(p) ==
  \/ CreateProgram(p) \/ ApproveProgram(p) \/ Kickoff(p) \/ CaptureInterview(p)
  \/ \E t \in Targets, S \in SUBSET Approved : ApproveGraph(p, t, S)
  \/ StartProgram(p) \/ Coordinate(p) \/ FinishRun(p) \/ Advance(p) \/ QueueCandidate(p)

Integration(c) == Prepare(c) \/ Integrate(c) \/ MoveRef(c) \/ RecordPromotion(c)

Next ==
  \/ Registry
  \/ \E t \in Targets : Opening(t)
  \/ \E p \in Programs : Program(p)
  \/ \E c \in Candidates : Integration(c)

Spec == Init /\ [][Next]_vars

-----------------------------------------------------------------------------
(* What must hold.                                                         *)

\* Along the revisions of graphs that program-graph.approve has accepted, no
\* path leads from a program back to any revision of the same program, however
\* the programs are revised in turn.
NoProgramNeedsItself ==
  \A c \in Approved : \A d \in Reached(Graph(c).needs) : d[1] # c[1]

\* program-graph.approve: along what is pinned, nothing waits for itself.
PlanInv == TypeOK /\ NoProgramNeedsItself

\* The kernel keeps a head for each revision of a target and serialises the
\* candidates of one revision only, while all revisions move one ref: still
\* each recorded head is a part of the history of the ref, with every candidate
\* promoted, so that no promotion is overwritten by one of another revision.
HeadsAreHistory ==
  /\ \A t \in Targets : \A n \in DOMAIN targets[t] : IsPrefixOf(targets[t][n].head, ref[t])
  /\ \A c \in In("promoted") : IsPrefixOf(Rebased(c), ref[Target(c)])

\* A candidate is integrated on a head that holds all that its graph needs, in
\* just the revisions it pins, also when its graph was revised after the
\* milestone was done and portfolio.coordinate never saw the new pins.
DependentsFollow ==
  \A c \in In("prepared") \cup In("authorized") \cup In("promoted") :
    Graph(c).needs \subseteq Contents(work[c].expected)
=============================================================================
