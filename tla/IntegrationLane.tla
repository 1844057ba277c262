--------------------------- MODULE IntegrationLane ---------------------------
(***************************************************************************)
(* The integration of finished programs into managed targets: the commands *)
(* integration-candidate.queue to integration.promote.record of the kernel *)
(* (packages/kernel/src/domain.ts), the ticks of the integration           *)
(* supervisors that send them (packages/runtime/src/                       *)
(* integration-supervisor.ts) and the Git ref they move (source-store.ts). *)
(*                                                                         *)
(* A tick first reads what is to be done, in a fixed order of priorities,  *)
(* then prepares a revision, runs the verifier or moves the ref, and then  *)
(* sends one command.  The read and the command are two steps wherever     *)
(* something is awaited between them: `doing' is what a supervisor holds   *)
(* meanwhile.  A supervisor may die between the two.                       *)
(*                                                                         *)
(* A revision of a target is the sequence of candidates integrated in it.  *)
(* The original revision of a candidate, made on the initial head, and its *)
(* rebased revision on a later head are both that head and the candidate.  *)
(***************************************************************************)
EXTENDS Integers, FiniteSets, Sequences

CONSTANTS
  Candidates,   \* the final candidates of programs, one each
  Targets,
  Supervisors,
  Nobody,       \* null: no owner, no candidate
  TargetOf,     \* candidate -> its target
  Admission,    \* candidate -> finalAdmissionSequence
  Creation,     \* candidate -> place of its program in listPrograms
  Needs,        \* candidate -> candidates of the programs its graph depends on
  Overlaps,     \* {c, d}: they change a path in common
  Clashes,      \* {c, d}: a merge of one onto the other may conflict
  Straying,     \* candidates that may change a path outside their surfaces
  Sound,        \* candidates whose verification passes whenever it is run
  MaxReady,     \* policy.limits.maxIntegrationReadyCandidates
  LeaseLosses,  \* bound: a lease expires only at fences up to this one
  Mortal        \* supervisors that may die

ASSUME IntegrationLaneAssumption ==
  /\ Nobody \notin Supervisors \cup Candidates
  /\ TargetOf \in [Candidates -> Targets]
  /\ Admission \in [Candidates -> Nat] /\ Creation \in [Candidates -> Nat]
  /\ \A c, d \in Candidates : c # d => Admission[c] # Admission[d] /\ Creation[c] # Creation[d]
  /\ Needs \in [Candidates -> SUBSET Candidates]
  /\ Overlaps \subseteq SUBSET Candidates /\ Clashes \subseteq Overlaps
  /\ Straying \subseteq Candidates /\ Sound \subseteq Candidates
  /\ MaxReady \in Nat /\ LeaseLosses \in Nat
  /\ Mortal \subseteq Supervisors

VARIABLES
  pending,  \* candidates whose program is in phase integration_pending
  diff,     \* candidate -> its diff manifest
  queue,    \* the queued candidates, as listIntegrationWork orders them
  work,     \* candidate -> its integration work
  packets,  \* candidates whose integration decision is open
  head,     \* target -> currentHeadRef
  ref,      \* target -> the commit of its Git ref
  used,     \* the idempotency keys that have a receipt
  doing     \* supervisor -> what it has read and not yet told the kernel

vars == <<pending, diff, queue, work, packets, head, ref, used, doing>>

-----------------------------------------------------------------------------
WorkStatuses == {"absent", "pending", "leased", "prepared", "verified", "failed",
                 "conflicted", "authorized", "promoted"}

Commands == {"queue", "lease", "prepare", "conflict", "verify", "promote"}

NoWork == [status |-> "absent", owner |-> Nobody, fence |-> 0, lease |-> "none",
           expected |-> <<>>, verdict |-> "none", preds |-> {}]

Idle == [step |-> "idle", cand |-> Nobody, fence |-> 0, seen |-> <<>>, preds |-> {}]

In(s) == {c \in Candidates : work[c].status = s}
Queued == {queue[i] : i \in DOMAIN queue}
Contents(h) == {h[i] : i \in DOMAIN h}

\* The statuses that integration-candidate.queue counts against the policy.
Ready == In("pending") \cup In("leased") \cup In("prepared") \cup In("verified") \cup In("authorized")

\* Candidates that still stand in the way of later ones on the target.
Unfinished == Ready

\* Fault (LaneInv): the original revision, though the head has moved.
NotRebased(c) == <<c>>

Rebased(c) == Append(work[c].expected, c)

\* A head of a target is told from its other heads by its length.
Key(command, c, n) == <<command, c, n>>
HeadKey(command, c, h) == Key(command, c, Len(h))

Overlapping(c) ==
  {d \in Queued : /\ TargetOf[d] = TargetOf[c] /\ Admission[d] < Admission[c]
                  /\ {c, d} \in Overlaps}

\* The first of S in listIntegrationWork.
First(S) == queue[CHOOSE i \in DOMAIN queue :
                    queue[i] \in S /\ \A k \in DOMAIN queue : queue[k] \in S => i <= k]

\* The first of S in listIntegrationCandidates.
Earliest(S) == CHOOSE c \in S : \A d \in S : Admission[c] <= Admission[d]

\* What every reachable state looks like.
TypeOK ==
  /\ pending \subseteq Candidates
  /\ diff \in [Candidates -> {"none", "eligible", "violating", "raised"}]
  /\ queue \in Seq(Candidates)
  /\ work \in [Candidates ->
       [status : WorkStatuses, owner : Supervisors \cup {Nobody}, fence : Nat,
        lease : {"none", "live", "due", "lapsed"}, expected : Seq(Candidates),
        verdict : {"none", "passed", "failed"}, preds : SUBSET Candidates]]
  /\ packets \subseteq Candidates
  /\ head \in [Targets -> Seq(Candidates)]
  /\ ref \in [Targets -> Seq(Candidates)]
  /\ used \subseteq Commands \X Candidates \X Nat
  /\ \A s \in Supervisors :
       /\ doing[s].step \in {"idle", "queue", "rebase", "conflict", "verify", "promote"}
       /\ doing[s].step = "idle" \/ doing[s].cand \in Candidates

Init ==
  /\ pending = {}
  /\ diff = [c \in Candidates |-> "none"]
  /\ queue = <<>>
  /\ work = [c \in Candidates |-> NoWork]
  /\ packets = {}
  /\ head = [t \in Targets |-> <<>>]
  /\ ref = [t \in Targets |-> <<>>]
  /\ used = {}
  /\ doing = [s \in Supervisors |-> Idle]

-----------------------------------------------------------------------------
(* What a tick finds to do, in the order in which it looks.                *)

\* The first integration-pending program, if it has no candidate yet.
Unqueued ==
  {c \in pending : work[c].status = "absent" /\ \A d \in pending : Creation[c] <= Creation[d]}

Lapsed == {c \in In("leased") : work[c].lease \in {"due", "lapsed"}}
Claims == IF Lapsed # {} THEN Lapsed ELSE In("pending")
Mine(s) == {c \in In("leased") : work[c].owner = s /\ work[c].lease = "live"}

CanCompile(c) == work[c].verdict = "passed" /\ head[TargetOf[c]] = work[c].expected

AtClaims(s)    == doing[s] = Idle /\ Unqueued = {}
AtPrepare(s)   == AtClaims(s) /\ Claims = {}
AtVerify(s)    == AtPrepare(s) /\ Mine(s) = {}
AtDecisions(s) == AtVerify(s) /\ In("prepared") = {}
AtPromotion(s) ==
  /\ AtDecisions(s)
  /\ In("verified") # {} => ~ CanCompile(Earliest(In("verified")))

Begin(s, what) == doing' = [doing EXCEPT ![s] = what]
Finish(s, key) ==
  /\ doing' = [doing EXCEPT ![s] = Idle]
  /\ used' = used \cup {key}

\* A command whose key has a receipt is answered from the receipt: it has no effect.
Fresh(key) == key \notin used

-----------------------------------------------------------------------------
(* A program ends and its candidate is queued.                             *)

\* program.advance after the last milestone; portfolio.coordinate admits a
\* program only when those its graph depends on have been promoted.
FinishProgram(c) ==
  /\ c \notin pending /\ work[c].status = "absent"
  /\ \A d \in Needs[c] : work[d].status = "promoted"
  /\ pending' = pending \cup {c}
  /\ UNCHANGED <<diff, queue, work, packets, head, ref, used, doing>>

\* The paths of the candidate's diff against the work surfaces of its graph.
SurfaceVerdicts(c) == {"eligible"} \cup IF c \in Straying THEN {"violating"} ELSE {}

\* candidate-diff.record, with the surface verdict the kernel recomputes.
RecordDiff(s, c) ==
  /\ doing[s] = Idle /\ c \in Unqueued /\ diff[c] = "none"
  /\ \E verdict \in SurfaceVerdicts(c) : diff' = [diff EXCEPT ![c] = verdict]
  /\ UNCHANGED <<pending, queue, work, packets, head, ref, used, doing>>

\* issue.raise for a candidate that leaves its surfaces; then nothing is left to do.
RaiseViolation(s, c) ==
  /\ doing[s] = Idle /\ c \in Unqueued /\ diff[c] = "violating"
  /\ diff' = [diff EXCEPT ![c] = "raised"]
  /\ UNCHANGED <<pending, queue, work, packets, head, ref, used, doing>>

ReadQueue(s, c) ==
  /\ doing[s] = Idle /\ c \in Unqueued /\ diff[c] = "eligible"
  /\ Begin(s, [Idle EXCEPT !.step = "queue", !.cand = c, !.preds = Overlapping(c)])
  /\ UNCHANGED <<pending, diff, queue, work, packets, head, ref, used>>

\* Fault (PredecessorsPrecede): the predecessors are taken from the supervisor.
TrustingQueue(s) ==
  LET c == doing[s].cand key == Key("queue", c, 0) IN
  /\ doing[s].step = "queue"
  /\ Finish(s, key)
  /\ IF /\ Fresh(key)
        /\ work[c].status = "absent"
        /\ Cardinality(Ready) < MaxReady
     THEN /\ work' = [work EXCEPT ![c].status = "pending", ![c].preds = doing[s].preds]
          /\ queue' = Append(queue, c)
     ELSE UNCHANGED <<work, queue>>
  /\ UNCHANGED <<pending, diff, packets, head, ref>>

\* integration-candidate.queue: the kernel recomputes the predecessors and
\* counts the ready candidates.
Queue(s) ==
  LET c == doing[s].cand key == Key("queue", c, 0) IN
  /\ doing[s].step = "queue"
  /\ Finish(s, key)
  /\ IF /\ Fresh(key)
        /\ work[c].status = "absent"
        /\ doing[s].preds = Overlapping(c)
        /\ Cardinality(Ready) < MaxReady
     THEN /\ work' = [work EXCEPT ![c].status = "pending", ![c].preds = doing[s].preds]
          /\ queue' = Append(queue, c)
     ELSE UNCHANGED <<work, queue>>
  /\ UNCHANGED <<pending, diff, packets, head, ref>>

-----------------------------------------------------------------------------
(* The lease of a piece of work.                                           *)

Claimable(c) ==
  \/ work[c].status = "pending"
  \/ work[c].status = "leased" /\ work[c].lease \in {"due", "lapsed"}

IsNext(c) ==
  \A d \in Unfinished : TargetOf[d] = TargetOf[c] => Admission[c] <= Admission[d]

TargetBusy(c) ==
  \E d \in In("leased") \ {c} : work[d].lease = "live" /\ TargetOf[d] = TargetOf[c]

CanLease(c) ==
  /\ Claimable(c)
  /\ \A d \in work[c].preds \cup Needs[c] : work[d].status = "promoted"
  /\ IsNext(c)
  /\ ~ TargetBusy(c)

\* integration-work.lease.acquire for the first work that waits, with the fence
\* that comes next as its key: a refusal is remembered under that key.
AcquireWork(s) ==
  /\ AtClaims(s) /\ Claims # {}
  /\ LET c == First(Claims) key == Key("lease", c, work[c].fence + 1) IN
     /\ Fresh(key)
     /\ used' = used \cup {key}
     /\ work' = IF ~ CanLease(c) THEN work
                ELSE [work EXCEPT ![c] = [@ EXCEPT !.status = "leased", !.owner = s,
                                                   !.fence = work[c].fence + 1, !.lease = "live"]]
  /\ UNCHANGED <<pending, diff, queue, packets, head, ref, doing>>

-----------------------------------------------------------------------------
(* Rebase and verification.                                                *)

\* prepareIntegrationRevision: refuses a ref that is not at the recorded head;
\* on the initial head the candidate needs no merge.
Rebase(s) ==
  /\ AtPrepare(s) /\ Mine(s) # {}
  /\ LET c == First(Mine(s)) h == head[TargetOf[c]] IN
     /\ ref[TargetOf[c]] = h
     /\ \E merge \in {"rebase"} \cup IF \E d \in Contents(h) : {c, d} \in Clashes
                                  THEN {"conflict"} ELSE {} :
          Begin(s, [Idle EXCEPT !.step = merge, !.cand = c, !.fence = work[c].fence, !.seen = h])
  /\ UNCHANGED <<pending, diff, queue, work, packets, head, ref, used>>

HoldsWork(s, c) == work[c].owner = s /\ work[c].fence = doing[s].fence

\* integration-work.prepare: still accepted at the instant the lease expires.
Prepare(s) ==
  LET c == doing[s].cand h == doing[s].seen key == HeadKey("prepare", c, h) IN
  /\ doing[s].step = "rebase"
  /\ Finish(s, key)
  /\ work' = IF /\ Fresh(key)
               /\ work[c].status = "leased" /\ HoldsWork(s, c)
               /\ work[c].lease \in {"live", "due"}
               /\ head[TargetOf[c]] = h
             THEN [work EXCEPT ![c].status = "prepared", ![c].expected = h]
             ELSE work
  /\ UNCHANGED <<pending, diff, queue, packets, head, ref>>

\* integration-work.conflict
RecordConflict(s) ==
  LET c == doing[s].cand h == doing[s].seen key == HeadKey("conflict", c, h) IN
  /\ doing[s].step = "conflict"
  /\ Finish(s, key)
  /\ work' = IF /\ Fresh(key)
               /\ work[c].status = "leased" /\ HoldsWork(s, c) /\ work[c].lease = "live"
             THEN [work EXCEPT ![c] = [@ EXCEPT !.status = "conflicted", !.owner = Nobody,
                                                !.lease = "none"]]
             ELSE work
  /\ UNCHANGED <<pending, diff, queue, packets, head, ref>>

\* The verifier runs on the first prepared work, whoever prepared it.
RunVerifier(s) ==
  /\ AtVerify(s) /\ In("prepared") # {}
  /\ LET c == First(In("prepared")) IN
     Begin(s, [Idle EXCEPT !.step = "verify", !.cand = c, !.fence = work[c].fence,
                           !.seen = work[c].expected])
  /\ UNCHANGED <<pending, diff, queue, work, packets, head, ref, used>>

CanVerify(s, c) ==
  /\ work[c].status = "prepared" /\ HoldsWork(s, c) /\ work[c].lease = "live"
  /\ work[c].expected = doing[s].seen
  /\ head[TargetOf[c]] = work[c].expected

Outcomes(c) == IF c \in Sound THEN {"passed"} ELSE {"passed", "failed"}

\* integration-work.verify
Verify(s, outcome) ==
  LET c == doing[s].cand key == HeadKey("verify", c, doing[s].seen) IN
  /\ doing[s].step = "verify" /\ outcome \in Outcomes(c)
  /\ Finish(s, key)
  /\ work' = IF ~ (Fresh(key) /\ CanVerify(s, c)) THEN work
             ELSE [work EXCEPT ![c] =
                     [@ EXCEPT !.status = IF outcome = "passed" THEN "verified" ELSE "failed",
                               !.verdict = outcome, !.owner = Nobody, !.lease = "none"]]
  /\ UNCHANGED <<pending, diff, queue, packets, head, ref>>

-----------------------------------------------------------------------------
(* The decision of the operator and the promotion.                         *)

\* The request, its evidence, the packet and a page for it: one packet a candidate.
Opened(c) == packets \cup {c}

\* The disposition, the action result, the resolution and the precedent.
Decided(c) == packets \ {c}

Authorized(c) == [work EXCEPT ![c].status = "authorized"]

\* integration-decision.compile for the earliest candidate that was verified.
\* While its packet is open nothing else is done.
CompileDecision(s) ==
  /\ AtDecisions(s) /\ In("verified") # {}
  /\ LET c == Earliest(In("verified")) IN
     /\ CanCompile(c)
     /\ packets' = Opened(c)
  /\ UNCHANGED <<pending, diff, queue, work, head, ref, used, doing>>

\* decision.integrate, by the operator: only for the head that was verified.
Integrate(c) ==
  /\ c \in packets
  /\ work[c].status = "verified" /\ work[c].verdict = "passed"
  /\ head[TargetOf[c]] = work[c].expected
  /\ packets' = Decided(c)
  /\ work' = Authorized(c)
  /\ UNCHANGED <<pending, diff, queue, head, ref, used, doing>>

\* The receipt of the promotion that the tick is about to send.
Promoting(c) == [Idle EXCEPT !.step = "promote", !.cand = c, !.seen = work[c].expected]

\* Fault (ImplementsManagedRef): the ref is set, not compared and set.
OverwriteRef(s) ==
  /\ AtPromotion(s) /\ In("authorized") # {}
  /\ LET c == First(In("authorized")) IN
     /\ ref' = [ref EXCEPT ![TargetOf[c]] = Rebased(c)]
     /\ Begin(s, Promoting(c))
  /\ UNCHANGED <<pending, diff, queue, work, packets, head, used>>

\* Fault (RefIsRecordable): the receipt is sent before the ref has moved.
RecordFirst(s) ==
  /\ AtPromotion(s) /\ In("authorized") # {}
  /\ LET c == First(In("authorized")) IN
     Begin(s, Promoting(c))
  /\ UNCHANGED <<pending, diff, queue, work, packets, head, ref, used>>

\* promoteIntegrationRef: compare and set, or nothing when the ref is there
\* already.  Any other ref makes the tick throw.
MoveRef(s) ==
  /\ AtPromotion(s) /\ In("authorized") # {}
  /\ LET c == First(In("authorized")) t == TargetOf[c] IN
     /\ ref[t] \in {Rebased(c), work[c].expected}
     /\ ref' = [ref EXCEPT ![t] = Rebased(c)]
     /\ Begin(s, Promoting(c))
  /\ UNCHANGED <<pending, diff, queue, work, packets, head, used>>

\* integration.promote.record
RecordPromotion(s) ==
  LET c == doing[s].cand t == TargetOf[c] key == Key("promote", c, 0) IN
  /\ doing[s].step = "promote"
  /\ Finish(s, key)
  /\ IF Fresh(key) /\ work[c].status = "authorized" /\ head[t] = doing[s].seen
     THEN /\ head' = [head EXCEPT ![t] = Rebased(c)]
          /\ work' = [work EXCEPT ![c].status = "promoted"]
          /\ pending' = pending \ {c}
     ELSE UNCHANGED <<head, work, pending>>
  /\ UNCHANGED <<diff, queue, packets, ref>>

-----------------------------------------------------------------------------
\* A supervisor process ends between the read and the command.
Die(s) ==
  /\ s \in Mortal /\ doing[s] # Idle
  /\ doing' = [doing EXCEPT ![s] = Idle]
  /\ UNCHANGED <<pending, diff, queue, work, packets, head, ref, used>>

\* The instant of leaseExpiresAt, and after it.
TimePasses(c) ==
  /\ work[c].lease \in {"live", "due"} /\ work[c].fence <= LeaseLosses
  /\ work' = [work EXCEPT ![c].lease = IF @ = "live" THEN "due" ELSE "lapsed"]
  /\ UNCHANGED <<pending, diff, queue, packets, head, ref, used, doing>>

Tick(s) ==
  \/ \E c \in Candidates : RecordDiff(s, c) \/ RaiseViolation(s, c) \/ ReadQueue(s, c)
  \/ Queue(s) \/ AcquireWork(s)
  \/ Rebase(s) \/ Prepare(s) \/ RecordConflict(s)
  \/ RunVerifier(s) \/ \E outcome \in {"passed", "failed"} : Verify(s, outcome)
  \/ CompileDecision(s) \/ MoveRef(s) \/ RecordPromotion(s)

Next ==
  \/ \E c \in Candidates : FinishProgram(c) \/ Integrate(c) \/ TimePasses(c)
  \/ \E s \in Supervisors : Tick(s) \/ Die(s)

Spec == Init /\ [][Next]_vars

-----------------------------------------------------------------------------
(* What must hold.                                                         *)

\* Each candidate in the head of a target passed its verification on exactly the
\* head it was appended to, however many were rebased at once, whichever
\* supervisor died or was fenced off in between.
LineageIsVerified ==
  \A t \in Targets : \A i \in DOMAIN head[t] :
    LET c == head[t][i] IN
    /\ TargetOf[c] = t /\ work[c].status = "promoted" /\ work[c].verdict = "passed"
    /\ work[c].expected = SubSeq(head[t], 1, i - 1)

\* A candidate integrated on a target contains every earlier admitted candidate
\* of the target that it overlaps and that was queued before it, and comes after
\* whatever its program depends on.
PredecessorsPrecede ==
  \A c \in In("promoted") :
    /\ \A d \in Needs[c] : work[d].status = "promoted"
    /\ \A i, k \in DOMAIN queue :
         /\ queue[k] = c /\ i < k
         /\ TargetOf[queue[i]] = TargetOf[c] /\ Admission[queue[i]] < Admission[c]
         /\ {c, queue[i]} \in Overlaps
         => queue[i] \in Contents(work[c].expected)

\* A ref that is ahead of the kernel's head shows an authorized candidate whose
\* receipt the kernel will still accept: nothing that happens after the ref has
\* moved, a death least of all, can make the promotion unrecordable.
RefIsRecordable ==
  \A t \in Targets : ref[t] # head[t] =>
    \E c \in In("authorized") :
      /\ TargetOf[c] = t /\ ref[t] = Rebased(c) /\ work[c].expected = head[t]
      /\ Fresh(Key("promote", c, 0))

\* At most one live lease on a target: no two supervisors rebase onto the same head.
OneRebaseAtATime ==
  \A c, d \in In("leased") :
    c # d /\ TargetOf[c] = TargetOf[d] => ~ (work[c].lease = "live" /\ work[d].lease = "live")

\* integration.lease and integration.rebase.prepare: the lane never works twice
\* on a head, and what it promotes was verified on the head it is promoted onto.
LaneInv == TypeOK /\ OneRebaseAtATime /\ LineageIsVerified

Managed == INSTANCE ManagedRef

\* Each target is a managed ref: it only grows, and the record follows the ref.
ImplementsManagedRef == Managed!Spec
=============================================================================
