-------------------------- MODULE DeliveryProofs ---------------------------
(***************************************************************************)
(* Proofs about what is delivered to the outside, for any number of        *)
(* whatever it is: effects on GitHub (OutboundEffects), for any policies,  *)
(* workers and processes, and pages to the operator (Attention), for any   *)
(* sources, packets, compilers and pagers.                                 *)
(***************************************************************************)
EXTENDS OutboundEffects, Attention, FiniteSetTheorems, SequenceTheorems, WellFoundedInduction, TLAPS

-----------------------------------------------------------------------------
(* Effects on GitHub: the inductive invariant.                             *)

\* How many workers are at an effect.
AtWork(e) == {v \in Workers : worker[v].effect = e}
Load == [e \in Effects |-> Cardinality(AtWork(e))]

\* A worker at work has one of its effects.
HandlesOK ==
  \A w \in Workers : worker[w].step # "idle" => worker[w].effect \in Handles[w]

\* Observe leaves room for the failure of every worker there is.
CountOK ==
  \A e \in Effects : effect[e].failures + Load[e] <= MaxFailures

\* A worker that goes on to write or to record was authorized, and what a method
\* of the authority has replayed is what the log still says.
Authorized == {"perform", "confirm", "record", "recording"}
UpToDate(r) ==
  /\ r.step \in Authorized => effect[r.effect].status # "none"
  /\ r.step \in Replayed =>
       LET p == PolicyOf[r.effect]
       IN /\ r.prior = effect[r.effect]
          /\ r.active => promotion[p] # "none"
          /\ r.prior.status # "none" /\ ~r.active => promotion[p] = "suspended"

\* What is never made twice, and what a write alone makes as it is asked for.
MadeOnce == Exclusive \cup Unmarked
ShownOK == \A e \in Effects : e \in shown /\ e \notin Unmarked => writes[e] > 0

\* What a worker believes of GitHub is so as far as it acts on it.
Sees(r) ==
  LET e == r.effect
  IN /\ r.step \in {"authorize", "authorizing"} =>
          IF r.exact THEN e \in shown ELSE e \in MadeOnce \/ live[e] = "absent"
     /\ r.step = "perform" => e \in MadeOnce \/ live[e] = "absent"
     /\ r.step \in {"record", "recording"} => e \in shown

PriorOK == \A w \in Workers : UpToDate(worker[w])
SeenOK == \A w \in Workers : Sees(worker[w])

\* Nothing is recorded of an effect before its policy is promoted, and a receipt
\* is the last word.
LogOK ==
  \A e \in Effects :
    /\ effect[e].receipt => effect[e].status = "delivered"
    /\ effect[e].status # "none" => promotion[PolicyOf[e]] # "none"

Inv == /\ EffectTypes /\ HandlesOK /\ CountOK /\ PriorOK /\ SeenOK /\ ShownOK /\ LogOK
       /\ PostedOnce /\ ReceiptsAreEvidence /\ FailuresSuspend

LEMMA InvInit == EffectInit => Inv
<1> SUFFICES ASSUME EffectInit PROVE Inv
  OBVIOUS
<1>1. \A e \in Effects : AtWork(e) = {}
  BY OutboundAssumption DEF EffectInit, AtWork, Idle
<1>2. NoEffect \in EffectRecord /\ Idle \in WorkerRecord
  BY OutboundAssumption DEF NoEffect, Idle, EffectRecord, WorkerRecord
<1>3. EffectTypes
  <2>1. Idle.step = "idle" /\ NoEffect.status = "none"
    BY DEF Idle, NoEffect
  <2> QED
    BY <1>2, <2>1, OutboundAssumption DEF EffectInit, EffectTypes
<1>4. CountOK
  <2>1. \A e \in Effects : Load[e] = 0
    BY <1>1, FS_EmptySet DEF Load
  <2>2. \A e \in Effects : effect[e].failures = 0
    BY DEF EffectInit, NoEffect
  <2> QED
    BY <2>1, <2>2, OutboundAssumption DEF CountOK
<1>5. \A w \in Workers : worker[w].step = "idle"
  BY DEF EffectInit, Idle
<1>6. HandlesOK /\ PriorOK /\ SeenOK
  BY <1>5 DEF HandlesOK, PriorOK, SeenOK, UpToDate, Sees, Replayed, Authorized
<1>7. \A e \in Effects : effect[e] = NoEffect /\ writes[e] = 0 /\ removals[e] = 0
  BY DEF EffectInit
<1>8. LogOK /\ PostedOnce /\ ReceiptsAreEvidence /\ FailuresSuspend
  BY <1>7, OutboundAssumption DEF LogOK, PostedOnce, There, ReceiptsAreEvidence, FailuresSuspend, NoEffect
<1>9. ShownOK
  BY DEF EffectInit, MayBe, ShownOK
<1> QED
  BY <1>3, <1>4, <1>6, <1>8, <1>9 DEF Inv

-----------------------------------------------------------------------------
(* How many work at an effect.                                             *)

\* r is a worker's record, at an effect of its own or idle.
IsRecordOf(r, w) ==
  /\ r \in WorkerRecord
  /\ r.step = "idle" <=> r = Idle
  /\ r.step # "idle" => r.effect \in Handles[w]

LEMMA RecordsOf ==
  ASSUME Inv, NEW w \in Workers
  PROVE  /\ IsRecordOf(worker[w], w) /\ UpToDate(worker[w]) /\ Sees(worker[w])
         /\ worker[w].step # "idle" => worker[w].effect \in Effects /\ worker[w].effect # NoKey
<1>1. IsRecordOf(worker[w], w)
  BY DEF Inv, EffectTypes, HandlesOK, IsRecordOf
<1>2. UpToDate(worker[w]) /\ Sees(worker[w])
  BY DEF Inv, PriorOK, SeenOK
<1> QED
  BY <1>1, <1>2, OutboundAssumption DEF IsRecordOf

\* The workers there are, and so those at work, are finitely many.
LEMMA AtWorkFinite ==
  ASSUME NEW e \in Effects
  PROVE  IsFiniteSet(AtWork(e)) /\ Cardinality(AtWork(e)) \in Nat /\ Load[e] \in Nat
<1>1. IsFiniteSet(AtWork(e))
  BY FS_Subset, OutboundAssumption DEF AtWork
<1> QED
  BY <1>1, FS_CardinalityType DEF Load

\* A worker that keeps its effect changes no count, one that returns lowers that
\* of its effect.
LEMMA AtWorkSteps ==
  ASSUME Inv, NEW w \in Workers, NEW r, IsRecordOf(r, w),
         worker' = [worker EXCEPT ![w] = r], r.effect \in {worker[w].effect, NoKey}
  PROVE  \A e \in Effects :
           /\ Load'[e] \in Nat /\ Load'[e] <= Load[e]
           /\ worker[w].effect = e /\ r.effect = NoKey => Load'[e] = Load[e] - 1
<1> TAKE e \in Effects
<1>0. e # NoKey /\ worker \in [Workers -> WorkerRecord] /\ r \in WorkerRecord
  BY OutboundAssumption DEF Inv, EffectTypes, IsRecordOf
<1>1. AtWork(e)' = IF r.effect = e \/ worker[w].effect # e THEN AtWork(e) ELSE AtWork(e) \ {w}
  BY <1>0 DEF AtWork
<1>2. Cardinality(AtWork(e) \ {w}) =
        IF w \in AtWork(e) THEN Cardinality(AtWork(e)) - 1 ELSE Cardinality(AtWork(e))
  BY AtWorkFinite, FS_RemoveElement
<1>3. worker[w].effect = e => w \in AtWork(e)
  BY DEF AtWork
<1>4. IsFiniteSet(AtWork(e)')
  BY <1>1, AtWorkFinite, FS_RemoveElement
<1>5. Cardinality(AtWork(e)') \in Nat
  BY <1>4, FS_CardinalityType
<1> QED
  <2>1. Load'[e] = Cardinality(AtWork(e)') /\ Load[e] = Cardinality(AtWork(e))
    BY DEF Load
  <2> QED
    BY <1>0, <1>1, <1>2, <1>3, <1>5, <2>1, AtWorkFinite

\* A worker that returns claims nothing.
LEMMA IdleRecord ==
  ASSUME NEW w \in Workers
  PROVE  IsRecordOf(Idle, w) /\ UpToDate(Idle) /\ Sees(Idle) /\ Idle.effect = NoKey
<1>1. Idle.step = "idle" /\ Idle.effect = NoKey
  BY DEF Idle
<1>2. Idle \in WorkerRecord
  BY OutboundAssumption DEF Idle, NoEffect, WorkerRecord, EffectRecord
<1> QED
  BY <1>1, <1>2 DEF IsRecordOf, UpToDate, Sees, Replayed, Authorized

-----------------------------------------------------------------------------
(* Steps of a worker.                                                      *)

LEMMA WorkerUpdated ==
  ASSUME Inv, NEW w \in Workers, NEW r, IsRecordOf(r, w), worker' = [worker EXCEPT ![w] = r]
  PROVE  /\ worker' \in [Workers -> WorkerRecord]
         /\ \A v \in Workers : worker'[v].step = "idle" <=> worker'[v] = Idle
         /\ HandlesOK'
         /\ worker'[w] = r /\ \A v \in Workers \ {w} : worker'[v] = worker[v]
<1>1. worker \in [Workers -> WorkerRecord]
  BY DEF Inv, EffectTypes
<1>2. worker'[w] = r /\ \A v \in Workers \ {w} : worker'[v] = worker[v]
  BY <1>1
<1>3. \A v \in Workers : IsRecordOf(worker'[v], v)
  BY <1>2, RecordsOf
<1>4. HandlesOK'
  BY <1>3 DEF HandlesOK, IsRecordOf
<1>5. worker' \in [Workers -> WorkerRecord]
  BY <1>1 DEF IsRecordOf
<1> QED
  BY <1>2, <1>3, <1>4, <1>5 DEF IsRecordOf

\* A step that changes the worker alone, and brings it to no other effect.
LEMMA LocalStep ==
  ASSUME Inv, NEW w \in Workers, NEW r, IsRecordOf(r, w), UpToDate(r), Sees(r),
         r.effect \in {worker[w].effect, NoKey}, worker' = [worker EXCEPT ![w] = r],
         UNCHANGED <<authority, github, known, events>>
  PROVE  Inv'
<1> USE DEF authority, github
<1>1. EffectTypes' /\ HandlesOK'
  BY WorkerUpdated DEF Inv, EffectTypes
<1>2. CountOK'
  <2> SUFFICES ASSUME NEW e \in Effects
               PROVE  effect[e].failures + Load'[e] <= MaxFailures
    BY DEF CountOK
  <2>1. effect[e].failures + Load[e] <= MaxFailures /\ effect[e].failures \in Nat
    BY DEF Inv, CountOK, EffectTypes, EffectRecord
  <2>2. Load'[e] \in Nat /\ Load'[e] <= Load[e]
    BY AtWorkSteps
  <2> QED
    BY <2>1, <2>2, AtWorkFinite, OutboundAssumption
<1>3. PriorOK' /\ SeenOK'
  <2>1. \A v \in Workers : UpToDate(worker'[v]) /\ Sees(worker'[v])
    BY WorkerUpdated, RecordsOf
  <2> QED
    BY <2>1 DEF PriorOK, SeenOK, UpToDate, Sees
<1>4. ShownOK' /\ LogOK' /\ PostedOnce' /\ ReceiptsAreEvidence' /\ FailuresSuspend'
  BY DEF Inv, ShownOK, LogOK, PostedOnce, There, ReceiptsAreEvidence, FailuresSuspend
<1> QED
  BY <1>1, <1>2, <1>3, <1>4 DEF Inv

\* One more failure of an effect is that of the worker that leaves it.
LEMMA AppendCount ==
  ASSUME Inv, NEW w \in Workers, NEW r, NEW x, NEW e \in Effects, e = worker[w].effect,
         IsRecordOf(r, w), r.effect \in {worker[w].effect, NoKey},
         worker' = [worker EXCEPT ![w] = r], effect' = [effect EXCEPT ![e] = x],
         x.failures \in Nat,
         x.failures <= effect[e].failures + (IF r = Idle THEN 1 ELSE 0)
  PROVE  Load'[e] \in Nat /\ CountOK'
<1>1. \A f \in Effects :
        /\ Load'[f] \in Nat /\ Load'[f] <= Load[f]
        /\ worker[w].effect = f /\ r.effect = NoKey => Load'[f] = Load[f] - 1
  BY AtWorkSteps
<1>2. ASSUME NEW f \in Effects
      PROVE  effect'[f].failures + Load'[f] <= MaxFailures
  <2>1. effect[f].failures + Load[f] <= MaxFailures /\ effect[f].failures \in Nat
    BY DEF Inv, CountOK, EffectTypes, EffectRecord
  <2>2. effect'[f] = IF f = e THEN x ELSE effect[f]
    BY DEF Inv, EffectTypes
  <2>3. r = Idle => r.effect = NoKey
    BY DEF Idle
  <2>4. Load[f] \in Nat /\ MaxFailures \in Nat
    BY AtWorkFinite, OutboundAssumption
  <2> QED
    BY <1>1, <2>1, <2>2, <2>3, <2>4
<1> QED
  BY <1>1, <1>2 DEF CountOK

\* An append to the log by a method that has replayed it: x is what the log now
\* says of the effect.
LEMMA AppendStep ==
  ASSUME Inv, EffectsAreLocal, NEW w \in Workers, NEW r, NEW x,
         NEW e \in Effects, e = worker[w].effect,
         worker[w].step \in Replayed, Alone(w),
         IsRecordOf(r, w), r.step \notin Replayed, Sees(r), r.effect \in {worker[w].effect, NoKey},
         worker' = [worker EXCEPT ![w] = r],
         effect' = [effect EXCEPT ![e] = x],
         x \in [status: {"authorized", "delivered", "failed"}, receipt: BOOLEAN, failures: Nat],
         x.failures <= effect[e].failures + (IF r = Idle THEN 1 ELSE 0),
         x.receipt <=> x.status = "delivered",
         x.receipt => e \in shown,
         promotion' \in [Policies -> {"none", "active", "suspended"}],
         promotion'[PolicyOf[e]] # "none",
         \A p \in Policies : promotion'[p] = promotion[p] \/ (promotion[p] # "none" /\ promotion'[p] = "suspended"),
         x.status = "failed" \/ x.failures >= Threshold =>
           promotion'[PolicyOf[e]] = "suspended",
         known' \in [Processes -> SUBSET Effects],
         \A f \in Effects : (\E p \in Processes : f \in known'[p]) => effect'[f].status = "delivered",
         UNCHANGED <<expired, github, events>>
  PROVE  Inv'
<1> USE DEF github
<1>0. /\ e # NoKey /\ worker[w].step # "idle" /\ e \in Handles[w]
      /\ effect \in [Effects -> EffectRecord] /\ worker \in [Workers -> WorkerRecord]
      /\ writes \in [Effects -> Nat] /\ r \in WorkerRecord
  BY RecordsOf DEF IsRecordOf, Replayed, Inv, EffectTypes, HandlesOK
<1>1. effect'[e] = x /\ \A f \in Effects \ {e} : effect'[f] = effect[f]
  BY <1>0
<1>2. Load'[e] \in Nat /\ CountOK'
  BY AppendCount
<1>3. effect' \in [Effects -> EffectRecord]
  <2>1. x.failures <= MaxFailures
    <3>1. effect'[e].failures + Load'[e] <= MaxFailures
      BY <1>2 DEF CountOK
    <3> QED
      BY <1>1, <1>2, <3>1, OutboundAssumption
  <2>2. x \in EffectRecord
    BY <2>1, OutboundAssumption DEF EffectRecord
  <2> QED
    BY <1>0, <2>2
<1>4. EffectTypes' /\ HandlesOK'
  <2>1. \A f \in Effects : /\ effect'[f].status = "none" => effect'[f] = NoEffect
                           /\ effect'[f].status = "delivered" => effect'[f].receipt
    BY <1>1 DEF Inv, EffectTypes
  <2>2. /\ live' \in [Effects -> {"absent", "exact", "conflict"}] /\ shown' \subseteq Effects
        /\ writes' \in [Effects -> Nat] /\ removals' \in [Effects -> Nat]
        /\ \A f \in Effects : live'[f] = "exact" => f \in shown'
        /\ expired' \subseteq Policies /\ events' \in 0..MaxEvents
    BY DEF Inv, EffectTypes
  <2> QED
    BY <2>1, <2>2, <1>3, WorkerUpdated DEF EffectTypes
<1>5. PriorOK'
  <2> SUFFICES ASSUME NEW v \in Workers, worker'[v].step \in Replayed \cup Authorized
               PROVE  UpToDate(worker[v])'
    BY DEF PriorOK, UpToDate
  <2>1. CASE v = w
    <3>1. worker'[v] = r
      BY <2>1, WorkerUpdated
    <3>2. r.step # "idle"
      BY <3>1 DEF Replayed, Authorized
    <3>3. r.effect # NoKey
      BY <3>2, OutboundAssumption DEF IsRecordOf
    <3> QED
      BY <1>1, <3>1, <3>3 DEF UpToDate
  <2>2. CASE v # w
    <3>1. worker'[v] = worker[v]
      BY <2>2, WorkerUpdated
    <3>2. worker[v].effect \in Effects /\ worker[v].effect \in Handles[v]
      BY <3>1, RecordsOf DEF Replayed, Authorized, IsRecordOf
    <3>3. worker[v].effect = e => worker[v].step \notin Replayed
      BY <2>2, <3>2, <1>0 DEF EffectsAreLocal, Alone
    <3>4. UpToDate(worker[v]) /\ PolicyOf[worker[v].effect] \in Policies
      BY <3>2, RecordsOf, OutboundAssumption
    <3>5. CASE worker[v].effect = e
      BY <1>1, <3>1, <3>3, <3>5 DEF UpToDate
    <3>6. CASE worker[v].effect # e
      <4>1. effect'[worker[v].effect] = effect[worker[v].effect]
        BY <1>1, <3>2, <3>6
      <4> QED
        BY <3>1, <3>4, <4>1 DEF UpToDate
    <3> QED
      BY <3>5, <3>6
  <2> QED
    BY <2>1, <2>2
<1>6. SeenOK'
  BY WorkerUpdated, RecordsOf DEF SeenOK, Sees
<1>7. ShownOK' /\ LogOK' /\ PostedOnce' /\ ReceiptsAreEvidence' /\ FailuresSuspend'
  <2>1. \A f \in Effects : PolicyOf[f] \in Policies
    BY OutboundAssumption
  <2> QED
    BY <1>0, <1>1, <2>1 DEF Inv, ShownOK, LogOK, PostedOnce, There, ReceiptsAreEvidence, FailuresSuspend
<1> QED
  BY <1>2, <1>4, <1>5, <1>6, <1>7 DEF Inv

-----------------------------------------------------------------------------
(* The actions.                                                            *)

LEMMA MovesOn ==
  ASSUME Inv, NEW w \in Workers, worker[w].step # "idle",
         NEW r \in WorkerRecord, r.effect = worker[w].effect, r.step # "idle"
  PROVE  IsRecordOf(r, w)
<1>1. Idle.step = "idle"
  BY DEF Idle
<1> QED
  BY <1>1, RecordsOf DEF IsRecordOf

LEMMA ThrowsStep ==
  ASSUME Inv, NEW w \in Workers, worker[w].step # "idle", NEW retryable \in BOOLEAN,
         Throws(w, retryable), UNCHANGED <<authority, github, known, events>>
  PROVE  Inv'
<1> DEFINE r == [worker[w] EXCEPT !.step = "fail", !.retryable = retryable]
<1>1. worker[w] \in WorkerRecord
  BY RecordsOf DEF IsRecordOf
<1>2. r \in WorkerRecord /\ r.effect = worker[w].effect /\ r.step = "fail"
  BY <1>1 DEF WorkerRecord, Methods
<1>3. worker' = [worker EXCEPT ![w] = r]
  BY DEF Throws
<1>4. IsRecordOf(r, w)
  <2> HIDE DEF r
  <2> QED
    BY <1>2, MovesOn
<1> HIDE DEF r
<1>5. UpToDate(r) /\ Sees(r)
  BY <1>2 DEF UpToDate, Sees, Replayed, Authorized
<1> QED
  BY <1>2, <1>3, <1>4, <1>5, LocalStep

LEMMA ReturnsStep ==
  ASSUME Inv, NEW w \in Workers, Returns(w), UNCHANGED <<authority, github, known, events>>
  PROVE  Inv'
<1>1. worker' = [worker EXCEPT ![w] = Idle]
  BY DEF Returns
<1> QED
  BY <1>1, IdleRecord, LocalStep

LEMMA ObserveStep ==
  ASSUME Inv, NEW w \in Workers, NEW e \in Effects, Observe(w, e)
  PROVE  Inv'
<1> USE DEF authority, github
<1>1. PICK step \in {"fail", "authorize"}, retryable \in BOOLEAN :
        /\ Seen(w, e, step, retryable)
        /\ step = "authorize" => live[e] # "conflict"
  BY DEF Observe
<1>2. /\ worker[w].step = "idle" /\ e \in Handles[w]
      /\ effect[e].failures + Load[e] < MaxFailures
      /\ UNCHANGED <<promotion, expired, effect, github, known, events>>
  BY DEF Observe, At, Load, AtWork
<1>3. worker[w] = Idle /\ worker \in [Workers -> WorkerRecord] /\ e # NoKey
  BY <1>2, OutboundAssumption DEF Inv, EffectTypes
<1> DEFINE r == [Idle EXCEPT !.step = step, !.effect = e,
                             !.exact = live[e] = "exact", !.retryable = retryable]
<1>4. /\ r \in WorkerRecord /\ r.step = step /\ r.effect = e
      /\ r.exact = (live[e] = "exact")
  BY IdleRecord DEF WorkerRecord, Methods, Idle, IsRecordOf
<1>5. worker' = [worker EXCEPT ![w] = r]
  BY <1>1 DEF Seen
<1> HIDE DEF r
<1>6. IsRecordOf(r, w)
  BY <1>2, <1>4 DEF IsRecordOf, Idle
<1>7. UpToDate(r)
  BY <1>4 DEF UpToDate, Replayed, Authorized
<1>8. Sees(r)
  <2>1. r.exact => live[e] = "exact"
    BY <1>4
  <2>2. ~r.exact => live[e] # "exact"
    BY <1>4
  <2>3. /\ live[e] \in {"absent", "exact", "conflict"}
        /\ live[e] = "exact" => e \in shown
    BY DEF Inv, EffectTypes
  <2> QED
    BY <1>1, <1>4, <2>1, <2>2, <2>3 DEF Sees
<1>9. EffectTypes' /\ HandlesOK'
  BY <1>2, <1>5, <1>6, WorkerUpdated DEF Inv, EffectTypes
<1>10. CountOK'
  <2>1. \A f \in Effects : Load'[f] = Load[f] + (IF f = e THEN 1 ELSE 0)
    <3> TAKE f \in Effects
    <3>1. w \notin AtWork(f)
      BY <1>3, IdleRecord, OutboundAssumption DEF AtWork
    <3>2. AtWork(f)' = IF f = e THEN AtWork(f) \cup {w} ELSE AtWork(f)
      BY <1>3, <1>4, <1>5, IdleRecord, OutboundAssumption DEF AtWork
    <3>3. Cardinality(AtWork(f) \cup {w}) = Cardinality(AtWork(f)) + 1
      BY <3>1, AtWorkFinite, FS_AddElement
    <3>4. Load'[f] = Cardinality(AtWork(f)') /\ Load[f] = Cardinality(AtWork(f))
      BY DEF Load
    <3> QED
      BY <3>2, <3>3, <3>4, AtWorkFinite
  <2>2. ASSUME NEW f \in Effects
        PROVE  effect[f].failures + Load'[f] <= MaxFailures
    <3>1. effect[f].failures + Load[f] <= MaxFailures /\ effect[f].failures \in Nat
      BY DEF Inv, CountOK, EffectTypes, EffectRecord
    <3>2. Load[f] \in Nat /\ MaxFailures \in Nat
      BY AtWorkFinite, OutboundAssumption
    <3> QED
      BY <1>2, <2>1, <3>1, <3>2
  <2> QED
    BY <1>2, <2>2 DEF CountOK
<1>11. PriorOK' /\ SeenOK'
  <2>1. \A v \in Workers : UpToDate(worker'[v]) /\ Sees(worker'[v])
    BY <1>5, <1>6, <1>7, <1>8, WorkerUpdated, RecordsOf
  <2> QED
    BY <1>2, <2>1 DEF PriorOK, SeenOK, UpToDate, Sees
<1>12. ShownOK' /\ LogOK' /\ PostedOnce' /\ ReceiptsAreEvidence' /\ FailuresSuspend'
  BY <1>2 DEF Inv, ShownOK, LogOK, PostedOnce, There, ReceiptsAreEvidence, FailuresSuspend
<1> QED
  BY <1>9, <1>10, <1>11, <1>12 DEF Inv

\* A write of what is not there, by a worker that goes on as r.
LEMMA WriteStep ==
  ASSUME Inv, SharedAreMadeOnce, NEW w \in Workers, worker[w].step = "perform",
         NEW e \in Effects, e = worker[w].effect,
         ~(e \in Exclusive /\ live[e] # "absent"), ~(e \in Unmarked /\ live[e] # "absent"),
         Writes(e), NEW r \in WorkerRecord, worker' = [worker EXCEPT ![w] = r],
         r.effect = e, r.step \in {"confirm", "fail"}, IsRecordOf(r, w), UpToDate(r), Sees(r),
         UNCHANGED <<promotion, expired, effect, known, events>>
  PROVE  Inv'
<1>1. live[e] = "absent"
  BY RecordsOf DEF Sees, MadeOnce
<1>2. /\ live' = [live EXCEPT ![e] = "exact"] /\ writes' = [writes EXCEPT ![e] = @ + 1]
      /\ shown' = shown \cup {e} /\ removals' = removals
  BY <1>1 DEF Writes, Inv, EffectTypes
<1>3. /\ live' \in [Effects -> {"absent", "exact", "conflict"}]
      /\ writes' \in [Effects -> Nat] /\ writes[e] \in Nat
      /\ live'[e] = "exact" /\ writes'[e] = writes[e] + 1
      /\ \A f \in Effects \ {e} : live'[f] = live[f] /\ writes'[f] = writes[f]
  BY <1>2 DEF Inv, EffectTypes
<1>4. EffectTypes' /\ HandlesOK'
  <2>1. /\ worker' \in [Workers -> WorkerRecord]
        /\ \A v \in Workers : worker'[v].step = "idle" <=> worker'[v] = Idle
        /\ HandlesOK'
    BY WorkerUpdated
  <2>2. EffectTypes
    BY DEF Inv
  <2> QED
    BY <1>2, <1>3, <2>1, <2>2 DEF EffectTypes
<1>5. CountOK'
  <2>1. \A f \in Effects : Load'[f] \in Nat /\ Load'[f] <= Load[f]
    BY AtWorkSteps
  <2>2. \A f \in Effects : /\ effect[f].failures + Load[f] <= MaxFailures
                           /\ effect[f].failures \in Nat /\ Load[f] \in Nat
    BY AtWorkFinite DEF Inv, CountOK, EffectTypes, EffectRecord
  <2> QED
    BY <2>1, <2>2, OutboundAssumption DEF CountOK
<1>6. PriorOK'
  <2>1. \A v \in Workers : UpToDate(worker'[v])
    BY WorkerUpdated, RecordsOf
  <2> QED
    BY <2>1 DEF PriorOK, UpToDate
<1>7. SeenOK'
  <2> SUFFICES ASSUME NEW v \in Workers PROVE Sees(worker[v])'
    BY DEF SeenOK, Sees
  <2>1. CASE v = w
    BY <2>1, WorkerUpdated DEF Sees
  <2>2. CASE v # w
    <3>1. worker'[v] = worker[v] /\ Sees(worker[v])
      BY <2>2, WorkerUpdated, RecordsOf
    <3>2. CASE worker[v].step \in {"authorize", "authorizing", "perform", "record", "recording"}
      <4>1. worker[v].effect \in Effects /\ worker[v].effect \in Handles[v] /\ e \in Handles[w]
        BY <3>2, RecordsOf DEF IsRecordOf
      <4>2. worker[v].effect = e => e \in MadeOnce
        BY <2>2, <4>1 DEF SharedAreMadeOnce, MadeOnce
      <4>3. CASE worker[v].effect = e
        BY <1>2, <3>1, <4>2, <4>3 DEF Sees, MadeOnce
      <4>4. CASE worker[v].effect # e
        BY <1>2, <1>3, <3>1, <4>1, <4>4 DEF Sees, MadeOnce
      <4> QED
        BY <4>3, <4>4
    <3>3. CASE worker[v].step \notin {"authorize", "authorizing", "perform", "record", "recording"}
      BY <3>1, <3>3 DEF Sees
    <3> QED
      BY <3>2, <3>3
  <2> QED
    BY <2>1, <2>2
<1>8. ShownOK' /\ LogOK' /\ ReceiptsAreEvidence' /\ FailuresSuspend'
  BY <1>2, <1>3 DEF Inv, EffectTypes, ShownOK, LogOK, ReceiptsAreEvidence, FailuresSuspend
<1>9. PostedOnce'
  <2>1. ASSUME NEW f \in Effects
        PROVE  writes'[f] <= removals'[f] + (IF live'[f] = "absent" THEN 0 ELSE 1)
    <3>1. writes[f] <= removals[f] + (IF live[f] = "absent" THEN 0 ELSE 1)
      BY DEF Inv, PostedOnce, There
    <3>2. removals[f] \in Nat
      BY OutboundAssumption DEF Inv, EffectTypes
    <3> QED
      BY <1>1, <1>2, <1>3, <3>1, <3>2
  <2> QED
    BY <2>1 DEF PostedOnce, There
<1> QED
  BY <1>4, <1>5, <1>6, <1>7, <1>8, <1>9 DEF Inv

\* Each write adds one, to an effect that is not there.
LEMMA PerformStep ==
  ASSUME Inv, SharedAreMadeOnce, NEW w \in Workers, Perform(w)
  PROVE  Inv'
<1> USE DEF authority, github
<1>1. /\ worker[w].step = "perform"
      /\ UNCHANGED <<promotion, expired, effect, known, events>>
  BY DEF Perform, At
<1>2. PICK e \in Effects : e = worker[w].effect
  BY <1>1, RecordsOf
<1>3. CASE UNCHANGED github /\ RequestFails(w)
  BY <1>1, <1>3, ThrowsStep DEF RequestFails
<1>4. CASE /\ ~(e \in Exclusive /\ live[e] # "absent")
           /\ Writes(e)
           /\ Goes(w, "confirm") \/ Throws(w, TRUE)
  <2>1. PICK r \in WorkerRecord : /\ worker' = [worker EXCEPT ![w] = r]
                                  /\ r.effect = e /\ r.step \in {"confirm", "fail"}
    <3>1. worker[w] \in WorkerRecord
      BY RecordsOf DEF IsRecordOf
    <3>2. CASE Goes(w, "confirm")
      <4> DEFINE r == [worker[w] EXCEPT !.step = "confirm"]
      <4>1. r \in WorkerRecord /\ r.effect = e /\ r.step = "confirm"
        BY <1>2, <3>1 DEF WorkerRecord
      <4> QED
        BY <3>2, <4>1 DEF Goes
    <3>3. CASE Throws(w, TRUE)
      <4> DEFINE r == [worker[w] EXCEPT !.step = "fail", !.retryable = TRUE]
      <4>1. r \in WorkerRecord /\ r.effect = e /\ r.step = "fail"
        BY <1>2, <3>1 DEF WorkerRecord, Methods
      <4> QED
        BY <3>3, <4>1 DEF Throws
    <3> QED
      BY <1>4, <3>2, <3>3
  <2>2. IsRecordOf(r, w) /\ UpToDate(r) /\ Sees(r)
    <3>1. effect[e].status # "none"
      BY <1>1, <1>2, RecordsOf DEF UpToDate, Authorized
    <3>2. IsRecordOf(r, w)
      BY <1>1, <1>2, <2>1, MovesOn
    <3> QED
      BY <2>1, <3>1, <3>2 DEF UpToDate, Sees, Replayed
  <2>3. CASE e \in Unmarked /\ live[e] # "absent"
    <3>1. UNCHANGED <<authority, github, known, events>>
      BY <1>1, <1>4, <2>3 DEF Writes
    <3> QED
      BY <1>2, <2>1, <2>2, <3>1, LocalStep
  <2>4. CASE ~(e \in Unmarked /\ live[e] # "absent")
    BY <1>1, <1>2, <1>4, <2>1, <2>2, <2>4, WriteStep
  <2> QED
    BY <2>3, <2>4
<1> QED
  BY <1>2, <1>3, <1>4 DEF Perform

LEMMA ConfirmStep ==
  ASSUME Inv, NEW w \in Workers, Confirm(w)
  PROVE  Inv'
<1> DEFINE r == [worker[w] EXCEPT !.step = "record"]
<1>1. worker[w].step = "confirm" /\ UNCHANGED <<authority, github, known, events>>
  BY DEF Confirm, At
<1>2. CASE \E retryable \in BOOLEAN : Throws(w, retryable)
  BY <1>1, <1>2, ThrowsStep
<1>3. CASE live[worker[w].effect] = "exact" /\ Goes(w, "record")
  <2>1. worker[w].effect \in Effects /\ worker[w] \in WorkerRecord
    BY <1>1, RecordsOf DEF IsRecordOf
  <2>2. worker[w].effect \in shown
    BY <1>3, <2>1 DEF Inv, EffectTypes
  <2>3. worker' = [worker EXCEPT ![w] = r] /\ r \in WorkerRecord
        /\ r.effect = worker[w].effect /\ r.step = "record"
    BY <1>3, <2>1 DEF Goes, WorkerRecord, Methods
  <2> HIDE DEF r
  <2>4. IsRecordOf(r, w) /\ UpToDate(r) /\ Sees(r)
    <3>1. effect[worker[w].effect].status # "none"
      BY <1>1, RecordsOf DEF UpToDate, Authorized
    <3>2. IsRecordOf(r, w)
      BY <1>1, <2>3, MovesOn
    <3> QED
      BY <2>2, <2>3, <3>1, <3>2 DEF UpToDate, Sees, Replayed
  <2> QED
    BY <1>1, <2>3, <2>4, LocalStep
<1> QED
  BY <1>2, <1>3 DEF Confirm, RequestFails

LEMMA ReplayStep ==
  ASSUME Inv, NEW w \in Workers, Replay(w)
  PROVE  Inv'
<1>1. /\ worker[w].step \in Methods /\ worker[w].step # "idle"
      /\ UNCHANGED <<authority, github, known, events>>
  BY DEF Replay, Methods
<1>2. PICK e \in Effects : e = worker[w].effect
  BY <1>1, RecordsOf
<1> DEFINE r == [worker[w] EXCEPT !.step = AfterReplay[@], !.prior = effect[e],
                                  !.active = promotion[PolicyOf[e]] = "active"]
<1>3. worker' = [worker EXCEPT ![w] = r]
  BY <1>2 DEF Replay
<1>4. /\ r \in WorkerRecord /\ r.effect = e /\ r.exact = worker[w].exact
      /\ r.prior = effect[e] /\ r.active = (promotion[PolicyOf[e]] = "active")
      /\ r.step = AfterReplay[worker[w].step] /\ r.step \in Replayed
  <2>1. effect[e] \in EffectRecord /\ worker[w] \in WorkerRecord
    BY RecordsOf DEF Inv, EffectTypes, IsRecordOf
  <2>2. AfterReplay[worker[w].step] \in Replayed
    BY <1>1 DEF AfterReplay, Methods, Replayed
  <2> QED
    BY <1>2, <2>1, <2>2 DEF WorkerRecord
<1> HIDE DEF r
<1>5. IsRecordOf(r, w)
  BY <1>1, <1>2, <1>4, MovesOn DEF Replayed
<1>6. UpToDate(r)
  <2>1. PolicyOf[e] \in Policies /\ promotion[PolicyOf[e]] \in {"none", "active", "suspended"}
    BY OutboundAssumption DEF Inv, EffectTypes
  <2>2. effect[e].status # "none" => promotion[PolicyOf[e]] # "none"
    BY DEF Inv, LogOK
  <2>3. r.active => promotion[PolicyOf[e]] = "active"
    BY <1>4
  <2>4. ~r.active => promotion[PolicyOf[e]] # "active"
    BY <1>4
  <2>5. r.step \in Authorized => effect[e].status # "none"
    <3>1. r.step \in Authorized => worker[w].step = "record"
      BY <1>1, <1>4 DEF AfterReplay, Methods, Authorized
    <3> QED
      BY <1>2, <3>1, RecordsOf DEF UpToDate, Authorized
  <2> QED
    BY <1>4, <2>1, <2>2, <2>3, <2>4, <2>5 DEF UpToDate
<1>7. Sees(r)
  <2>1. /\ r.step = "authorizing" => worker[w].step = "authorize"
        /\ r.step = "recording" => worker[w].step = "record"
    BY <1>1, <1>4 DEF AfterReplay, Methods
  <2>2. Sees(worker[w])
    BY RecordsOf
  <2> QED
    BY <1>2, <1>4, <2>1, <2>2 DEF Sees, Replayed
<1> QED
  BY <1>1, <1>2, <1>3, <1>4, <1>5, <1>6, <1>7, LocalStep

\* What an authorized delivery goes on as.
LEMMA GrantedRecord ==
  ASSUME Inv, NEW w \in Workers, worker[w].step = "authorizing", Granted(w)
  PROVE  \E r : /\ worker' = [worker EXCEPT ![w] = r]
                /\ IsRecordOf(r, w) /\ Sees(r)
                /\ effect[worker[w].effect].status # "none" => UpToDate(r)
                /\ r.effect = worker[w].effect /\ r.step \notin Replayed /\ r # Idle
<1> DEFINE r == [worker[w] EXCEPT !.step = NextAfterGrant(w), !.prior = NoEffect, !.active = FALSE]
<1>1. worker' = [worker EXCEPT ![w] = r]
  BY DEF Granted
<1>2. /\ r \in WorkerRecord /\ r.effect = worker[w].effect
      /\ r.step = IF worker[w].exact THEN "record" ELSE "perform"
  <2>1. worker[w] \in WorkerRecord
    BY RecordsOf DEF IsRecordOf
  <2>2. NoEffect \in EffectRecord
    BY OutboundAssumption DEF NoEffect, EffectRecord
  <2> QED
    BY <2>1, <2>2 DEF NextAfterGrant, WorkerRecord, Methods
<1> HIDE DEF r
<1>3. IsRecordOf(r, w)
  BY <1>2, MovesOn
<1>4. effect[worker[w].effect].status # "none" => UpToDate(r)
  BY <1>2 DEF UpToDate, Replayed, Authorized
<1>5. Sees(r)
  <2>1. Sees(worker[w])
    BY RecordsOf
  <2> QED
    BY <1>2, <2>1 DEF Sees
<1>6. r # Idle
  BY <1>2 DEF Idle
<1> QED
  BY <1>1, <1>2, <1>3, <1>4, <1>5, <1>6 DEF Replayed

LEMMA AuthorizeStep ==
  ASSUME Inv, EffectsAreLocal, NEW w \in Workers, Authorize(w)
  PROVE  Inv'
<1> USE DEF authority, github
<1>1. /\ worker[w].step = "authorizing" /\ worker[w].step \in Replayed /\ Alone(w)
      /\ UNCHANGED <<promotion, expired, github, known, events>>
  BY DEF Authorize, At, Replayed
<1>2. PICK e \in Effects : e = worker[w].effect
  BY <1>1, RecordsOf
<1>3. CASE Throws(w, TRUE) /\ UNCHANGED effect
  BY <1>1, <1>3, ThrowsStep
<1>4. CASE worker[w].prior.status \in {"authorized", "delivered"} /\ Granted(w) /\ UNCHANGED effect
  <2>1. PICK r : /\ worker' = [worker EXCEPT ![w] = r]
                 /\ IsRecordOf(r, w) /\ UpToDate(r) /\ Sees(r)
                 /\ r.effect = worker[w].effect
    <3>1. effect[worker[w].effect].status # "none"
      BY <1>1, <1>4, RecordsOf DEF UpToDate
    <3> QED
      BY <1>1, <1>4, <3>1, GrantedRecord
  <2>2. UNCHANGED <<authority, github, known, events>>
    BY <1>1, <1>4
  <2> QED
    BY <2>1, <2>2, LocalStep
<1>5. CASE /\ worker[w].prior.status = "none" /\ worker[w].active
           /\ effect' = [effect EXCEPT ![e] = [NoEffect EXCEPT !.status = "authorized"]]
           /\ Granted(w)
  <2> DEFINE x == [NoEffect EXCEPT !.status = "authorized"]
  <2>1. PICK r : /\ worker' = [worker EXCEPT ![w] = r]
                 /\ IsRecordOf(r, w) /\ Sees(r) /\ r.step \notin Replayed
                 /\ r.effect = worker[w].effect /\ r # Idle
    BY <1>1, <1>5, GrantedRecord
  <2>2. /\ effect[e].status = "none" /\ effect[e] = NoEffect
        /\ promotion[PolicyOf[e]] # "none"
    BY <1>1, <1>2, <1>5, RecordsOf DEF UpToDate, Inv, EffectTypes
  <2>3. /\ x \in [status: {"authorized", "delivered", "failed"}, receipt: BOOLEAN, failures: Nat]
        /\ x.failures = 0 /\ x.status = "authorized" /\ x.receipt = FALSE
        /\ NoEffect.failures = 0
    BY DEF NoEffect
  <2>4. \A f \in Effects : (\E p \in Processes : f \in known'[p]) => effect'[f].status = "delivered"
    BY <1>1, <1>5, <2>2 DEF Inv, EffectTypes, NoEffect
  <2>5. /\ promotion' \in [Policies -> {"none", "active", "suspended"}] /\ promotion' = promotion
        /\ known' \in [Processes -> SUBSET Effects]
        /\ ~(0 >= Threshold)
    BY <1>1, OutboundAssumption DEF Inv, EffectTypes
  <2>6. effect' = [effect EXCEPT ![e] = x] /\ UNCHANGED <<expired, github, events>>
    BY <1>1, <1>5
  <2> HIDE DEF x
  <2>7. /\ x.failures <= effect[e].failures + (IF r = Idle THEN 1 ELSE 0)
        /\ x.receipt <=> x.status = "delivered"
        /\ x.receipt => e \in shown
        /\ x.status = "failed" \/ x.failures >= Threshold => promotion'[PolicyOf[e]] = "suspended"
        /\ promotion'[PolicyOf[e]] # "none"
        /\ \A p \in Policies : promotion'[p] = promotion[p] \/ (promotion[p] # "none" /\ promotion'[p] = "suspended")
    BY <2>1, <2>2, <2>3, <2>5
  <2> QED
    BY <1>1, <1>2, <2>1, <2>3, <2>4, <2>5, <2>6, <2>7, AppendStep
<1> QED
  BY <1>2, <1>3, <1>4, <1>5 DEF Authorize

LEMMA RecordStep ==
  ASSUME Inv, EffectsAreLocal, NEW w \in Workers, Record(w)
  PROVE  Inv'
<1> USE DEF authority, github
<1>1. /\ worker[w].step = "recording" /\ worker[w].step \in Replayed /\ Alone(w)
      /\ UNCHANGED <<promotion, expired, github, events>>
  BY DEF Record, At, Replayed
<1>2. PICK e \in Effects : e = worker[w].effect
  BY <1>1, RecordsOf
<1>3. CASE Throws(w, FALSE) /\ UNCHANGED <<effect, known>>
  BY <1>1, <1>3, ThrowsStep
<1>4. CASE /\ ~worker[w].prior.receipt
           /\ effect' = [effect EXCEPT ![e].status = "delivered", ![e].receipt = TRUE]
           /\ known' = [known EXCEPT ![ProcessOf[w]] = @ \cup {e}]
           /\ Returns(w)
  <2> DEFINE x == [effect[e] EXCEPT !.status = "delivered", !.receipt = TRUE]
  <2>1. /\ effect[e] \in EffectRecord /\ effect \in [Effects -> EffectRecord]
        /\ known \in [Processes -> SUBSET Effects] /\ ProcessOf[w] \in Processes
        /\ promotion \in [Policies -> {"none", "active", "suspended"}] /\ PolicyOf[e] \in Policies
    BY OutboundAssumption DEF Inv, EffectTypes
  <2>2. effect' = [effect EXCEPT ![e] = x] /\ effect'[e] = x
    BY <1>4, <2>1
  <2>3. /\ x \in [status: {"authorized", "delivered", "failed"}, receipt: BOOLEAN, failures: Nat]
        /\ x.status = "delivered" /\ x.receipt = TRUE /\ x.failures = effect[e].failures
        /\ x.failures \in Nat
    <3>1. effect[e].failures \in 0..MaxFailures /\ MaxFailures \in Nat
      BY <2>1, OutboundAssumption DEF EffectRecord
    <3>2. /\ x \in EffectRecord
          /\ x.status = "delivered" /\ x.receipt = TRUE /\ x.failures = effect[e].failures
      BY <2>1 DEF EffectRecord
    <3> HIDE DEF x
    <3> QED
      BY <3>1, <3>2 DEF EffectRecord
  <2>4. e \in shown
    BY <1>1, <1>2, RecordsOf DEF Sees
  <2>5. promotion[PolicyOf[e]] # "none"
    <3>1. effect[e].status # "none"
      BY <1>1, <1>2, RecordsOf DEF UpToDate, Authorized
    <3> QED
      BY <3>1 DEF Inv, LogOK
  <2>6. effect[e].failures >= Threshold => promotion[PolicyOf[e]] = "suspended"
    BY DEF Inv, FailuresSuspend
  <2>7. /\ promotion' = promotion
        /\ known' \in [Processes -> SUBSET Effects]
        /\ \A f \in Effects : (\E p \in Processes : f \in known'[p]) => effect'[f].status = "delivered"
    <3>1. \A p \in Processes : known'[p] \subseteq known[p] \cup {e}
      BY <1>4, <2>1
    <3>2. \A f \in Effects \ {e} : effect'[f] = effect[f]
      BY <2>1, <2>2
    <3> QED
      BY <1>1, <1>4, <2>1, <2>2, <2>3, <3>1, <3>2 DEF Inv, EffectTypes
  <2>8. PICK r : r = Idle
    OBVIOUS
  <2>9. /\ IsRecordOf(r, w) /\ Sees(r) /\ r.step \notin Replayed /\ r.effect = NoKey
        /\ worker' = [worker EXCEPT ![w] = r]
    BY <1>4, <2>8, IdleRecord DEF Idle, Replayed, Returns
  <2> HIDE DEF x
  <2>10. /\ x.failures <= effect[e].failures + (IF r = Idle THEN 1 ELSE 0)
         /\ x.receipt <=> x.status = "delivered"
         /\ x.receipt => e \in shown
         /\ x.status = "failed" \/ x.failures >= Threshold => promotion'[PolicyOf[e]] = "suspended"
         /\ promotion'[PolicyOf[e]] # "none"
         /\ \A p \in Policies : promotion'[p] = promotion[p] \/ (promotion[p] # "none" /\ promotion'[p] = "suspended")
    BY <2>3, <2>4, <2>5, <2>6, <2>7, <2>8
  <2> QED
    BY <1>1, <1>2, <2>1, <2>2, <2>3, <2>7, <2>9, <2>10, AppendStep
<1> QED
  BY <1>2, <1>3, <1>4 DEF Record

\* The failure that is too many, or that is final, suspends the policy unless
\* it is suspended already.
LEMMA FailStep ==
  ASSUME Inv, EffectsAreLocal, NEW w \in Workers, Fail(w)
  PROVE  Inv'
<1> USE DEF authority, github
<1>1. /\ worker[w].step = "failing" /\ worker[w].step \in Replayed /\ Alone(w) /\ Returns(w)
      /\ UNCHANGED <<expired, github, known, events>>
  BY DEF Fail, At, Replayed
<1>2. PICK e \in Effects : e = worker[w].effect
  BY <1>1, RecordsOf
<1>3. CASE UNCHANGED <<effect, promotion>>
  BY <1>1, <1>3, ReturnsStep
<1>4. CASE /\ worker[w].prior.status # "none" /\ ~worker[w].prior.receipt
           /\ effect' = [effect EXCEPT ![e].failures = @ + 1,
                           ![e].status = IF worker[w].retryable THEN "authorized" ELSE "failed"]
           /\ promotion' = [promotion EXCEPT ![PolicyOf[e]] =
                           IF Enough(w) /\ worker[w].active THEN "suspended" ELSE @]
  <2> DEFINE x == [effect[e] EXCEPT !.failures = @ + 1,
                             !.status = IF worker[w].retryable THEN "authorized" ELSE "failed"]
  <2>1. /\ effect[e] \in EffectRecord /\ effect \in [Effects -> EffectRecord]
        /\ promotion \in [Policies -> {"none", "active", "suspended"}] /\ PolicyOf[e] \in Policies
        /\ known \in [Processes -> SUBSET Effects]
        /\ Threshold \in Nat /\ worker[w].retryable \in BOOLEAN /\ worker[w].active \in BOOLEAN
    BY OutboundAssumption, RecordsOf DEF Inv, EffectTypes, IsRecordOf, WorkerRecord
  <2>2. effect' = [effect EXCEPT ![e] = x] /\ effect'[e] = x
    BY <1>4, <2>1
  <2>3. /\ effect[e] = worker[w].prior /\ effect[e].status # "none"
        /\ effect[e].receipt = FALSE /\ effect[e].failures \in Nat
    <3>1. effect[e] = worker[w].prior
      BY <1>1, <1>2, RecordsOf DEF UpToDate
    <3>2. effect[e].receipt \in BOOLEAN /\ effect[e].failures \in 0..MaxFailures /\ MaxFailures \in Nat
      BY <2>1, OutboundAssumption DEF EffectRecord
    <3> QED
      BY <1>4, <3>1, <3>2
  <2>4. /\ x \in [status: {"authorized", "delivered", "failed"}, receipt: BOOLEAN, failures: Nat]
        /\ x.status = (IF worker[w].retryable THEN "authorized" ELSE "failed")
        /\ x.receipt = FALSE /\ x.failures = effect[e].failures + 1
    <3>1. /\ DOMAIN x = {"status", "receipt", "failures"}
          /\ x.status = (IF worker[w].retryable THEN "authorized" ELSE "failed")
          /\ x.receipt = effect[e].receipt /\ x.failures = effect[e].failures + 1
          /\ x = [f \in {"status", "receipt", "failures"} |-> x[f]]
      BY <2>1 DEF EffectRecord
    <3> HIDE DEF x
    <3>2. x.failures \in Nat /\ x.status \in {"authorized", "delivered", "failed"} /\ x.receipt = FALSE
      BY <2>3, <3>1
    <3>3. x \in [status: {"authorized", "delivered", "failed"}, receipt: BOOLEAN, failures: Nat]
      BY <3>1, <3>2
    <3> QED
      BY <3>1, <3>2, <3>3
  <2> HIDE DEF x
  <2>5. /\ promotion' \in [Policies -> {"none", "active", "suspended"}]
        /\ promotion[PolicyOf[e]] # "none"
        /\ worker[w].active \/ promotion[PolicyOf[e]] = "suspended"
    <3>1. promotion[PolicyOf[e]] # "none"
      BY <2>3 DEF Inv, LogOK
    <3>2. worker[w].active \/ promotion[PolicyOf[e]] = "suspended"
      BY <1>1, <1>2, <1>4, <2>1, RecordsOf DEF UpToDate
    <3>3. promotion' \in [Policies -> {"none", "active", "suspended"}]
      BY <1>4, <2>1
    <3> QED
      BY <3>1, <3>2, <3>3
  <2>6. /\ promotion'[PolicyOf[e]] # "none"
        /\ \A p \in Policies : promotion'[p] = promotion[p] \/ (promotion[p] # "none" /\ promotion'[p] = "suspended")
    BY <1>4, <2>1, <2>5
  <2>7. x.status = "failed" \/ x.failures >= Threshold => promotion'[PolicyOf[e]] = "suspended"
    <3>1. x.status = "failed" \/ x.failures >= Threshold => Enough(w)
      BY <2>3, <2>4 DEF Enough
    <3> QED
      BY <1>4, <2>1, <2>5, <3>1
  <2>8. \A f \in Effects : (\E p \in Processes : f \in known'[p]) => effect'[f].status = "delivered"
    <3>1. \A f \in Effects \ {e} : effect'[f] = effect[f]
      BY <2>1, <2>2
    <3>2. \A p \in Processes : e \notin known[p]
      BY <2>3 DEF Inv, EffectTypes
    <3> QED
      BY <1>1, <3>1, <3>2 DEF Inv, EffectTypes
  <2>9. PICK r : r = Idle
    OBVIOUS
  <2>10. /\ IsRecordOf(r, w) /\ Sees(r) /\ r.step \notin Replayed /\ r.effect = NoKey
         /\ worker' = [worker EXCEPT ![w] = r]
    BY <1>1, <2>9, IdleRecord DEF Idle, Replayed, Returns
  <2>11. /\ x.failures <= effect[e].failures + (IF r = Idle THEN 1 ELSE 0)
         /\ x.receipt <=> x.status = "delivered"
         /\ x.receipt => e \in shown
         /\ known' \in [Processes -> SUBSET Effects]
    BY <1>1, <2>1, <2>3, <2>4, <2>9
  <2> QED
    BY <1>1, <1>2, <2>2, <2>4, <2>5, <2>6, <2>7, <2>8, <2>10, <2>11, AppendStep
<1> QED
  BY <1>2, <1>3, <1>4 DEF Fail

\* A policy goes from none to active to suspended, and never back.
LEMMA OperatingStep ==
  ASSUME Inv, Operating
  PROVE  Inv'
<1>1. /\ UNCHANGED <<effect, live, writes, removals, shown, worker, known, events>>
      /\ promotion' \in [Policies -> {"none", "active", "suspended"}] /\ expired' \subseteq Policies
      /\ \A p \in Policies : /\ promotion[p] # "none" => promotion'[p] # "none"
                             /\ promotion[p] = "suspended" => promotion'[p] = "suspended"
  <2>1. PICK q \in Policies : PromotePolicy(q) \/ SuspendPolicy(q) \/ PolicyExpires(q)
    BY DEF Operating
  <2>2. promotion \in [Policies -> {"none", "active", "suspended"}] /\ expired \subseteq Policies
    BY DEF Inv, EffectTypes
  <2> QED
    BY <2>1, <2>2 DEF PromotePolicy, SuspendPolicy, PolicyExpires, github
<1>2. EffectTypes' /\ HandlesOK'
  BY <1>1 DEF Inv, EffectTypes, HandlesOK
<1>3. Load' = Load
  BY <1>1 DEF Load, AtWork
<1>4. CountOK'
  BY <1>1, <1>3 DEF Inv, CountOK
<1>5. PriorOK'
  <2> SUFFICES ASSUME NEW v \in Workers PROVE UpToDate(worker[v])'
    BY DEF PriorOK, UpToDate
  <2>1. UpToDate(worker[v])
    BY RecordsOf
  <2>2. CASE worker[v].step \in Replayed
    <3>1. PolicyOf[worker[v].effect] \in Policies
      BY <2>2, RecordsOf, OutboundAssumption DEF Replayed
    <3> QED
      BY <1>1, <2>1, <3>1 DEF UpToDate
  <2>3. CASE worker[v].step \notin Replayed
    BY <1>1, <2>1, <2>3 DEF UpToDate
  <2> QED
    BY <2>2, <2>3
<1>6. SeenOK'
  BY <1>1 DEF Inv, SeenOK, Sees
<1>7. ShownOK' /\ LogOK' /\ PostedOnce' /\ ReceiptsAreEvidence' /\ FailuresSuspend'
  BY <1>1, OutboundAssumption DEF Inv, ShownOK, LogOK, PostedOnce, There, ReceiptsAreEvidence, FailuresSuspend
<1> QED
  BY <1>2, <1>4, <1>5, <1>6, <1>7 DEF Inv

\* What others do on GitHub: what is at work sees to it that it is not misled.
LEMMA OthersStep ==
  ASSUME Inv, UNCHANGED <<authority, writes, worker, known>>, Happens,
         live' \in [Effects -> {"absent", "exact", "conflict"}],
         removals' \in [Effects -> Nat], shown \subseteq shown', shown' \subseteq Effects,
         \A f \in Effects : live'[f] = "exact" => f \in shown',
         \A f \in Effects : live[f] = "absent" => live'[f] = "absent" \/ f \in MadeOnce,
         \A f \in Effects : removals[f] + There(f) <= removals'[f] + There(f)',
         ShownOK'
  PROVE  Inv'
<1> USE DEF authority
<1>1. EffectTypes' /\ HandlesOK'
  <2>1. events' \in 0..MaxEvents
    BY OutboundAssumption DEF Happens, Inv, EffectTypes
  <2> QED
    BY <2>1 DEF Inv, EffectTypes, HandlesOK
<1>2. Load' = Load
  BY DEF Load, AtWork
<1>3. CountOK' /\ PriorOK'
  BY <1>2 DEF Inv, CountOK, PriorOK, UpToDate
<1>4. SeenOK'
  <2> SUFFICES ASSUME NEW v \in Workers PROVE Sees(worker[v])'
    BY DEF SeenOK, Sees
  <2>1. Sees(worker[v])
    BY RecordsOf
  <2>2. CASE worker[v].step = "idle"
    BY <2>2 DEF Sees
  <2>3. CASE worker[v].step # "idle"
    BY <2>1, <2>3, RecordsOf DEF Sees, MadeOnce
  <2> QED
    BY <2>2, <2>3
<1>5. PostedOnce'
  <2>1. ASSUME NEW f \in Effects
        PROVE  writes[f] <= removals'[f] + There(f)'
    <3>1. writes[f] <= removals[f] + There(f) /\ writes[f] \in Nat /\ removals[f] \in Nat
      BY OutboundAssumption DEF Inv, PostedOnce, EffectTypes
    <3>2. removals'[f] \in Nat /\ There(f) \in Nat /\ There(f)' \in Nat
      BY OutboundAssumption DEF There
    <3> QED
      BY <3>1, <3>2
  <2> QED
    BY <2>1 DEF PostedOnce, There
<1>6. LogOK' /\ ReceiptsAreEvidence' /\ FailuresSuspend'
  BY DEF Inv, LogOK, ReceiptsAreEvidence, FailuresSuspend
<1> QED
  BY <1>1, <1>3, <1>4, <1>5, <1>6 DEF Inv

\* Others make only what has a name or is refused a second time.
LEMMA CreateStep ==
  ASSUME Inv, NEW e \in Effects, Create(e)
  PROVE  Inv'
<1>1. PICK there \in MayBe(e) \ {"absent"} :
        /\ live' = [live EXCEPT ![e] = there]
        /\ shown' = IF there = "exact" THEN shown \cup {e} ELSE shown
  BY DEF Create
<1>2. /\ UNCHANGED <<authority, writes, removals, worker, known>> /\ Happens /\ live[e] = "absent"
  BY DEF Create
<1>3. there \in {"exact", "conflict"} /\ e \in MadeOnce /\ (there = "exact" => e \in Unmarked)
  BY <1>1 DEF MayBe, MadeOnce
<1>4. /\ live \in [Effects -> {"absent", "exact", "conflict"}] /\ removals \in [Effects -> Nat]
      /\ shown \subseteq Effects /\ \A f \in Effects : live[f] = "exact" => f \in shown
  BY DEF Inv, EffectTypes
<1>5. ShownOK'
  BY <1>1, <1>2, <1>3 DEF Inv, ShownOK
<1>6. \A f \in Effects : removals[f] + There(f) <= removals'[f] + There(f)'
  <2> SUFFICES ASSUME NEW f \in Effects
               PROVE  removals[f] + There(f) <= removals[f] + There(f)'
    BY <1>2
  <2>1. removals[f] \in Nat
    BY <1>4, OutboundAssumption
  <2> QED
    BY <1>1, <1>2, <1>3, <1>4, <2>1 DEF There
<1> QED
  BY <1>1, <1>2, <1>3, <1>4, <1>5, <1>6, OthersStep

LEMMA EditStep ==
  ASSUME Inv, NEW e \in Effects, Edit(e)
  PROVE  Inv'
<1>1. /\ UNCHANGED <<authority, writes, removals, shown, worker, known>> /\ Happens
      /\ live[e] # "absent" /\ e \in shown
      /\ live' = [live EXCEPT ![e] = IF @ = "exact" THEN "conflict" ELSE "exact"]
  BY DEF Edit
<1>2. /\ live \in [Effects -> {"absent", "exact", "conflict"}] /\ removals \in [Effects -> Nat]
      /\ shown \subseteq Effects /\ \A f \in Effects : live[f] = "exact" => f \in shown
  BY DEF Inv, EffectTypes
<1>3. ShownOK'
  BY <1>1 DEF Inv, ShownOK
<1>4. \A f \in Effects : removals[f] + There(f) <= removals'[f] + There(f)'
  <2> SUFFICES ASSUME NEW f \in Effects
               PROVE  removals[f] + There(f) <= removals[f] + There(f)'
    BY <1>1
  <2>1. removals[f] \in Nat
    BY <1>2, OutboundAssumption
  <2> QED
    BY <1>1, <1>2, <2>1 DEF There
<1>5. /\ live' \in [Effects -> {"absent", "exact", "conflict"}]
      /\ \A f \in Effects : live'[f] = "exact" => f \in shown
      /\ \A f \in Effects : live[f] = "absent" => live'[f] = "absent"
  BY <1>1, <1>2
<1> QED
  BY <1>1, <1>2, <1>3, <1>4, <1>5, OthersStep

\* What is gone may be written once more.
LEMMA RemoveStep ==
  ASSUME Inv, NEW e \in Effects, Remove(e)
  PROVE  Inv'
<1>1. /\ UNCHANGED <<authority, writes, shown, worker, known>> /\ Happens /\ live[e] # "absent"
      /\ live' = [live EXCEPT ![e] = "absent"]
      /\ removals' = [removals EXCEPT ![e] = @ + 1]
  BY DEF Remove
<1>2. /\ live \in [Effects -> {"absent", "exact", "conflict"}] /\ removals \in [Effects -> Nat]
      /\ shown \subseteq Effects /\ \A f \in Effects : live[f] = "exact" => f \in shown
  BY DEF Inv, EffectTypes
<1>3. ShownOK'
  BY <1>1 DEF Inv, ShownOK
<1>4. \A f \in Effects : removals[f] + There(f) <= removals'[f] + There(f)'
  <2> SUFFICES ASSUME NEW f \in Effects
               PROVE  removals[f] + There(f) <= removals'[f] + There(f)'
    OBVIOUS
  <2>1. removals[f] \in Nat
    BY <1>2, OutboundAssumption
  <2> QED
    BY <1>1, <1>2, <2>1 DEF There
<1>5. /\ live' \in [Effects -> {"absent", "exact", "conflict"}]
      /\ \A f \in Effects : live'[f] = "exact" => f \in shown
      /\ \A f \in Effects : live[f] = "absent" => live'[f] = "absent"
  BY <1>1, <1>2
<1> QED
  BY <1>1, <1>2, <1>3, <1>4, <1>5, OthersStep

\* The deliveries of a process are gone, and nothing they did.
LEMMA ProcessDiesStep ==
  ASSUME Inv, NEW p \in Processes, ProcessDies(p)
  PROVE  Inv'
<1> USE DEF authority, github
<1>1. /\ UNCHANGED <<promotion, expired, effect, live, writes, removals, shown>>
      /\ worker' = [w \in Workers |-> IF ProcessOf[w] = p THEN Idle ELSE worker[w]]
      /\ known' = [known EXCEPT ![p] = {}] /\ events' \in 0..MaxEvents
  BY OutboundAssumption DEF ProcessDies, Happens, Inv, EffectTypes
<1>2. \A w \in Workers : IsRecordOf(worker'[w], w) /\ UpToDate(worker'[w]) /\ Sees(worker'[w])
  BY <1>1, RecordsOf, IdleRecord
<1>3. worker' \in [Workers -> WorkerRecord] /\ HandlesOK'
      /\ \A w \in Workers : worker'[w].step = "idle" <=> worker'[w] = Idle
  <2>1. worker' \in [Workers -> WorkerRecord]
    BY <1>1, <1>2 DEF IsRecordOf
  <2> QED
    BY <1>2, <2>1 DEF IsRecordOf, HandlesOK
<1>4. EffectTypes'
  <2>1. known' \in [Processes -> SUBSET Effects] /\ \A q \in Processes : known'[q] \subseteq known[q]
    BY <1>1 DEF Inv, EffectTypes
  <2> QED
    BY <1>1, <1>3, <2>1 DEF Inv, EffectTypes
<1>5. CountOK'
  <2>1. ASSUME NEW e \in Effects
        PROVE  Load'[e] \in Nat /\ Load'[e] <= Load[e]
    <3>1. AtWork(e)' \subseteq AtWork(e)
      BY <1>1, IdleRecord, OutboundAssumption DEF AtWork
    <3>2. Cardinality(AtWork(e)') <= Cardinality(AtWork(e)) /\ IsFiniteSet(AtWork(e)')
      BY <3>1, AtWorkFinite, FS_Subset
    <3>3. Cardinality(AtWork(e)') \in Nat
      BY <3>2, FS_CardinalityType
    <3>4. Load'[e] = Cardinality(AtWork(e)') /\ Load[e] = Cardinality(AtWork(e))
      BY DEF Load
    <3> QED
      BY <3>2, <3>3, <3>4
  <2>2. ASSUME NEW e \in Effects
        PROVE  effect[e].failures + Load'[e] <= MaxFailures
    <3>1. effect[e].failures + Load[e] <= MaxFailures /\ effect[e].failures \in Nat
      BY DEF Inv, CountOK, EffectTypes, EffectRecord
    <3> QED
      BY <2>1, <3>1, AtWorkFinite, OutboundAssumption
  <2> QED
    BY <1>1, <2>2 DEF CountOK
<1>6. PriorOK' /\ SeenOK'
  BY <1>1, <1>2 DEF PriorOK, SeenOK, UpToDate, Sees
<1>7. ShownOK' /\ LogOK' /\ PostedOnce' /\ ReceiptsAreEvidence' /\ FailuresSuspend'
  BY <1>1 DEF Inv, ShownOK, LogOK, PostedOnce, There, ReceiptsAreEvidence, FailuresSuspend
<1> QED
  BY <1>3, <1>4, <1>5, <1>6, <1>7 DEF Inv

LEMMA InvNext ==
  ASSUME EffectsAreLocal, SharedAreMadeOnce, Inv, [EffectNext]_effectVars
  PROVE  Inv'
<1>1. ASSUME NEW w \in Workers, Delivering(w)
      PROVE  Inv'
  BY <1>1, ObserveStep, PerformStep, ConfirmStep, ReplayStep, AuthorizeStep, RecordStep, FailStep
     DEF Delivering
<1>2. CASE UNCHANGED effectVars
  <2>1. Load' = Load
    BY <1>2 DEF effectVars, Load, AtWork
  <2> QED
    BY <1>2, <2>1 DEF effectVars, Inv, EffectTypes, HandlesOK, CountOK, PriorOK, UpToDate, SeenOK, Sees, LogOK,
         ShownOK, PostedOnce, There, ReceiptsAreEvidence, FailuresSuspend, github
<1> QED
  BY <1>1, <1>2, OperatingStep, CreateStep, EditStep, RemoveStep, ProcessDiesStep DEF EffectNext

-----------------------------------------------------------------------------
(* The theorems.                                                           *)

(* What deliver of the adapter and the authority keep to, with deliveries  *)
(* repeated, answers lost, processes dead at any step and others at work   *)
(* on GitHub: an effect is written again only when what was there is gone, *)
(* and a receipt is written only for what has been there as it was asked   *)
(* for, by a write unless it is found by its name.  It takes that an       *)
(* effect is delivered by one process, and by one worker unless its second *)
(* creation is refused or changes nothing.                                 *)
THEOREM EffectsAreCarriedOutOnce ==
  ASSUME EffectsAreLocal, SharedAreMadeOnce
  PROVE  EffectSpec => []EffectInv
<1>1. Inv /\ [EffectNext]_effectVars => Inv'
  BY InvNext
<1>2. Inv => EffectInv
  BY DEF Inv, EffectInv
<1> QED
  BY <1>1, <1>2, InvInit, PTL DEF EffectSpec

(* recordFailure suspends the policy of an effect with the failure that is *)
(* final or one too many, and nothing promotes a suspended policy again:   *)
(* so no policy is in force that has failed.                               *)
THEOREM FailedPoliciesAreSuspended ==
  ASSUME EffectsAreLocal, SharedAreMadeOnce
  PROVE  EffectSpec => []FailuresSuspend
<1>1. Inv /\ [EffectNext]_effectVars => Inv'
  BY InvNext
<1>2. Inv => FailuresSuspend
  BY DEF Inv
<1> QED
  BY <1>1, <1>2, InvInit, PTL DEF EffectSpec

\* No step changes what the log says of an effect with a receipt.
Keeps == \A e \in Effects : effect[e].receipt => effect'[e] = effect[e]

LEMMA InvKeeps ==
  ASSUME Inv, [EffectNext]_effectVars
  PROVE  Keeps
<1>0. effect \in [Effects -> EffectRecord]
  BY DEF Inv, EffectTypes
<1>1. ASSUME NEW w \in Workers, Authorize(w) \/ Record(w) \/ Fail(w)
      PROVE  Keeps
  <2>1. worker[w].step \in Replayed
    BY <1>1 DEF Authorize, Record, Fail, At, Replayed
  <2>2. PICK e \in Effects : e = worker[w].effect
    BY <2>1, RecordsOf DEF Replayed
  <2>3. worker[w].prior = effect[e]
    BY <2>1, <2>2, RecordsOf DEF UpToDate
  <2>4. effect' # effect => ~effect[e].receipt
    <3>1. effect[e].status = "none" => ~effect[e].receipt
      BY DEF Inv, LogOK
    <3> QED
      BY <1>1, <2>3, <3>1 DEF Authorize, Record, Fail
  <2>5. \A f \in Effects \ {e} : effect'[f] = effect[f]
    BY <1>0, <1>1, <2>2 DEF Authorize, Record, Fail
  <2> QED
    BY <2>4, <2>5 DEF Keeps
<1>2. ASSUME UNCHANGED effect
      PROVE  Keeps
  BY <1>2 DEF Keeps
<1>3. ASSUME NEW w \in Workers, Delivering(w)
      PROVE  Keeps
  BY <1>1, <1>2, <1>3 DEF Delivering, Observe, Perform, Confirm, Replay, authority
<1>4. Operating => UNCHANGED effect
  BY DEF Operating, PromotePolicy, SuspendPolicy, PolicyExpires
<1>5. \/ \E e \in Effects : Create(e) \/ Edit(e) \/ Remove(e)
      \/ \E p \in Processes : ProcessDies(p)
      => UNCHANGED effect
  BY DEF Create, Edit, Remove, ProcessDies, authority
<1> QED
  BY <1>2, <1>3, <1>4, <1>5 DEF EffectNext, effectVars

(* A receipt is the last word of the log on its effect: authorize,         *)
(* recordReceipt and recordFailure refuse one that has it, and what they   *)
(* have replayed is what the log still says when they append.              *)
THEOREM ReceiptsStay ==
  ASSUME EffectsAreLocal, SharedAreMadeOnce
  PROVE  EffectSpec => ReceiptsAreKept
<1>1. Inv /\ [EffectNext]_effectVars => Inv'
  BY InvNext
<1>2. Inv /\ [EffectNext]_effectVars => [Keeps]_effectVars
  BY InvKeeps
<1>3. ReceiptsAreKept <=> [][Keeps]_effectVars
  BY PTL DEF ReceiptsAreKept, Keeps
<1> QED
  BY <1>1, <1>2, <1>3, InvInit, PTL DEF EffectSpec

-----------------------------------------------------------------------------
(* Pages to the operator.  The invariant speaks of one packet and its      *)
(* deliveries at a time (Sound): a step changes those of one at most.      *)

\* A packet p that reads d, with the deliveries f of its revisions, under policies up
\* to bound and when the provider has accepted the deliveries in accepted.
Sound(p, d, f, bound, accepted) ==
  /\ d \in PacketRecords /\ f \in [1..MaxRevision -> PageRecords]
  /\ d.status = "none" <=> d.revision = 0
  /\ d.status = "open" => (d.run > 0) = p[2]
  /\ d.policy <= bound
  /\ \A n \in 1..MaxRevision :
       /\ f[n].status # "none" => n <= d.revision
       /\ f[n].status = "leased" <=> f[n].lease # "none"
       /\ f[n].status = "delivered" => <<p, n>> \in accepted
       /\ Live(f[n]) => n = d.revision /\ ~d.acked
  /\ p[1] \in Reserved /\ d.status = "open" /\ ~d.acked =>
       f[d.revision].status \notin {"none", "obsolete"}

QuestionsOK ==
  /\ source \in [Sources -> {"absent", "open", "over"}] /\ order \in Seq(Sources)
  /\ run \in [Sources -> Nat] /\ \A s \in Sources : run[s] <= MaxRun[s]
  /\ inScope \subseteq Versioned /\ late \subseteq Timed
  /\ policy \in 0..MaxPolicy /\ changes \in 0..MaxChanges
  /\ \A s \in Sources : source[s] # "absent" => \E i \in DOMAIN order : order[i] = s

\* What has not occurred has no packet.
PacketsOK ==
  /\ packet \in [Packets -> PacketRecords] /\ page \in [Packets -> [1..MaxRevision -> PageRecords]]
  /\ \A p \in Packets :
       /\ Sound(p, packet[p], page[p], policy, receipts)
       /\ source[p[1]] = "absent" => packet[p].status = "none"

\* What was read to be compiled is not decided before the reading is stale.
ReadingOK == reading \in [Compilers -> SUBSET Candidates]

\* Only what a pager holds is sent, and the provider knows what it accepted.
CallingOK ==
  /\ calling \in [Pagers -> Calls] /\ receipts \subseteq Deliveries
  /\ \A w \in Pagers :
       /\ calling[w].answer # "none" => calling[w].delivery \in Deliveries
       /\ calling[w].answer = "accepted" => calling[w].delivery \in receipts

ShownInv == WellFormed /\ QuestionsOK /\ PacketsOK /\ ReadingOK /\ CallingOK

LEMMA ShownIsAttentionInv == ShownInv => AttentionInv
<1> SUFFICES ASSUME ShownInv PROVE AttentionInv
  OBVIOUS
<1>1. \A p \in Packets : Sound(p, packet[p], page[p], policy, receipts)
  BY DEF ShownInv, PacketsOK
<1>2. TypeOK
  <2>1. reading \in [Compilers -> SUBSET Sources]
    BY DEF ShownInv, ReadingOK, Candidates
  <2> QED
    BY <1>1, <2>1 DEF ShownInv, QuestionsOK, PacketsOK, CallingOK, Sound, TypeOK
<1>3. LiveDeliveriesAreCurrent
  BY <1>1 DEF Sound, LiveDeliveriesAreCurrent
<1>4. ReservedIsPaged
  BY <1>1 DEF Sound, ReservedIsPaged
<1> QED
  BY <1>2, <1>3, <1>4 DEF AttentionInv

LEMMA SettledType ==
  ASSUME NEW status \in {"pending", "delivered", "failed", "obsolete"}
  PROVE  /\ Settled(status) \in PageRecords
         /\ Settled(status).status = status /\ Settled(status).lease = "none"
  BY DEF Settled, NoPage, PageRecords

\* New policies and receipts take nothing back.
LEMMA SoundStays ==
  ASSUME NEW p, NEW d, NEW f, NEW bound \in Nat, NEW accepted, Sound(p, d, f, bound, accepted),
         NEW later \in Nat, bound <= later, NEW more, accepted \subseteq more
  PROVE  Sound(p, d, f, later, more)
<1>1. d.policy \in Nat
  BY DEF Sound, PacketRecords
<1>2. d.policy <= later
  BY <1>1 DEF Sound
<1> QED
  BY <1>2 DEF Sound

\* The next revision, with a page if it is reserved.
LEMMA SoundRevised ==
  ASSUME NEW p, NEW d, NEW f, NEW bound \in 0..MaxPolicy, NEW accepted, Sound(p, d, f, bound, accepted),
         MaxPolicy \in Nat, MaxRevision \in Nat, d.status \in {"none", "open"},
         NEW n, n = d.revision + 1, n <= MaxRevision,
         NEW r \in Nat, (r > 0) = p[2],
         NEW kept, kept = IF d.status = "open"
                          THEN [f EXCEPT ![d.revision] = IF Live(@) THEN Settled("obsolete") ELSE @]
                          ELSE f,
         NEW paged \in BOOLEAN, p[1] \in Reserved => paged
  PROVE  Sound(p, [status |-> "open", revision |-> n, acked |-> FALSE, run |-> r, policy |-> bound],
               IF paged THEN [kept EXCEPT ![n] = Settled("pending")] ELSE kept, bound, accepted)
<1> DEFINE e == [status |-> "open", revision |-> n, acked |-> FALSE, run |-> r, policy |-> bound]
           g == IF paged THEN [kept EXCEPT ![n] = Settled("pending")] ELSE kept
<1>1. /\ d \in PacketRecords /\ f \in [1..MaxRevision -> PageRecords]
      /\ d.status = "none" <=> d.revision = 0
      /\ \A i \in 1..MaxRevision :
           /\ f[i].status # "none" => i <= d.revision
           /\ f[i].status = "leased" <=> f[i].lease # "none"
           /\ f[i].status = "delivered" => <<p, i>> \in accepted
           /\ Live(f[i]) => i = d.revision
  BY DEF Sound
<1>2. d.revision \in 0..MaxRevision /\ n \in 1..MaxRevision /\ n \in 0..MaxRevision
  BY <1>1 DEF PacketRecords
<1>3. ASSUME NEW i \in 1..MaxRevision
      PROVE  /\ kept[i] \in PageRecords /\ ~Live(kept[i])
             /\ kept[i].status # "none" => i <= d.revision
             /\ kept[i].status = "leased" <=> kept[i].lease # "none"
             /\ kept[i].status = "delivered" => <<p, i>> \in accepted
  <2>1. CASE d.status = "none"
    <3>1. kept = f /\ d.revision = 0
      BY <1>1, <2>1
    <3>2. ~(i <= 0)
      OBVIOUS
    <3>3. f[i].status = "none"
      BY <1>1, <3>1, <3>2
    <3> QED
      BY <1>1, <3>1, <3>3 DEF Live
  <2>2. CASE d.status = "open" /\ i = d.revision /\ Live(f[i])
    <3>1. kept[i] = Settled("obsolete")
      BY <1>1, <2>2
    <3> QED
      BY <1>2, <2>2, <3>1, SettledType DEF Live
  <2>3. CASE d.status = "open" /\ ~(i = d.revision /\ Live(f[i]))
    <3>1. kept[i] = f[i]
      BY <1>1, <2>3
    <3> QED
      BY <1>1, <2>3, <3>1
  <2> QED
    BY <2>1, <2>2, <2>3
<1>4. kept \in [1..MaxRevision -> PageRecords]
  <2>1. DOMAIN kept = 1..MaxRevision /\ kept = [i \in 1..MaxRevision |-> kept[i]]
    BY <1>1
  <2> QED
    BY <1>3, <2>1
<1>5. g \in [1..MaxRevision -> PageRecords] /\ (\A i \in 1..MaxRevision \ {n} : g[i] = kept[i])
      /\ (paged => g[n] = Settled("pending")) /\ (~paged => g[n] = kept[n])
  BY <1>2, <1>4, SettledType
<1> HIDE DEF g
<1>6. e \in PacketRecords /\ e.status = "open" /\ e.revision = n /\ e.acked = FALSE
      /\ e.run = r /\ e.policy = bound
  BY <1>2 DEF PacketRecords
<1> HIDE DEF e
<1>7. ASSUME NEW i \in 1..MaxRevision
      PROVE  /\ g[i].status # "none" => i <= n
             /\ g[i].status = "leased" <=> g[i].lease # "none"
             /\ g[i].status = "delivered" => <<p, i>> \in accepted
             /\ Live(g[i]) => i = n
  <2>1. CASE i = n /\ paged
    BY <1>5, <2>1, SettledType
  <2>2. CASE ~(i = n /\ paged)
    <3>1. g[i] = kept[i]
      BY <1>5, <2>2
    <3>2. i <= d.revision => i <= n
      BY <1>2
    <3> QED
      BY <1>3, <3>1, <3>2
  <2> QED
    BY <2>1, <2>2
<1>8. p[1] \in Reserved => g[n].status \notin {"none", "obsolete"}
  BY <1>5, SettledType
<1>9. bound <= bound
  OBVIOUS
<1>10. (e.status = "none" <=> e.revision = 0) /\ (e.run > 0) = p[2]
  BY <1>2, <1>6
<1>11. \A i \in 1..MaxRevision :
         /\ g[i].status # "none" => i <= e.revision
         /\ g[i].status = "leased" <=> g[i].lease # "none"
         /\ g[i].status = "delivered" => <<p, i>> \in accepted
         /\ Live(g[i]) => i = e.revision /\ ~e.acked
  BY <1>6, <1>7
<1>12. p[1] \in Reserved => g[e.revision].status \notin {"none", "obsolete"}
  BY <1>6, <1>8
<1>13. e \in PacketRecords /\ e.policy <= bound
  BY <1>6, <1>9
<1>14. Sound(p, e, g, bound, accepted)
  BY <1>5, <1>10, <1>11, <1>12, <1>13 DEF Sound
<1> QED
  BY <1>14 DEF e, g

LEMMA SoundAcknowledged ==
  ASSUME NEW p, NEW d, NEW f, NEW bound, NEW accepted, Sound(p, d, f, bound, accepted),
         MaxRevision \in Nat, d.status = "open"
  PROVE  Sound(p, [d EXCEPT !.acked = TRUE],
               [f EXCEPT ![d.revision] = IF Live(@) THEN Settled("obsolete") ELSE @], bound, accepted)
<1> DEFINE e == [d EXCEPT !.acked = TRUE]
           g == [f EXCEPT ![d.revision] = IF Live(@) THEN Settled("obsolete") ELSE @]
<1>1. /\ d \in PacketRecords /\ f \in [1..MaxRevision -> PageRecords]
      /\ d.status = "none" <=> d.revision = 0
      /\ d.status = "open" => (d.run > 0) = p[2]
      /\ d.policy <= bound
      /\ \A i \in 1..MaxRevision :
           /\ f[i].status # "none" => i <= d.revision
           /\ f[i].status = "leased" <=> f[i].lease # "none"
           /\ f[i].status = "delivered" => <<p, i>> \in accepted
           /\ Live(f[i]) => i = d.revision
  BY DEF Sound
<1>2. d.revision \in 1..MaxRevision
  BY <1>1 DEF PacketRecords
<1>3. /\ e \in PacketRecords /\ e.status = d.status /\ e.revision = d.revision /\ e.run = d.run
      /\ e.policy = d.policy /\ e.acked = TRUE
  BY <1>1 DEF PacketRecords
<1>4. ASSUME NEW i \in 1..MaxRevision
      PROVE  /\ g[i] \in PageRecords /\ ~Live(g[i])
             /\ g[i].status # "none" => i <= d.revision
             /\ g[i].status = "leased" <=> g[i].lease # "none"
             /\ g[i].status = "delivered" => <<p, i>> \in accepted
  <2>1. CASE i = d.revision /\ Live(f[i])
    <3>1. g[i] = Settled("obsolete")
      BY <1>1, <2>1
    <3> QED
      BY <1>2, <2>1, <3>1, SettledType DEF Live
  <2>2. CASE ~(i = d.revision /\ Live(f[i]))
    <3>1. g[i] = f[i]
      BY <1>1, <2>2
    <3> QED
      BY <1>1, <2>2, <3>1
  <2> QED
    BY <2>1, <2>2
<1>5. g \in [1..MaxRevision -> PageRecords]
  <2>1. g = [i \in 1..MaxRevision |-> g[i]]
    BY <1>1
  <2> QED
    BY <1>4, <2>1
<1> HIDE DEF e, g
<1>6. Sound(p, e, g, bound, accepted)
  BY <1>1, <1>3, <1>4, <1>5 DEF Sound
<1> QED
  BY <1>6 DEF e, g

LEMMA SoundEnded ==
  ASSUME NEW p, NEW d, NEW f, NEW bound, NEW accepted, Sound(p, d, f, bound, accepted),
         d.status = "open", NEW status \in {"resolved", "expired"}
  PROVE  Sound(p, [d EXCEPT !.status = status], f, bound, accepted)
<1> DEFINE e == [d EXCEPT !.status = status]
<1>1. d \in PacketRecords
  BY DEF Sound
<1>2. /\ e \in PacketRecords /\ e.status = status /\ e.revision = d.revision /\ e.run = d.run
      /\ e.policy = d.policy /\ e.acked = d.acked
  BY <1>1 DEF PacketRecords
<1> HIDE DEF e
<1>3. Sound(p, e, f, bound, accepted)
  BY <1>2 DEF Sound
<1> QED
  BY <1>3 DEF e

\* What is under way of a revision goes on, or is settled otherwise than by a revision.
LEMMA SoundDelivery ==
  ASSUME NEW p, NEW d, NEW f, NEW bound, NEW accepted, Sound(p, d, f, bound, accepted),
         NEW n \in 1..MaxRevision, Live(f[n]),
         NEW rec \in PageRecords, rec.status \notin {"none", "obsolete"},
         rec.status = "leased" <=> rec.lease # "none",
         rec.status = "delivered" => <<p, n>> \in accepted
  PROVE  Sound(p, d, [f EXCEPT ![n] = rec], bound, accepted)
<1> DEFINE g == [f EXCEPT ![n] = rec]
<1>1. /\ f \in [1..MaxRevision -> PageRecords] /\ n = d.revision /\ ~d.acked
      /\ f[n].status # "none"
  BY DEF Sound, Live
<1>2. /\ g \in [1..MaxRevision -> PageRecords] /\ g[n] = rec
      /\ \A i \in 1..MaxRevision \ {n} : g[i] = f[i]
  BY <1>1
<1> HIDE DEF g
<1>3. ASSUME NEW i \in 1..MaxRevision
      PROVE  /\ g[i].status # "none" => i <= d.revision
             /\ g[i].status = "leased" <=> g[i].lease # "none"
             /\ g[i].status = "delivered" => <<p, i>> \in accepted
             /\ Live(g[i]) => i = d.revision /\ ~d.acked
  <2>1. CASE i = n
    <3>1. n <= d.revision
      BY <1>1
    <3> QED
      BY <1>1, <1>2, <2>1, <3>1
  <2>2. CASE i # n
    <3>1. g[i] = f[i]
      BY <1>2, <2>2
    <3> QED
      BY <3>1 DEF Sound
  <2> QED
    BY <2>1, <2>2
<1>4. Sound(p, d, g, bound, accepted)
  BY <1>1, <1>2, <1>3 DEF Sound
<1> QED
  BY <1>4 DEF g

-----------------------------------------------------------------------------
(* What the actions have in common.                                        *)

\* A set of naturals that is not empty has a least member.
LEMMA LeastPlace ==
  ASSUME NEW T \in SUBSET Nat, T # {}
  PROVE  \E i \in T : \A k \in T : i <= k
<1> DEFINE below == {pair \in Nat \X Nat : pair[1] < pair[2]}
<1>1. IsWellFoundedOn(below, Nat)
  BY NatLessThanWellFounded, Zenon DEF OpToRel
<1>2. \A k, i \in Nat : k < i => <<k, i>> \in below
  OBVIOUS
<1> HIDE DEF below
<1>3. PICK i \in T : \A k \in T : ~ (<<k, i>> \in below)
  BY <1>1, WFMin
<1>4. \A k \in T : ~ k < i
  BY <1>2, <1>3
<1> QED
  BY <1>3, <1>4

LEMMA FirstIsOne ==
  ASSUME ShownInv, NEW todo \in SUBSET Candidates, todo # {}
  PROVE  First(todo) \in todo
<1> DEFINE T == {i \in DOMAIN order : order[i] \in todo}
<1>1. T \in SUBSET Nat
  BY DEF ShownInv, QuestionsOK
<1>2. PICK s \in todo : TRUE
  OBVIOUS
<1>3. s \in Sources /\ source[s] # "absent"
  BY <1>2 DEF Candidates
<1>4. T # {}
  BY <1>2, <1>3 DEF ShownInv, QuestionsOK
<1>5. \E i \in T : \A k \in T : i <= k
  BY <1>1, <1>4, LeastPlace
<1>6. \E i \in DOMAIN order :
        order[i] \in todo /\ \A k \in DOMAIN order : order[k] \in todo => i <= k
  BY <1>5
<1> QED
  BY <1>6 DEF First

\* A source that occurs is one that has not occurred before.
Occurs == \A x \in Sources : source'[x] = "absent" => source[x] = "absent"

LEMMA PacketsStay ==
  ASSUME ShownInv, UNCHANGED <<packet, page>>, Occurs,
         policy' \in Nat, policy <= policy', receipts \subseteq receipts'
  PROVE  PacketsOK'
<1>1. policy \in Nat
  BY DEF ShownInv, QuestionsOK, WellFormed
<1>2. ASSUME NEW p \in Packets
      PROVE  /\ Sound(p, packet[p], page[p], policy', receipts')
             /\ source'[p[1]] = "absent" => packet[p].status = "none"
  <2>1. Sound(p, packet[p], page[p], policy, receipts)
    BY DEF ShownInv, PacketsOK
  <2>2. Sound(p, packet[p], page[p], policy', receipts')
    BY <1>1, <2>1, SoundStays
  <2>3. p[1] \in Sources
    BY DEF Packets
  <2> QED
    BY <2>2, <2>3 DEF ShownInv, PacketsOK, Occurs
<1>3. \A p \in Packets :
        /\ Sound(p, packet'[p], page'[p], policy', receipts')
        /\ source'[p[1]] = "absent" => packet'[p].status = "none"
  BY <1>2
<1> QED
  BY <1>3 DEF ShownInv, PacketsOK

LEMMA OnePacket ==
  ASSUME ShownInv, NEW p \in Packets, NEW d, NEW f, Sound(p, d, f, policy, receipts),
         packet' = [packet EXCEPT ![p] = d], page' = [page EXCEPT ![p] = f],
         UNCHANGED <<policy, receipts>>, Occurs, source'[p[1]] = "absent" => d.status = "none"
  PROVE  PacketsOK'
<1>1. packet \in [Packets -> PacketRecords] /\ page \in [Packets -> [1..MaxRevision -> PageRecords]]
  BY DEF ShownInv, PacketsOK
<1>2. d \in PacketRecords /\ f \in [1..MaxRevision -> PageRecords]
  BY DEF Sound
<1>3. packet' \in [Packets -> PacketRecords] /\ page' \in [Packets -> [1..MaxRevision -> PageRecords]]
  BY <1>1, <1>2
<1>4. ASSUME NEW q \in Packets
      PROVE  /\ Sound(q, packet'[q], page'[q], policy', receipts')
             /\ source'[q[1]] = "absent" => packet'[q].status = "none"
  <2>1. CASE q = p
    <3>1. packet'[q] = d /\ page'[q] = f
      BY <1>1, <2>1
    <3> QED
      BY <2>1, <3>1
  <2>2. CASE q # p
    <3>1. packet'[q] = packet[q] /\ page'[q] = page[q]
      BY <1>1, <2>2
    <3>2. q[1] \in Sources
      BY DEF Packets
    <3>3. Sound(q, packet[q], page[q], policy, receipts) /\ (source[q[1]] = "absent" => packet[q].status = "none")
      BY DEF ShownInv, PacketsOK
    <3> QED
      BY <3>1, <3>2, <3>3 DEF Occurs
  <2> QED
    BY <2>1, <2>2
<1> QED
  BY <1>3, <1>4 DEF PacketsOK

LEMMA StaleIsOK ==
  ASSUME reading' = Stale
  PROVE  ReadingOK'
BY DEF Stale, ReadingOK

LEMMA RevisesKeepsPackets ==
  ASSUME ShownInv, NEW s \in Sources, Revises(s), ~Closed(s),
         UNCHANGED <<policy, receipts>>, Occurs, source'[s] # "absent"
  PROVE  PacketsOK'
<1> DEFINE p == PacketOf(s)
           n == packet[p].revision + 1
           kept == IF packet[p].status = "open" THEN WithoutPages(p) ELSE page[p]
<1>1. /\ MaxRun \in [Sources -> Nat] /\ MaxPolicy \in Nat /\ MaxRevision \in Nat
      /\ run \in [Sources -> Nat] /\ run[s] <= MaxRun[s] /\ policy \in 0..MaxPolicy
      /\ packet \in [Packets -> PacketRecords]
  BY DEF ShownInv, WellFormed, QuestionsOK, PacketsOK
<1>2. p \in Packets /\ p[1] = s /\ p[2] = (run[s] > 0) /\ p \in PacketsOf(s)
  <2>1. run[s] \in Nat /\ MaxRun[s] \in Nat
    BY <1>1
  <2>2. CASE run[s] > 0
    <3>1. (run[s] > 0) = TRUE
      BY <2>2
    <3>2. p = <<s, TRUE>>
      BY <3>1 DEF PacketOf
    <3>3. MaxRun[s] > 0
      BY <1>1, <2>1, <2>2
    <3> HIDE DEF p
    <3> QED
      BY <3>1, <3>2, <3>3 DEF Packets, PacketsOf
  <2>3. CASE ~(run[s] > 0)
    <3>1. (run[s] > 0) = FALSE
      BY <2>3
    <3>2. p = <<s, FALSE>>
      BY <3>1 DEF PacketOf
    <3> HIDE DEF p
    <3> QED
      BY <3>1, <3>2 DEF Packets, PacketsOf
  <2> QED
    BY <2>2, <2>3
<1>3. Sound(p, packet[p], page[p], policy, receipts)
  BY <1>2 DEF ShownInv, PacketsOK
<1>4. packet[p].status \in {"none", "open"}
  <2>1. packet[p] \in PacketRecords
    BY <1>1, <1>2
  <2> QED
    BY <1>2, <2>1 DEF Closed, PacketRecords
<1>5. /\ n <= MaxRevision /\ packet' = [packet EXCEPT ![p] = Revised(s, n)]
      /\ page' = [page EXCEPT ![p] = IF Paged(s) THEN [kept EXCEPT ![n] = Settled("pending")] ELSE kept]
  BY DEF Revises
<1>6. Revised(s, n) =
        [status |-> "open", revision |-> n, acked |-> FALSE, run |-> run[s], policy |-> policy]
  BY DEF Revised, Material
<1>7. PICK paged \in BOOLEAN : paged <=> Paged(s)
  OBVIOUS
<1>8. kept = IF packet[p].status = "open"
             THEN [page[p] EXCEPT ![packet[p].revision] = IF Live(@) THEN Settled("obsolete") ELSE @]
             ELSE page[p]
  BY DEF WithoutPages
<1>9. p[1] \in Reserved => paged
  BY <1>2, <1>7 DEF Paged
<1>10. run[s] \in Nat /\ (run[s] > 0) = p[2]
  BY <1>1, <1>2
<1>11. n = packet[p].revision + 1
  OBVIOUS
<1>12. PICK d, f, m, k, r, b : d = packet[p] /\ f = page[p] /\ m = n /\ k = kept /\ r = run[s] /\ b = policy
  OBVIOUS
<1> HIDE DEF p, n, kept
<1>13. Sound(p, [status |-> "open", revision |-> m, acked |-> FALSE, run |-> r, policy |-> b],
             IF paged THEN [k EXCEPT ![m] = Settled("pending")] ELSE k, b, receipts)
  <2>1. /\ b \in 0..MaxPolicy /\ Sound(p, d, f, b, receipts) /\ d.status \in {"none", "open"}
        /\ m = d.revision + 1 /\ m <= MaxRevision /\ r \in Nat /\ (r > 0) = p[2]
        /\ k = IF d.status = "open"
               THEN [f EXCEPT ![d.revision] = IF Live(@) THEN Settled("obsolete") ELSE @]
               ELSE f
    BY <1>1, <1>3, <1>4, <1>5, <1>8, <1>10, <1>11, <1>12
  <2> QED
    BY <1>1, <1>9, <2>1, SoundRevised
<1>14. Sound(p, Revised(s, n), IF Paged(s) THEN [kept EXCEPT ![n] = Settled("pending")] ELSE kept,
             policy, receipts)
  BY <1>6, <1>7, <1>12, <1>13
<1> QED
  BY <1>2, <1>5, <1>14, OnePacket

LEMMA WellFormedStays == WellFormed => WellFormed'
BY DEF WellFormed, Classified

LEMMA ReadingStays ==
  ASSUME ShownInv, UNCHANGED <<source, packet, reading>>
  PROVE  ReadingOK'
<1>1. Candidates' = Candidates
  BY DEF Candidates, Closed
<1> QED
  BY <1>1 DEF ShownInv, ReadingOK

LEMMA CallingStays ==
  ASSUME ShownInv, UNCHANGED <<calling, receipts>>
  PROVE  CallingOK'
BY DEF ShownInv, CallingOK

LEMMA ResolvesKeepsPackets ==
  ASSUME ShownInv, NEW p \in Packets, packet[p].status = "open", NEW status \in {"resolved", "expired"},
         Ends(p, status), UNCHANGED <<policy, page, receipts>>, Occurs
  PROVE  PacketsOK'
<1>1. packet \in [Packets -> PacketRecords] /\ page \in [Packets -> [1..MaxRevision -> PageRecords]]
      /\ Sound(p, packet[p], page[p], policy, receipts) /\ source[p[1]] # "absent"
  BY DEF ShownInv, PacketsOK
<1>2. packet' = [packet EXCEPT ![p] = [packet[p] EXCEPT !.status = status]]
      /\ page' = [page EXCEPT ![p] = page[p]]
  BY <1>1 DEF Ends
<1>3. Sound(p, [packet[p] EXCEPT !.status = status], page[p], policy, receipts)
  BY <1>1, SoundEnded
<1>4. source'[p[1]] # "absent"
  BY <1>1 DEF Occurs, Packets
<1> QED
  BY <1>2, <1>3, <1>4, OnePacket

LEMMA DeliveredKeepsPackets ==
  ASSUME ShownInv, NEW d \in Deliveries, Live(Delivery(d)), NEW rec \in PageRecords, Delivered(d, rec),
         rec.status \notin {"none", "obsolete"}, rec.status = "leased" <=> rec.lease # "none",
         rec.status = "delivered" => d \in receipts,
         UNCHANGED <<source, policy, packet, receipts>>
  PROVE  PacketsOK'
<1>1. PICK p \in Packets, n \in 1..MaxRevision : d = <<p, n>>
  BY DEF Deliveries
<1>2. d[1] = p /\ d[2] = n
  BY <1>1
<1>3. packet \in [Packets -> PacketRecords] /\ page \in [Packets -> [1..MaxRevision -> PageRecords]]
      /\ Sound(p, packet[p], page[p], policy, receipts)
      /\ (source[p[1]] = "absent" => packet[p].status = "none")
  BY DEF ShownInv, PacketsOK
<1>4. Live(page[p][n]) /\ page' = [page EXCEPT ![p] = [page[p] EXCEPT ![n] = rec]]
  BY <1>2 DEF Delivery, Delivered
<1>5. Sound(p, packet[p], [page[p] EXCEPT ![n] = rec], policy, receipts)
  BY <1>1, <1>3, <1>4, SoundDelivery
<1>6. packet' = [packet EXCEPT ![p] = packet[p]]
  BY <1>3
<1>7. Occurs /\ (source'[p[1]] = "absent" => packet[p].status = "none")
  BY <1>3 DEF Occurs
<1> QED
  BY <1>4, <1>5, <1>6, <1>7, OnePacket

-----------------------------------------------------------------------------
(* Every action keeps the invariant.                                       *)

LEMMA ReadSourcesStep ==
  ASSUME ShownInv, NEW c \in Compilers, ReadSources(c)
  PROVE  ShownInv'
<1>1. UNCHANGED <<source, order, run, inScope, late, policy, packet, page, calling, receipts, changes>>
      /\ reading' = [reading EXCEPT ![c] = Candidates]
  BY DEF ReadSources, questions, deliveries
<1>2. QuestionsOK'
  BY <1>1 DEF ShownInv, QuestionsOK
<1>3. PacketsOK'
  <2>1. Occurs /\ policy' \in Nat /\ policy <= policy' /\ receipts \subseteq receipts'
    BY <1>1 DEF Occurs, ShownInv, QuestionsOK, WellFormed
  <2> QED
    BY <1>1, <2>1, PacketsStay
<1>4. ReadingOK'
  <2>1. Candidates' = Candidates
    BY <1>1 DEF Candidates, Closed
  <2> QED
    BY <1>1, <2>1 DEF ShownInv, ReadingOK
<1> QED
  BY <1>1, <1>2, <1>3, <1>4, CallingStays, WellFormedStays DEF ShownInv

LEMMA CompileSourcesStep ==
  ASSUME ShownInv, NEW c \in Compilers, CompileSources(c)
  PROVE  ShownInv'
<1> DEFINE todo == Effective(reading[c])
           s == Foremost(reading[c])
<1>1. UNCHANGED <<source, order, run, inScope, late, policy, calling, receipts, changes>>
      /\ reading' = IF packet' = packet THEN [reading EXCEPT ![c] = {}] ELSE Stale
  BY DEF CompileSources, questions, deliveries
<1>2. QuestionsOK'
  BY <1>1 DEF ShownInv, QuestionsOK
<1>3. Occurs /\ policy' \in Nat /\ policy <= policy' /\ receipts \subseteq receipts'
  BY <1>1 DEF Occurs, ShownInv, QuestionsOK, WellFormed
<1>4. PacketsOK'
  <2>1. CASE todo = {} \/ Rejected(s)
    <3>1. UNCHANGED <<packet, page>>
      BY <2>1 DEF CompileSources
    <3> QED
      BY <1>3, <3>1, PacketsStay
  <2>2. CASE ~(todo = {} \/ Rejected(s))
    <3>1. Revises(s)
      BY <2>2 DEF CompileSources
    <3>2. reading[c] \subseteq Candidates
      BY DEF ShownInv, ReadingOK
    <3>3. todo \in SUBSET Candidates /\ todo # {}
      BY <2>2, <3>2 DEF Effective
    <3>4. s \in todo
      BY <3>3, FirstIsOne DEF Foremost
    <3>5. s \in Sources /\ source[s] = "open" /\ ~Closed(s)
      BY <3>3, <3>4 DEF Candidates
    <3> HIDE DEF s, todo
    <3>6. source'[s] # "absent"
      BY <1>1, <3>5
    <3> QED
      BY <1>1, <1>3, <3>1, <3>5, <3>6, RevisesKeepsPackets
  <2> QED
    BY <2>1, <2>2
<1>5. ReadingOK'
  <2>1. CASE packet' = packet
    <3>1. Candidates' = Candidates
      BY <1>1, <2>1 DEF Candidates, Closed
    <3> QED
      BY <1>1, <2>1, <3>1 DEF ShownInv, ReadingOK
  <2>2. CASE packet' # packet
    BY <1>1, <2>2, StaleIsOK
  <2> QED
    BY <2>1, <2>2
<1> QED
  BY <1>1, <1>2, <1>4, <1>5, CallingStays, WellFormedStays DEF ShownInv

\* A source that occurs is the last in the order.
LEMMA Ordered ==
  ASSUME ShownInv, NEW s \in Sources, source' = [source EXCEPT ![s] = "open"], order' = Append(order, s)
  PROVE  /\ source' \in [Sources -> {"absent", "open", "over"}] /\ order' \in Seq(Sources)
         /\ \A x \in Sources : source'[x] # "absent" => \E i \in DOMAIN order' : order'[i] = x
         /\ Occurs /\ source'[s] # "absent"
<1>1. source \in [Sources -> {"absent", "open", "over"}] /\ order \in Seq(Sources)
      /\ \A x \in Sources : source[x] # "absent" => \E i \in DOMAIN order : order[i] = x
  BY DEF ShownInv, QuestionsOK
<1>2. /\ order' \in Seq(Sources) /\ DOMAIN order' = 1..(Len(order) + 1) /\ DOMAIN order = 1..Len(order)
      /\ Len(order) \in Nat
      /\ order'[Len(order) + 1] = s /\ \A i \in DOMAIN order : order'[i] = order[i]
  BY <1>1
<1>3. ASSUME NEW x \in Sources, source'[x] # "absent"
      PROVE  \E i \in DOMAIN order' : order'[i] = x
  <2>1. CASE x = s
    BY <1>2, <2>1
  <2>2. CASE x # s
    <3>1. PICK i \in DOMAIN order : order[i] = x
      BY <1>1, <1>3, <2>2
    <3>2. i \in DOMAIN order' /\ order'[i] = x
      BY <1>2, <3>1
    <3> QED
      BY <3>2
  <2> QED
    BY <2>1, <2>2
<1>4. Occurs /\ source'[s] # "absent" /\ source' \in [Sources -> {"absent", "open", "over"}]
  BY <1>1 DEF Occurs
<1> QED
  BY <1>2, <1>3, <1>4

LEMMA RaiseSourceStep ==
  ASSUME ShownInv, NEW s \in Sources, RaiseSource(s)
  PROVE  ShownInv'
<1>1. UNCHANGED <<inScope, late, policy, packet, page, calling, receipts, changes>> /\ reading' = Stale
      /\ source' = [source EXCEPT ![s] = "open"] /\ order' = Append(order, s)
  BY DEF RaiseSource, deliveries
<1>2. PICK version \in {0} \cup 1..MaxRun[s] : run' = [run EXCEPT ![s] = version]
  BY DEF RaiseSource
<1>3. QuestionsOK'
  <2>1. run \in [Sources -> Nat] /\ (\A x \in Sources : run[x] <= MaxRun[x]) /\ MaxRun[s] \in Nat
    BY DEF ShownInv, QuestionsOK, WellFormed
  <2>2. version \in Nat /\ version <= MaxRun[s]
    BY <1>2, <2>1
  <2>3. run' \in [Sources -> Nat] /\ \A x \in Sources : run'[x] <= MaxRun[x]
    BY <1>2, <2>1, <2>2
  <2> QED
    BY <1>1, <2>3, Ordered DEF ShownInv, QuestionsOK
<1>4. PacketsOK'
  <2>1. Occurs
    BY <1>1, Ordered
  <2>2. policy' \in Nat /\ policy <= policy' /\ receipts \subseteq receipts'
    BY <1>1 DEF ShownInv, QuestionsOK, WellFormed
  <2> QED
    BY <1>1, <2>1, <2>2, PacketsStay
<1> QED
  BY <1>1, <1>3, <1>4, StaleIsOK, CallingStays, WellFormedStays DEF ShownInv

LEMMA RequestDecisionStep ==
  ASSUME ShownInv, NEW s \in Sources, RequestDecision(s)
  PROVE  ShownInv'
<1>1. UNCHANGED <<run, late, policy, calling, receipts, changes>> /\ reading' = Stale
      /\ source' = [source EXCEPT ![s] = "open"] /\ order' = Append(order, s)
      /\ inScope' = inScope \cup ({s} \cap Versioned) /\ Revises(s) /\ source[s] = "absent"
  BY DEF RequestDecision, deliveries
<1>2. QuestionsOK'
  BY <1>1, Ordered DEF ShownInv, QuestionsOK
<1>3. ~Closed(s)
  <2>1. \A p \in PacketsOf(s) : packet[p].status = "none"
    BY <1>1 DEF PacketsOf, ShownInv, PacketsOK
  <2> QED
    BY <2>1 DEF Closed
<1>4. PacketsOK'
  BY <1>1, <1>3, Ordered, RevisesKeepsPackets
<1> QED
  BY <1>1, <1>2, <1>4, StaleIsOK, CallingStays, WellFormedStays DEF ShownInv

LEMMA RunMovesStep ==
  ASSUME ShownInv, NEW s \in Sources, RunMoves(s)
  PROVE  ShownInv'
<1>1. UNCHANGED <<source, order, inScope, late, policy, packet, page, calling, receipts>> /\ reading' = Stale
      /\ changes < MaxChanges /\ changes' = changes + 1
  BY DEF RunMoves, deliveries, Change
<1>2. PICK version \in {0, run[s] + 1} \cap 0..MaxRun[s] : run' = [run EXCEPT ![s] = version]
  BY DEF RunMoves
<1>3. QuestionsOK'
  <2>1. run \in [Sources -> Nat] /\ (\A x \in Sources : run[x] <= MaxRun[x]) /\ MaxRun[s] \in Nat
        /\ changes \in 0..MaxChanges /\ MaxChanges \in Nat
    BY DEF ShownInv, QuestionsOK, WellFormed
  <2>2. version \in Nat /\ version <= MaxRun[s] /\ changes' \in 0..MaxChanges
    BY <1>1, <1>2, <2>1
  <2>3. run' \in [Sources -> Nat] /\ \A x \in Sources : run'[x] <= MaxRun[x]
    BY <1>2, <2>1, <2>2
  <2> QED
    BY <1>1, <2>2, <2>3 DEF ShownInv, QuestionsOK
<1>4. PacketsOK'
  <2>1. Occurs /\ policy' \in Nat /\ policy <= policy' /\ receipts \subseteq receipts'
    BY <1>1 DEF Occurs, ShownInv, QuestionsOK, WellFormed
  <2> QED
    BY <1>1, <2>1, PacketsStay
<1> QED
  BY <1>1, <1>3, <1>4, StaleIsOK, CallingStays, WellFormedStays DEF ShownInv

LEMMA ProgramMovesStep ==
  ASSUME ShownInv, ProgramMoves
  PROVE  ShownInv'
<1>1. UNCHANGED <<source, order, run, late, policy, packet, page, calling, receipts>> /\ reading' = Stale
      /\ inScope' = {} /\ changes < MaxChanges /\ changes' = changes + 1
  BY DEF ProgramMoves, deliveries, Change
<1>2. QuestionsOK'
  BY <1>1 DEF ShownInv, QuestionsOK, WellFormed
<1>3. PacketsOK'
  <2>1. Occurs /\ policy' \in Nat /\ policy <= policy' /\ receipts \subseteq receipts'
    BY <1>1 DEF Occurs, ShownInv, QuestionsOK, WellFormed
  <2> QED
    BY <1>1, <2>1, PacketsStay
<1> QED
  BY <1>1, <1>2, <1>3, StaleIsOK, CallingStays, WellFormedStays DEF ShownInv

LEMMA ResolveDirectlyStep ==
  ASSUME ShownInv, NEW s \in Sources, ResolveDirectly(s)
  PROVE  ShownInv'
<1>1. UNCHANGED <<order, run, inScope, late, policy, packet, page, calling, receipts, changes>>
      /\ reading' = Stale /\ source[s] = "open" /\ source' = [source EXCEPT ![s] = "over"]
  BY DEF ResolveDirectly, deliveries
<1>2. QuestionsOK'
  BY <1>1 DEF ShownInv, QuestionsOK
<1>3. PacketsOK'
  <2>1. Occurs /\ policy' \in Nat /\ policy <= policy' /\ receipts \subseteq receipts'
    BY <1>1 DEF Occurs, ShownInv, QuestionsOK, WellFormed
  <2> QED
    BY <1>1, <2>1, PacketsStay
<1> QED
  BY <1>1, <1>2, <1>3, StaleIsOK, CallingStays, WellFormedStays DEF ShownInv

LEMMA DeadlinePassesStep ==
  ASSUME ShownInv, NEW s \in Sources, DeadlinePasses(s)
  PROVE  ShownInv'
<1>1. UNCHANGED <<source, order, run, inScope, policy, packet, page, reading, calling, receipts>>
      /\ s \in Timed /\ late' = late \cup {s} /\ changes < MaxChanges /\ changes' = changes + 1
  BY DEF DeadlinePasses, deliveries, Change
<1>2. QuestionsOK'
  BY <1>1 DEF ShownInv, QuestionsOK, WellFormed
<1>3. PacketsOK'
  <2>1. Occurs /\ policy' \in Nat /\ policy <= policy' /\ receipts \subseteq receipts'
    BY <1>1 DEF Occurs, ShownInv, QuestionsOK, WellFormed
  <2> QED
    BY <1>1, <2>1, PacketsStay
<1> QED
  BY <1>1, <1>2, <1>3, ReadingStays, CallingStays, WellFormedStays DEF ShownInv

LEMMA ApprovePolicyStep ==
  ASSUME ShownInv, ApprovePolicy
  PROVE  ShownInv'
<1>1. UNCHANGED <<source, order, run, inScope, late, packet, page, calling, receipts>> /\ reading' = Stale
      /\ policy < MaxPolicy /\ policy' = policy + 1 /\ changes < MaxChanges /\ changes' = changes + 1
  BY DEF ApprovePolicy, questions, deliveries, Change
<1>2. QuestionsOK'
  BY <1>1 DEF ShownInv, QuestionsOK, WellFormed
<1>3. PacketsOK'
  <2>1. Occurs /\ policy' \in Nat /\ policy <= policy' /\ receipts \subseteq receipts'
    BY <1>1 DEF Occurs, ShownInv, QuestionsOK, WellFormed
  <2> QED
    BY <1>1, <2>1, PacketsStay
<1> QED
  BY <1>1, <1>2, <1>3, StaleIsOK, CallingStays, WellFormedStays DEF ShownInv

LEMMA AcknowledgeStep ==
  ASSUME ShownInv, NEW p \in Packets, Acknowledge(p)
  PROVE  ShownInv'
<1>1. UNCHANGED <<source, order, run, inScope, late, policy, calling, receipts, changes>>
      /\ reading' = Stale /\ packet[p].status = "open"
      /\ packet' = [packet EXCEPT ![p] = [packet[p] EXCEPT !.acked = TRUE]]
      /\ page' = [page EXCEPT ![p] = WithoutPages(p)]
  BY DEF Acknowledge, Acknowledged, questions, deliveries
<1>2. QuestionsOK'
  BY <1>1 DEF ShownInv, QuestionsOK
<1>3. PacketsOK'
  <2>1. Sound(p, packet[p], page[p], policy, receipts) /\ source[p[1]] # "absent" /\ MaxRevision \in Nat
    BY <1>1 DEF ShownInv, PacketsOK, WellFormed
  <2>2. Sound(p, [packet[p] EXCEPT !.acked = TRUE], WithoutPages(p), policy, receipts)
    BY <1>1, <2>1, SoundAcknowledged DEF WithoutPages
  <2>3. Occurs /\ source'[p[1]] # "absent"
    BY <1>1, <2>1 DEF Occurs
  <2> QED
    BY <1>1, <2>2, <2>3, OnePacket
<1> QED
  BY <1>1, <1>2, <1>3, StaleIsOK, CallingStays, WellFormedStays DEF ShownInv

\* Whatever a decision is about, its packet is resolved.
LEMMA ResolvesStep ==
  ASSUME ShownInv, NEW p \in Packets, Resolves(p), Occurs, source' \in [Sources -> {"absent", "open", "over"}],
         \A x \in Sources : source'[x] # "absent" => source[x] # "absent",
         run' \in [Sources -> Nat], \A x \in Sources : run'[x] <= run[x], inScope' \subseteq inScope
  PROVE  ShownInv'
<1>1. UNCHANGED <<order, late, policy, page, calling, receipts, changes>>
      /\ reading' = Stale /\ packet[p].status = "open" /\ Ends(p, "resolved")
  BY DEF Resolves, deliveries
<1>2. QuestionsOK'
  <2>1. \A x \in Sources : run'[x] <= MaxRun[x]
    <3>1. MaxRun \in [Sources -> Nat] /\ run \in [Sources -> Nat] /\ \A x \in Sources : run[x] <= MaxRun[x]
      BY DEF ShownInv, QuestionsOK, WellFormed
    <3> QED
      BY <3>1
  <2> QED
    BY <1>1, <2>1 DEF ShownInv, QuestionsOK
<1>3. PacketsOK'
  BY <1>1, ResolvesKeepsPackets
<1> QED
  BY <1>1, <1>2, <1>3, StaleIsOK, CallingStays, WellFormedStays DEF ShownInv

LEMMA DecisionSteps ==
  ASSUME ShownInv, NEW p \in Packets, DecideSource(p) \/ ApproveRecord(p) \/ DecideProgram(p) \/ CancelRun(p)
  PROVE  ShownInv'
<1>1. source \in [Sources -> {"absent", "open", "over"}] /\ run \in [Sources -> Nat]
      /\ p[1] \in Sources /\ (\A x \in Sources : run[x] <= run[x])
  BY DEF ShownInv, QuestionsOK, Packets
<1>2. CASE DecideSource(p)
  <2>1. Resolves(p) /\ UNCHANGED <<run, inScope>> /\ source[p[1]] = "open"
        /\ source' = [source EXCEPT ![p[1]] = "over"]
    BY <1>2 DEF DecideSource
  <2>2. Occurs /\ source' \in [Sources -> {"absent", "open", "over"}]
        /\ \A x \in Sources : source'[x] # "absent" => source[x] # "absent"
    BY <1>1, <2>1 DEF Occurs
  <2> QED
    BY <1>1, <2>1, <2>2, ResolvesStep
<1>3. CASE ApproveRecord(p)
  <2>1. Resolves(p) /\ UNCHANGED <<source, run, inScope>>
    BY <1>3 DEF ApproveRecord
  <2> QED
    BY <1>1, <2>1, ResolvesStep DEF Occurs
<1>4. CASE DecideProgram(p)
  <2>1. Resolves(p) /\ UNCHANGED <<source, run>> /\ inScope' = {}
    BY <1>4 DEF DecideProgram
  <2> QED
    BY <1>1, <2>1, ResolvesStep DEF Occurs
<1>5. CASE CancelRun(p)
  <2>1. Resolves(p) /\ UNCHANGED <<source, inScope>> /\ run' = [run EXCEPT ![p[1]] = 0]
    BY <1>5 DEF CancelRun
  <2>2. run' \in [Sources -> Nat] /\ \A x \in Sources : run'[x] <= run[x]
    BY <1>1, <2>1
  <2> QED
    BY <1>1, <2>1, <2>2, ResolvesStep DEF Occurs
<1> QED
  BY <1>2, <1>3, <1>4, <1>5

LEMMA ExpireDecisionStep ==
  ASSUME ShownInv, NEW p \in Packets, ExpireDecision(p)
  PROVE  ShownInv'
<1>1. UNCHANGED <<source, order, run, inScope, late, policy, page, calling, receipts, changes>>
      /\ reading' = Stale /\ packet[p].status = "open" /\ Ends(p, "expired")
  BY DEF ExpireDecision, questions, deliveries
<1>2. QuestionsOK'
  BY <1>1 DEF ShownInv, QuestionsOK
<1>3. PacketsOK'
  BY <1>1, ResolvesKeepsPackets DEF Occurs
<1> QED
  BY <1>1, <1>2, <1>3, StaleIsOK, CallingStays, WellFormedStays DEF ShownInv

\* What a delivery is recorded as.
LEMMA DeliveryType ==
  ASSUME ShownInv, NEW d \in Deliveries
  PROVE  Delivery(d) \in PageRecords /\ (Delivery(d).status = "leased" <=> Delivery(d).lease # "none")
<1>1. PICK p \in Packets, n \in 1..MaxRevision : d = <<p, n>>
  BY DEF Deliveries
<1>2. Delivery(d) = page[p][n]
  BY <1>1 DEF Delivery
<1>3. Sound(p, packet[p], page[p], policy, receipts)
  BY DEF ShownInv, PacketsOK
<1> QED
  BY <1>2, <1>3 DEF Sound

LEMMA LeasedType ==
  ASSUME NEW e \in PageRecords, NEW w \in Pagers
  PROVE  LET rec == [e EXCEPT !.status = "leased", !.attempts = @ + 1, !.owner = w, !.lease = "held"]
         IN rec \in PageRecords /\ rec.status = "leased" /\ rec.lease = "held"
<1> DEFINE rec == [e EXCEPT !.status = "leased", !.attempts = @ + 1, !.owner = w, !.lease = "held"]
<1>1. PICK e1 : e1 = [e EXCEPT !.status = "leased"]
  OBVIOUS
<1>2. e1 \in PageRecords /\ e1.status = "leased"
  BY <1>1 DEF PageRecords
<1>3. PICK e2 : e2 = [e1 EXCEPT !.attempts = @ + 1]
  OBVIOUS
<1>4. e2 \in PageRecords /\ e2.status = "leased"
  BY <1>2, <1>3 DEF PageRecords
<1>5. PICK e3 : e3 = [e2 EXCEPT !.owner = w]
  OBVIOUS
<1>6. e3 \in PageRecords /\ e3.status = "leased"
  BY <1>4, <1>5 DEF PageRecords
<1>7. rec = [e3 EXCEPT !.lease = "held"]
  BY <1>1, <1>3, <1>5
<1> HIDE DEF rec
<1>8. rec \in PageRecords /\ rec.status = "leased" /\ rec.lease = "held"
  BY <1>6, <1>7 DEF PageRecords
<1> QED
  BY <1>8 DEF rec

LEMMA AcquireDeliveryStep ==
  ASSUME ShownInv, NEW w \in Pagers, NEW d \in Deliveries, AcquireDelivery(w, d)
  PROVE  ShownInv'
<1> DEFINE rec == [Delivery(d) EXCEPT !.status = "leased", !.attempts = @ + 1, !.owner = w, !.lease = "held"]
<1>1. UNCHANGED <<source, order, run, inScope, late, policy, packet, calling, receipts, changes>>
      /\ reading' = Stale /\ Delivered(d, rec)
      /\ (Delivery(d).status = "pending" \/ Delivery(d).lease = "expired")
  BY DEF AcquireDelivery, questions, deliveries
<1>2. QuestionsOK'
  BY <1>1 DEF ShownInv, QuestionsOK
<1>3. PacketsOK'
  <2>1. Delivery(d) \in PageRecords /\ Live(Delivery(d))
    BY <1>1, DeliveryType DEF Live
  <2>2. rec \in PageRecords /\ rec.status = "leased" /\ rec.lease = "held"
    BY <2>1, LeasedType
  <2> HIDE DEF rec
  <2> QED
    BY <1>1, <2>1, <2>2, DeliveredKeepsPackets
<1> QED
  BY <1>1, <1>2, <1>3, StaleIsOK, CallingStays, WellFormedStays DEF ShownInv

LEMMA CallProviderStep ==
  ASSUME ShownInv, NEW w \in Pagers, NEW d \in Deliveries, CallProvider(w, d)
  PROVE  ShownInv'
<1>1. UNCHANGED <<source, order, run, inScope, late, policy, packet, page, reading, changes>>
  BY DEF CallProvider, questions
<1>2. PICK answer \in {"accepted", "refused", "permanent"} :
        /\ calling' = [calling EXCEPT ![w] = [delivery |-> d, fence |-> Delivery(d).attempts, answer |-> answer]]
        /\ receipts' = IF answer = "accepted" THEN receipts \cup {d} ELSE receipts
  BY DEF CallProvider
<1>3. QuestionsOK'
  BY <1>1 DEF ShownInv, QuestionsOK
<1>4. PacketsOK'
  <2>1. Occurs /\ policy' \in Nat /\ policy <= policy'
    BY <1>1 DEF Occurs, ShownInv, QuestionsOK, WellFormed
  <2>2. receipts \subseteq receipts'
    BY <1>2
  <2> QED
    BY <1>1, <2>1, <2>2, PacketsStay
<1>5. CallingOK'
  <2> DEFINE call == [delivery |-> d, fence |-> Delivery(d).attempts, answer |-> answer]
  <2>1. calling \in [Pagers -> Calls] /\ receipts \subseteq Deliveries
        /\ \A x \in Pagers :
             /\ calling[x].answer # "none" => calling[x].delivery \in Deliveries
             /\ calling[x].answer = "accepted" => calling[x].delivery \in receipts
    BY DEF ShownInv, CallingOK
  <2>2. call \in Calls /\ call.delivery = d /\ call.answer = answer
    <3>1. Delivery(d).attempts \in Nat
      BY DeliveryType DEF PageRecords
    <3> QED
      BY <3>1 DEF Calls
  <2> HIDE DEF call
  <2>3. calling' = [calling EXCEPT ![w] = call]
    BY <1>2 DEF call
  <2>4. receipts \subseteq receipts' /\ receipts' \subseteq Deliveries /\ (answer = "accepted" => d \in receipts')
    BY <1>2, <2>1
  <2>5. calling' \in [Pagers -> Calls]
    BY <2>1, <2>2, <2>3
  <2>6. ASSUME NEW x \in Pagers
        PROVE  /\ calling'[x].answer # "none" => calling'[x].delivery \in Deliveries
               /\ calling'[x].answer = "accepted" => calling'[x].delivery \in receipts'
    <3>1. CASE x = w
      <4>1. calling'[x] = call
        BY <2>1, <2>3, <3>1
      <4> QED
        BY <2>2, <2>4, <4>1
    <3>2. CASE x # w
      <4>1. calling'[x] = calling[x]
        BY <2>1, <2>3, <3>2
      <4> QED
        BY <2>1, <2>4, <4>1
    <3> QED
      BY <3>1, <3>2
  <2>7. Deliveries' = Deliveries /\ Calls' = Calls
    BY DEF Deliveries, Calls
  <2> QED
    BY <2>4, <2>5, <2>6, <2>7 DEF CallingOK
<1> QED
  BY <1>1, <1>3, <1>4, <1>5, ReadingStays, WellFormedStays DEF ShownInv

\* A pager forgets what it has sent.
LEMMA ForgetsCall ==
  ASSUME ShownInv, NEW w \in Pagers, calling' = [calling EXCEPT ![w] = NotCalling], receipts' = receipts
  PROVE  CallingOK'
<1>1. NotCalling \in Calls /\ NotCalling.answer = "none"
  BY DEF NotCalling, Calls
<1>2. calling \in [Pagers -> Calls] /\ receipts \subseteq Deliveries
      /\ \A x \in Pagers :
           /\ calling[x].answer # "none" => calling[x].delivery \in Deliveries
           /\ calling[x].answer = "accepted" => calling[x].delivery \in receipts
  BY DEF ShownInv, CallingOK
<1>3. calling' \in [Pagers -> Calls]
  BY <1>1, <1>2
<1>4. ASSUME NEW x \in Pagers
      PROVE  /\ calling'[x].answer # "none" => calling'[x].delivery \in Deliveries
             /\ calling'[x].answer = "accepted" => calling'[x].delivery \in receipts'
  <2>1. CASE x = w
    <3>1. calling'[x] = NotCalling
      BY <1>2, <2>1
    <3> QED
      BY <1>1, <3>1
  <2>2. CASE x # w
    <3>1. calling'[x] = calling[x]
      BY <1>2, <2>2
    <3> QED
      BY <1>2, <3>1
  <2> QED
    BY <2>1, <2>2
<1>5. Deliveries' = Deliveries /\ Calls' = Calls
  BY DEF Deliveries, Calls
<1> QED
  BY <1>2, <1>3, <1>4, <1>5 DEF CallingOK

\* Nothing changes but what is forgotten.
LEMMA ForgottenStep ==
  ASSUME ShownInv, NEW w \in Pagers, calling' = [calling EXCEPT ![w] = NotCalling],
         UNCHANGED <<source, order, run, inScope, late, policy, packet, page, reading, receipts, changes>>
  PROVE  ShownInv'
<1>1. QuestionsOK'
  BY DEF ShownInv, QuestionsOK
<1>2. PacketsOK'
  <2>1. Occurs /\ policy' \in Nat /\ policy <= policy' /\ receipts \subseteq receipts'
    BY DEF Occurs, ShownInv, QuestionsOK, WellFormed
  <2> QED
    BY <2>1, PacketsStay
<1> QED
  BY <1>1, <1>2, ReadingStays, ForgetsCall, WellFormedStays DEF ShownInv

\* What is recorded was under way until then.
LEMMA RecordedStep ==
  ASSUME ShownInv, NEW w \in Pagers, calling' = [calling EXCEPT ![w] = NotCalling],
         calling[w].delivery \in Deliveries, Current(w), NEW rec \in PageRecords, Recorded(w, rec),
         rec.status \in {"pending", "delivered", "failed"}, rec.lease = "none",
         rec.status = "delivered" => calling[w].delivery \in receipts,
         UNCHANGED <<source, order, run, inScope, late, policy, packet, receipts, changes>>
  PROVE  ShownInv'
<1>1. QuestionsOK'
  BY DEF ShownInv, QuestionsOK
<1>2. Live(Delivery(calling[w].delivery)) /\ Delivered(calling[w].delivery, rec) /\ reading' = Stale
  BY DEF Current, Live, Recorded
<1>3. PacketsOK'
  BY <1>2, DeliveredKeepsPackets
<1> QED
  BY <1>1, <1>2, <1>3, StaleIsOK, ForgetsCall, WellFormedStays DEF ShownInv

LEMMA ReportSuccessStep ==
  ASSUME ShownInv, NEW w \in Pagers, ReportSuccess(w)
  PROVE  ShownInv'
<1>1. UNCHANGED <<source, order, run, inScope, late, policy, packet, receipts, changes>>
      /\ calling' = [calling EXCEPT ![w] = NotCalling] /\ calling[w].answer = "accepted"
  BY DEF ReportSuccess, questions
<1>2. calling[w].delivery \in Deliveries /\ calling[w].delivery \in receipts
  BY <1>1 DEF ShownInv, CallingOK
<1>3. CASE Current(w) /\ Held(w, calling[w].delivery)
  <2>1. Recorded(w, Settled("delivered"))
    BY <1>3 DEF ReportSuccess
  <2>2. Settled("delivered") \in PageRecords /\ Settled("delivered").status = "delivered"
        /\ Settled("delivered").lease = "none"
    BY SettledType
  <2> QED
    BY <1>1, <1>2, <1>3, <2>1, <2>2, RecordedStep
<1>4. CASE ~(Current(w) /\ Held(w, calling[w].delivery))
  <2>1. UNCHANGED <<page, reading>>
    BY <1>4 DEF ReportSuccess, Forgotten
  <2> QED
    BY <1>1, <2>1, ForgottenStep
<1> QED
  BY <1>3, <1>4

LEMMA ReportFailureStep ==
  ASSUME ShownInv, NEW w \in Pagers, ReportFailure(w)
  PROVE  ShownInv'
<1> DEFINE d == Delivery(calling[w].delivery)
           rec == IF GivesUp(d, calling[w].answer) THEN Settled("failed")
                  ELSE [Settled("pending") EXCEPT !.attempts = d.attempts]
<1>1. UNCHANGED <<source, order, run, inScope, late, policy, packet, receipts, changes>>
      /\ calling' = [calling EXCEPT ![w] = NotCalling] /\ calling[w].answer \in {"refused", "permanent"}
  BY DEF ReportFailure, questions
<1>2. calling[w].delivery \in Deliveries
  BY <1>1 DEF ShownInv, CallingOK
<1>3. CASE Current(w)
  <2>1. Recorded(w, rec)
    BY <1>3 DEF ReportFailure
  <2>2. d.attempts \in Nat
    BY <1>2, DeliveryType DEF PageRecords
  <2>3. Settled("pending") \in PageRecords /\ Settled("failed") \in PageRecords
        /\ Settled("pending").status = "pending" /\ Settled("pending").lease = "none"
        /\ Settled("failed").status = "failed" /\ Settled("failed").lease = "none"
    BY SettledType
  <2> HIDE DEF d
  <2>4. rec \in PageRecords /\ rec.status \in {"pending", "failed"} /\ rec.lease = "none"
    BY <2>2, <2>3 DEF PageRecords
  <2> HIDE DEF rec
  <2> QED
    BY <1>1, <1>2, <1>3, <2>1, <2>4, RecordedStep
<1>4. CASE ~Current(w)
  <2>1. UNCHANGED <<page, reading>>
    BY <1>4 DEF ReportFailure, Forgotten
  <2> QED
    BY <1>1, <2>1, ForgottenStep
<1> QED
  BY <1>3, <1>4

LEMMA LeaseExpiresStep ==
  ASSUME ShownInv, NEW d \in Deliveries, LeaseExpires(d)
  PROVE  ShownInv'
<1> DEFINE rec == [Delivery(d) EXCEPT !.lease = "expired"]
<1>1. UNCHANGED <<source, order, run, inScope, late, policy, packet, reading, calling, receipts>>
      /\ Delivered(d, rec) /\ Delivery(d).lease = "held" /\ changes < MaxChanges /\ changes' = changes + 1
  BY DEF LeaseExpires, questions, deliveries, Change
<1>2. QuestionsOK'
  BY <1>1 DEF ShownInv, QuestionsOK, WellFormed
<1>3. PacketsOK'
  <2>1. Delivery(d) \in PageRecords /\ Live(Delivery(d)) /\ Delivery(d).status = "leased"
    BY <1>1, DeliveryType DEF Live
  <2>2. rec \in PageRecords /\ rec.status = "leased" /\ rec.lease = "expired"
    BY <2>1 DEF PageRecords
  <2> HIDE DEF rec
  <2> QED
    BY <1>1, <2>1, <2>2, DeliveredKeepsPackets
<1> QED
  BY <1>1, <1>2, <1>3, ReadingStays, CallingStays, WellFormedStays DEF ShownInv

LEMMA CrashStep ==
  ASSUME ShownInv, NEW w \in Pagers, Crash(w)
  PROVE  ShownInv'
<1>1. UNCHANGED <<source, order, run, inScope, late, policy, packet, page, reading, receipts>>
      /\ calling' = [calling EXCEPT ![w] = NotCalling] /\ changes < MaxChanges /\ changes' = changes + 1
  BY DEF Crash, questions, Change
<1>2. QuestionsOK'
  BY <1>1 DEF ShownInv, QuestionsOK, WellFormed
<1>3. PacketsOK'
  <2>1. Occurs /\ policy' \in Nat /\ policy <= policy' /\ receipts \subseteq receipts'
    BY <1>1 DEF Occurs, ShownInv, QuestionsOK, WellFormed
  <2> QED
    BY <1>1, <2>1, PacketsStay
<1> QED
  BY <1>1, <1>2, <1>3, ReadingStays, ForgetsCall, WellFormedStays DEF ShownInv

LEMMA ShownInit ==
  ASSUME WellFormed, Init
  PROVE  ShownInv
<1>1. QuestionsOK
  BY DEF Init, QuestionsOK, WellFormed
<1>2. Unopened \in PacketRecords /\ NoPage \in PageRecords
  BY DEF WellFormed, Unopened, PacketRecords, NoPage, PageRecords
<1>3. PacketsOK
  <2>1. packet = [p \in Packets |-> Unopened] /\ page = [p \in Packets |-> [n \in 1..MaxRevision |-> NoPage]]
    BY DEF Init
  <2>2. ASSUME NEW p \in Packets
        PROVE  Sound(p, packet[p], page[p], policy, receipts) /\ packet[p].status = "none"
    <3>1. packet[p] = Unopened /\ page[p] = [n \in 1..MaxRevision |-> NoPage]
      BY <2>1
    <3>2. policy = 0
      BY DEF Init
    <3> QED
      BY <1>2, <3>1, <3>2 DEF Sound, Unopened, NoPage, Live
  <2> QED
    BY <1>2, <2>1, <2>2 DEF PacketsOK
<1>4. ReadingOK
  BY DEF Init, ReadingOK
<1>5. CallingOK
  BY DEF Init, CallingOK, NotCalling, Calls
<1> QED
  BY <1>1, <1>3, <1>4, <1>5 DEF ShownInv

LEMMA ShownNext ==
  ASSUME ShownInv, [Next]_vars
  PROVE  ShownInv'
<1>1. ASSUME NEW c \in Compilers, ReadSources(c) \/ CompileSources(c)
      PROVE  ShownInv'
  BY <1>1, ReadSourcesStep, CompileSourcesStep
<1>2. ASSUME NEW s \in Sources,
             RaiseSource(s) \/ RequestDecision(s) \/ RunMoves(s) \/ ResolveDirectly(s) \/ DeadlinePasses(s)
      PROVE  ShownInv'
  BY <1>2, RaiseSourceStep, RequestDecisionStep, RunMovesStep, ResolveDirectlyStep, DeadlinePassesStep
<1>3. ASSUME NEW p \in Packets,
             Acknowledge(p) \/ DecideSource(p) \/ ApproveRecord(p) \/ DecideProgram(p)
             \/ CancelRun(p) \/ ExpireDecision(p)
      PROVE  ShownInv'
  BY <1>3, AcknowledgeStep, DecisionSteps, ExpireDecisionStep
<1>4. ASSUME NEW d \in Deliveries, LeaseExpires(d)
      PROVE  ShownInv'
  BY <1>4, LeaseExpiresStep
<1>5. CASE ProgramMoves \/ ApprovePolicy
  BY <1>5, ProgramMovesStep, ApprovePolicyStep
<1>6. ASSUME NEW w \in Pagers, Paging(w) \/ Crash(w)
      PROVE  ShownInv'
  BY <1>6, AcquireDeliveryStep, CallProviderStep, ReportSuccessStep, ReportFailureStep, CrashStep DEF Paging
<1>7. CASE UNCHANGED vars
  <2>1. UNCHANGED <<source, order, run, inScope, late, policy, packet, page, reading, calling, receipts, changes>>
    BY <1>7 DEF vars
  <2>2. QuestionsOK'
    BY <2>1 DEF ShownInv, QuestionsOK
  <2>3. PacketsOK'
    BY <2>1 DEF ShownInv, PacketsOK
  <2> QED
    BY <2>1, <2>2, <2>3, ReadingStays, CallingStays, WellFormedStays DEF ShownInv
<1>8. CASE Next
  BY <1>1, <1>2, <1>3, <1>4, <1>5, <1>6, <1>8 DEF Next, Compiling, Asking, Deciding, Waiting
<1> QED
  BY <1>7, <1>8

(* What waits or is sent is the current revision, which nobody has         *)
(* acknowledged, and an open reserved decision has its page: revisions of  *)
(* attention.compile and attention.acknowledge take back what is under way *)
(* and nothing else does, whatever is read, leased and lost in between.    *)
THEOREM AttentionInvHolds == Spec => []AttentionInv
<1>1. Init => ShownInv
  BY AttentionAssumption, ShownInit
<1>2. ShownInv /\ [Next]_vars => ShownInv'
  BY ShownNext
<1>3. ShownInv => AttentionInv
  BY ShownIsAttentionInv
<1> QED
  BY <1>1, <1>2, <1>3, PTL DEF Spec
=============================================================================
