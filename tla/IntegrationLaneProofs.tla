------------------------ MODULE IntegrationLaneProofs ------------------------
(***************************************************************************)
(* Proofs about IntegrationLane, for any candidates, targets, supervisors, *)
(* overlaps, deaths and losses of leases: all that its run checks.         *)
(***************************************************************************)
EXTENDS IntegrationLane, WellFoundedInduction, SequenceTheorems, TLAPS

-----------------------------------------------------------------------------
(* The least of a set of numbers: what First and Earliest choose.          *)

LEMMA LeastNatural ==
  ASSUME NEW S, S \subseteq Nat, S # {}
  PROVE  \E n \in S : \A m \in S : n <= m
<1> DEFINE R == {pair \in Nat \X Nat : pair[1] < pair[2]}
<1>1. IsWellFoundedOn(R, Nat)
  BY NatLessThanWellFounded, Zenon DEF OpToRel
<1>2. \A m, n \in Nat : m < n => <<m, n>> \in R
  OBVIOUS
<1> HIDE DEF R
<1>3. PICK n \in S : \A m \in S : ~ (<<m, n>> \in R)
  BY <1>1, WFMin
<1>4. \A m \in S : ~ m < n
  BY <1>2, <1>3
<1> QED
  BY <1>3, <1>4

LEMMA FirstIsOne ==
  ASSUME TypeOK, NEW S, S \subseteq Queued, S # {}
  PROVE  First(S) \in S /\ First(S) \in Candidates
<1> DEFINE places == {i \in DOMAIN queue : queue[i] \in S}
<1>1. queue \in Seq(Candidates)
  BY DEF TypeOK
<1>2. DOMAIN queue = 1..Len(queue) /\ Len(queue) \in Nat
  BY <1>1, LenProperties
<1>3. places \subseteq Nat /\ places # {}
  BY <1>2 DEF Queued
<1>4. PICK i \in places : \A k \in places : i <= k
  BY <1>3, LeastNatural
<1>5. \E k \in DOMAIN queue :
        queue[k] \in S /\ \A m \in DOMAIN queue : queue[m] \in S => k <= m
  BY <1>4
<1>6. First(S) \in S
  BY <1>5 DEF First
<1>7. Queued \subseteq Candidates
  BY <1>1, <1>2, ElementOfSeq DEF Queued
<1> QED
  BY <1>6, <1>7

LEMMA EarliestIsOne ==
  ASSUME NEW S, S \subseteq Candidates, S # {}
  PROVE  Earliest(S) \in S
<1>1. Admission \in [Candidates -> Nat]
  BY IntegrationLaneAssumption
<1> DEFINE places == {Admission[c] : c \in S}
<1>2. places \subseteq Nat /\ places # {}
  BY <1>1
<1>3. PICK n \in places : \A m \in places : n <= m
  BY <1>2, LeastNatural
<1>4. PICK c \in S : Admission[c] = n
  OBVIOUS
<1>5. \A d \in S : Admission[c] <= Admission[d]
  BY <1>3, <1>4
<1> QED
  BY <1>4, <1>5 DEF Earliest

-----------------------------------------------------------------------------
(* Revisions.                                                              *)

\* A revision whose history is the beginning of that of another.
Begins(h, g) ==
  /\ Len(h) <= Len(g)
  /\ \A i \in 1..Len(h) : h[i] = g[i]

LEMMA RevisionType ==
  ASSUME NEW h \in Seq(Candidates)
  PROVE  Len(h) \in Nat /\ DOMAIN h = 1..Len(h) /\ \A i \in 1..Len(h) : h[i] \in Candidates
BY LenProperties, ElementOfSeq

LEMMA BeginsItself ==
  ASSUME NEW h \in Seq(Candidates)
  PROVE  Begins(h, h)
BY RevisionType DEF Begins

LEMMA EmptyBegins ==
  ASSUME NEW h \in Seq(Candidates)
  PROVE  Begins(<<>>, h)
BY RevisionType, EmptySeq DEF Begins

LEMMA RevisionOnTop ==
  ASSUME NEW h \in Seq(Candidates), NEW c \in Candidates
  PROVE  /\ Append(h, c) \in Seq(Candidates)
         /\ Len(Append(h, c)) = Len(h) + 1
         /\ DOMAIN Append(h, c) = 1..Len(h) + 1
         /\ \A i \in 1..Len(h) : Append(h, c)[i] = h[i]
         /\ Append(h, c)[Len(h) + 1] = c
         /\ Contents(Append(h, c)) = Contents(h) \cup {c}
         /\ Append(h, c) # h
         /\ \A i \in 1..Len(h) + 1 : SubSeq(Append(h, c), 1, i - 1) = SubSeq(h, 1, i - 1)
         /\ SubSeq(Append(h, c), 1, Len(h)) = h
<1> DEFINE g == Append(h, c)
<1>1. Len(h) \in Nat /\ DOMAIN h = 1..Len(h) /\ \A i \in 1..Len(h) : h[i] \in Candidates
  BY RevisionType
<1>2. g \in Seq(Candidates) /\ Len(g) = Len(h) + 1
      /\ (\A i \in 1..Len(h) : g[i] = h[i]) /\ g[Len(h) + 1] = c
  BY AppendProperties
<1>3. DOMAIN g = 1..Len(h) + 1 /\ \A i \in 1..Len(h) + 1 : g[i] \in Candidates
  BY <1>2, RevisionType
<1> HIDE DEF g
<1>4. Contents(g) = Contents(h) \cup {c}
  BY <1>1, <1>2, <1>3 DEF Contents
<1>5. ASSUME NEW i \in 1..Len(h) + 1
      PROVE  SubSeq(g, 1, i - 1) = SubSeq(h, 1, i - 1)
  <2>1. i - 1 \in Int /\ 1 \in Int /\ i - 1 <= Len(h)
    BY <1>1
  <2>2. (\A k \in 1..i - 1 : g[k] \in Candidates) /\ (\A k \in 1..i - 1 : h[k] \in Candidates)
    BY <1>1, <1>3, <2>1
  <2>3. /\ SubSeq(g, 1, i - 1) \in Seq(Candidates)
        /\ Len(SubSeq(g, 1, i - 1)) = IF 1 <= i - 1 THEN i - 1 - 1 + 1 ELSE 0
        /\ \A k \in 1..i - 1 - 1 + 1 : SubSeq(g, 1, i - 1)[k] = g[1 + k - 1]
    BY <2>1, <2>2, SubSeqProperties
  <2>4. /\ SubSeq(h, 1, i - 1) \in Seq(Candidates)
        /\ Len(SubSeq(h, 1, i - 1)) = IF 1 <= i - 1 THEN i - 1 - 1 + 1 ELSE 0
        /\ \A k \in 1..i - 1 - 1 + 1 : SubSeq(h, 1, i - 1)[k] = h[1 + k - 1]
    BY <2>1, <2>2, SubSeqProperties
  <2>5. \A k \in 1..i - 1 : SubSeq(g, 1, i - 1)[k] = SubSeq(h, 1, i - 1)[k]
    BY <1>1, <1>2, <2>1, <2>3, <2>4
  <2>6. Len(SubSeq(g, 1, i - 1)) = Len(SubSeq(h, 1, i - 1))
        /\ 1..Len(SubSeq(g, 1, i - 1)) = 1..i - 1
    BY <2>1, <2>3, <2>4
  <2> QED
    BY <2>3, <2>4, <2>5, <2>6, SeqEqual
<1>6. SubSeq(g, 1, Len(h)) = SubSeq(h, 1, Len(h))
  BY <1>1, <1>5, Len(h) + 1 \in 1..Len(h) + 1, Len(h) + 1 - 1 = Len(h)
<1>7. SubSeq(h, 1, Len(h)) = h
  BY SubSeqFull
<1>8. g # h
  BY <1>1, <1>2
<1> QED
  BY <1>2, <1>3, <1>4, <1>5, <1>6, <1>7, <1>8 DEF g

\* Two revisions that were made by one candidate each on top are made of the same.
LEMMA RevisionSplits ==
  ASSUME NEW h \in Seq(Candidates), NEW g \in Seq(Candidates),
         NEW c \in Candidates, NEW d \in Candidates, Append(h, c) = Append(g, d)
  PROVE  h = g /\ c = d
<1>1. Len(h) \in Nat /\ Len(g) \in Nat /\ Len(h) + 1 = Len(g) + 1
  BY RevisionOnTop, RevisionType
<1>2. c = d
  BY <1>1, RevisionOnTop
<1>3. \A i \in 1..Len(h) : h[i] = g[i]
  BY <1>1, RevisionOnTop
<1> QED
  BY <1>1, <1>2, <1>3, SeqEqual

-----------------------------------------------------------------------------
(* Type correctness.                                                       *)

WorkRecord ==
  [status : WorkStatuses, owner : Supervisors \cup {Nobody}, fence : Nat,
   lease : {"none", "live", "due", "lapsed"}, expected : Seq(Candidates),
   verdict : {"none", "passed", "failed"}, preds : SUBSET Candidates]

DoingRecord ==
  [step : {"idle", "queue", "rebase", "conflict", "verify", "promote"},
   cand : Candidates \cup {Nobody}, fence : Nat, seen : Seq(Candidates),
   preds : SUBSET Candidates]

DoingOK ==
  /\ doing \in [Supervisors -> DoingRecord]
  /\ \A s \in Supervisors : doing[s].step # "idle" => doing[s].cand \in Candidates

\* Exactly the candidates that have work are queued.
QueueOK == \A c \in Candidates : work[c].status = "absent" <=> c \notin Queued

Types == TypeOK /\ DoingOK /\ QueueOK

LEMMA WorkType ==
  ASSUME TypeOK
  PROVE  work \in [Candidates -> WorkRecord] /\ \A c \in Candidates : work[c] \in WorkRecord
BY DEF TypeOK, WorkRecord

LEMMA WorkIsQueued ==
  ASSUME Types, NEW s \in WorkStatuses \ {"absent"}
  PROVE  In(s) \subseteq Queued /\ In(s) \subseteq Candidates
BY DEF Types, QueueOK, In

LEMMA TargetType ==
  ASSUME NEW c \in Candidates
  PROVE  TargetOf[c] \in Targets
BY IntegrationLaneAssumption

LEMMA RebasedType ==
  ASSUME TypeOK, NEW c \in Candidates
  PROVE  /\ work[c].expected \in Seq(Candidates)
         /\ head[TargetOf[c]] \in Seq(Candidates) /\ ref[TargetOf[c]] \in Seq(Candidates)
         /\ Rebased(c) \in Seq(Candidates)
         /\ Len(Rebased(c)) = Len(work[c].expected) + 1
<1>1. work[c].expected \in Seq(Candidates)
  BY WorkType DEF WorkRecord
<1>2. head[TargetOf[c]] \in Seq(Candidates) /\ ref[TargetOf[c]] \in Seq(Candidates)
  BY TargetType DEF TypeOK
<1> QED
  BY <1>1, <1>2, RevisionOnTop DEF Rebased

LEMMA KeyType ==
  ASSUME NEW command \in Commands, NEW c \in Candidates
  PROVE  /\ \A n \in Nat : Key(command, c, n) \in Commands \X Candidates \X Nat
         /\ \A h \in Seq(Candidates) : HeadKey(command, c, h) \in Commands \X Candidates \X Nat
BY RevisionType DEF Key, HeadKey

\* What a supervisor holds between its read and its command.
LEMMA BeginType ==
  ASSUME DoingOK, NEW s \in Supervisors, NEW r \in DoingRecord, r.step # "idle" => r.cand \in Candidates,
         doing' = [doing EXCEPT ![s] = r]
  PROVE  DoingOK' /\ \A u \in Supervisors : doing'[u] = doing[u] \/ doing'[u] = r
BY DEF DoingOK

LEMMA IdleType ==
  Idle \in DoingRecord /\ Idle.step = "idle"
BY EmptySeq DEF Idle, DoingRecord

LEMMA FinishType ==
  ASSUME DoingOK, NEW s \in Supervisors, NEW key, Finish(s, key)
  PROVE  DoingOK' /\ \A u \in Supervisors : doing'[u] = doing[u] \/ doing'[u] = Idle
BY BeginType, IdleType DEF Finish

LEMMA DoingShown ==
  ASSUME DoingOK
  PROVE  \A s \in Supervisors :
           /\ doing[s] \in DoingRecord
           /\ doing[s].step \in {"idle", "queue", "rebase", "conflict", "verify", "promote"}
           /\ doing[s].step = "idle" \/ doing[s].cand \in Candidates
BY DEF DoingOK, DoingRecord

-----------------------------------------------------------------------------
(* What a step does to the work, the queue and the heads.                  *)

Sets(c, r) == work' = [work EXCEPT ![c] = r]

Untouched == UNCHANGED <<queue, work, head>>

Enqueues(c) ==
  /\ work[c].status = "absent"
  /\ Sets(c, [work[c] EXCEPT !.status = "pending", !.preds = Overlapping(c)])
  /\ queue' = Append(queue, c)
  /\ UNCHANGED head

Leases(c) ==
  /\ CanLease(c)
  /\ \E s \in Supervisors :
       Sets(c, [work[c] EXCEPT !.status = "leased", !.owner = s, !.fence = @ + 1, !.lease = "live"])
  /\ UNCHANGED <<queue, head>>

Prepares(c) ==
  /\ work[c].status = "leased"
  /\ Sets(c, [work[c] EXCEPT !.status = "prepared", !.expected = head[TargetOf[c]]])
  /\ UNCHANGED <<queue, head>>

Conflicts(c) ==
  /\ work[c].status = "leased"
  /\ Sets(c, [work[c] EXCEPT !.status = "conflicted", !.owner = Nobody, !.lease = "none"])
  /\ UNCHANGED <<queue, head>>

Verifies(c) ==
  /\ work[c].status = "prepared" /\ head[TargetOf[c]] = work[c].expected
  /\ \E outcome \in {"passed", "failed"} :
       Sets(c, [work[c] EXCEPT !.status = IF outcome = "passed" THEN "verified" ELSE "failed",
                               !.verdict = outcome, !.owner = Nobody, !.lease = "none"])
  /\ UNCHANGED <<queue, head>>

Ages(c) ==
  /\ work[c].lease \in {"live", "due"}
  /\ Sets(c, [work[c] EXCEPT !.lease = IF @ = "live" THEN "due" ELSE "lapsed"])
  /\ UNCHANGED <<queue, head>>

Authorizes(c) ==
  /\ work[c].status = "verified" /\ work[c].verdict = "passed"
  /\ head[TargetOf[c]] = work[c].expected
  /\ Sets(c, [work[c] EXCEPT !.status = "authorized"])
  /\ UNCHANGED <<queue, head>>

Promotes(c) ==
  /\ work[c].status = "authorized" /\ head[TargetOf[c]] = work[c].expected
  /\ Sets(c, [work[c] EXCEPT !.status = "promoted"])
  /\ head' = [head EXCEPT ![TargetOf[c]] = Rebased(c)]
  /\ UNCHANGED queue

\* The steps of the work before the operator has decided.
Early(c) == Enqueues(c) \/ Leases(c) \/ Prepares(c) \/ Conflicts(c) \/ Verifies(c) \/ Ages(c)

Moves(c) == Early(c) \/ Authorizes(c) \/ Promotes(c)

\* A step that has nothing to do with a promotion.
Steady ==
  /\ UNCHANGED <<head, ref>>
  /\ \A c \in Candidates : Key("promote", c, 0) \in used' => Key("promote", c, 0) \in used
  /\ \A s \in Supervisors : doing'[s] = doing[s] \/ doing'[s].step # "promote"

LEMMA KeysDiffer ==
  ASSUME NEW command \in Commands \ {"promote"}, NEW c, NEW n, NEW d
  PROVE  Key("promote", d, 0) # Key(command, c, n)
BY DEF Key, Commands

LEMMA SetsType ==
  ASSUME TypeOK, NEW c \in Candidates, NEW r \in WorkRecord, Sets(c, r)
  PROVE  /\ work' \in [Candidates -> WorkRecord]
         /\ work'[c] = r
         /\ \A d \in Candidates : d # c => work'[d] = work[d]
BY WorkType DEF Sets

-----------------------------------------------------------------------------
(* Each action keeps the types and is one of these moves.                  *)

LEMMA ProgramMoves ==
  ASSUME Types, NEW c \in Candidates, FinishProgram(c)
  PROVE  TypeOK' /\ DoingOK' /\ Untouched /\ Steady
BY DEF Types, FinishProgram, TypeOK, DoingOK, Untouched, Steady

LEMMA DiffMoves ==
  ASSUME Types, NEW s \in Supervisors, NEW c \in Candidates, RecordDiff(s, c) \/ RaiseViolation(s, c)
  PROVE  TypeOK' /\ DoingOK' /\ Untouched /\ Steady
<1>1. diff' \in [Candidates -> {"none", "eligible", "violating", "raised"}]
  BY DEF Types, TypeOK, RecordDiff, RaiseViolation, SurfaceVerdicts
<1>2. UNCHANGED <<pending, queue, work, packets, head, ref, used, doing>>
  BY DEF RecordDiff, RaiseViolation
<1> QED
  BY <1>1, <1>2 DEF Types, TypeOK, DoingOK, Untouched, Steady

LEMMA BeginMoves ==
  ASSUME Types, NEW s \in Supervisors, NEW r \in DoingRecord, Begin(s, r),
         r.cand \in Candidates, r.step # "promote",
         UNCHANGED <<pending, diff, queue, work, packets, head, ref, used>>
  PROVE  TypeOK' /\ DoingOK' /\ Untouched /\ Steady
<1>1. DoingOK' /\ \A u \in Supervisors : doing'[u] = doing[u] \/ doing'[u] = r
  BY BeginType DEF Begin, Types
<1>2. \A u \in Supervisors :
        /\ doing'[u].step \in {"idle", "queue", "rebase", "conflict", "verify", "promote"}
        /\ doing'[u].step = "idle" \/ doing'[u].cand \in Candidates
  BY <1>1 DEF DoingOK, DoingRecord
<1> QED
  BY <1>1, <1>2 DEF Types, TypeOK, Untouched, Steady

LEMMA ReadQueueMoves ==
  ASSUME Types, NEW s \in Supervisors, NEW c \in Candidates, ReadQueue(s, c)
  PROVE  TypeOK' /\ DoingOK' /\ Untouched /\ Steady
<1> DEFINE r == [Idle EXCEPT !.step = "queue", !.cand = c, !.preds = Overlapping(c)]
<1>1. Overlapping(c) \subseteq Candidates
  <2>1. Queued \subseteq Candidates
    BY LenProperties, ElementOfSeq DEF Types, TypeOK, Queued
  <2> QED
    BY <2>1 DEF Overlapping
<1>2. r \in DoingRecord /\ r.cand \in Candidates /\ r.step # "promote"
  BY <1>1, EmptySeq DEF Idle, DoingRecord
<1>3. Begin(s, r) /\ UNCHANGED <<pending, diff, queue, work, packets, head, ref, used>>
  BY DEF ReadQueue
<1> QED
  BY <1>2, <1>3, BeginMoves

LEMMA RebaseMoves ==
  ASSUME Types, NEW s \in Supervisors, Rebase(s)
  PROVE  TypeOK' /\ DoingOK' /\ Untouched /\ Steady
<1> DEFINE c == First(Mine(s))
<1>1. c \in Candidates
  <2>1. Mine(s) \subseteq Queued
    BY WorkIsQueued DEF Mine, WorkStatuses
  <2> QED
    BY <2>1, FirstIsOne DEF Rebase, Types
<1>2. work[c] \in WorkRecord /\ work[c].fence \in Nat /\ head[TargetOf[c]] \in Seq(Candidates)
  BY <1>1, WorkType, RebasedType DEF Types, WorkRecord
<1>3. PICK merge \in {"rebase", "conflict"} :
        Begin(s, [Idle EXCEPT !.step = merge, !.cand = c, !.fence = work[c].fence,
                              !.seen = head[TargetOf[c]]])
  BY DEF Rebase
<1> DEFINE r == [Idle EXCEPT !.step = merge, !.cand = c, !.fence = work[c].fence,
                             !.seen = head[TargetOf[c]]]
<1>4. r \in DoingRecord /\ r.cand \in Candidates /\ r.step # "promote"
  BY <1>1, <1>2 DEF Idle, DoingRecord
<1>5. UNCHANGED <<pending, diff, queue, work, packets, head, ref, used>>
  BY DEF Rebase
<1> QED
  BY <1>3, <1>4, <1>5, BeginMoves

LEMMA RunVerifierMoves ==
  ASSUME Types, NEW s \in Supervisors, RunVerifier(s)
  PROVE  TypeOK' /\ DoingOK' /\ Untouched /\ Steady
<1> DEFINE c == First(In("prepared"))
<1>1. c \in Candidates
  BY WorkIsQueued, FirstIsOne DEF RunVerifier, Types, WorkStatuses
<1>2. work[c] \in WorkRecord /\ work[c].fence \in Nat /\ work[c].expected \in Seq(Candidates)
  BY <1>1, WorkType DEF Types, WorkRecord
<1> DEFINE r == [Idle EXCEPT !.step = "verify", !.cand = c, !.fence = work[c].fence,
                             !.seen = work[c].expected]
<1>3. r \in DoingRecord /\ r.cand \in Candidates /\ r.step # "promote"
  BY <1>1, <1>2 DEF Idle, DoingRecord
<1>4. Begin(s, r) /\ UNCHANGED <<pending, diff, queue, work, packets, head, ref, used>>
  BY DEF RunVerifier
<1> QED
  BY <1>3, <1>4, BeginMoves

LEMMA DieMoves ==
  ASSUME Types, NEW s \in Supervisors, Die(s)
  PROVE  TypeOK' /\ DoingOK' /\ Untouched /\ Steady
<1>1. DoingOK' /\ \A u \in Supervisors : doing'[u] = doing[u] \/ doing'[u] = Idle
  BY BeginType, IdleType DEF Die, Types
<1>2. \A u \in Supervisors :
        /\ doing'[u].step \in {"idle", "queue", "rebase", "conflict", "verify", "promote"}
        /\ doing'[u].step = "idle" \/ doing'[u].cand \in Candidates
  BY <1>1 DEF DoingOK, DoingRecord
<1> QED
  BY <1>1, <1>2, IdleType DEF Die, Types, TypeOK, Untouched, Steady

LEMMA DecisionMoves ==
  ASSUME Types, NEW s \in Supervisors, CompileDecision(s)
  PROVE  TypeOK' /\ DoingOK' /\ Untouched /\ Steady
<1>1. Earliest(In("verified")) \in Candidates
  BY EarliestIsOne DEF CompileDecision, In
<1>2. packets' \subseteq Candidates
  BY <1>1 DEF CompileDecision, Opened, Types, TypeOK
<1> QED
  BY <1>2 DEF CompileDecision, Types, TypeOK, DoingOK, Untouched, Steady

\* A command of a supervisor other than integration.promote.record.
LEMMA CommandMoves ==
  ASSUME Types, NEW s \in Supervisors, NEW command \in Commands \ {"promote"}, NEW c \in Candidates, NEW n \in Nat,
         Finish(s, Key(command, c, n)), UNCHANGED <<pending, diff, packets, head, ref>>,
         queue' \in Seq(Candidates), work' \in [Candidates -> WorkRecord]
  PROVE  TypeOK' /\ DoingOK' /\ Steady
<1>1. DoingOK' /\ \A u \in Supervisors : doing'[u] = doing[u] \/ doing'[u] = Idle
  BY FinishType DEF Types
<1>2. \A u \in Supervisors :
        /\ doing'[u].step \in {"idle", "queue", "rebase", "conflict", "verify", "promote"}
        /\ doing'[u].step = "idle" \/ doing'[u].cand \in Candidates
  BY <1>1 DEF DoingOK, DoingRecord
<1>3. used' = used \cup {Key(command, c, n)} /\ used' \subseteq Commands \X Candidates \X Nat
  <2>1. Key(command, c, n) \in Commands \X Candidates \X Nat
    BY KeyType
  <2>2. used' = used \cup {Key(command, c, n)} /\ used \subseteq Commands \X Candidates \X Nat
    BY DEF Finish, Types, TypeOK
  <2> QED
    BY <2>1, <2>2
<1>4. Steady
  BY <1>1, <1>3, KeysDiffer, IdleType DEF Steady
<1>5. TypeOK'
  BY <1>2, <1>3 DEF Types, TypeOK, WorkRecord
<1> QED
  BY <1>1, <1>4, <1>5

LEMMA HeldType ==
  ASSUME Types, NEW s \in Supervisors, doing[s].step # "idle"
  PROVE  doing[s].cand \in Candidates /\ doing[s].seen \in Seq(Candidates) /\ doing[s].fence \in Nat
         /\ work[doing[s].cand] \in WorkRecord
BY DoingShown, WorkType DEF Types, DoingRecord

LEMMA QueueMoves ==
  ASSUME Types, NEW s \in Supervisors, Queue(s)
  PROVE  TypeOK' /\ DoingOK' /\ Steady /\ (Untouched \/ \E c \in Candidates : Early(c))
<1> DEFINE c == doing[s].cand
           r == [work[c] EXCEPT !.status = "pending", !.preds = Overlapping(c)]
<1>1. c \in Candidates /\ work[c] \in WorkRecord
  BY HeldType DEF Queue
<1>2. Finish(s, Key("queue", c, 0)) /\ UNCHANGED <<pending, diff, packets, head, ref>>
  BY DEF Queue
<1>3. Queued \subseteq Candidates /\ queue \in Seq(Candidates)
  BY LenProperties, ElementOfSeq DEF Types, TypeOK, Queued
<1>4. r \in WorkRecord
  BY <1>1, <1>3 DEF WorkRecord, WorkStatuses, Overlapping
<1>5. Append(queue, c) \in Seq(Candidates)
  BY <1>1, <1>3, AppendProperties
<1>6. Untouched \/ Enqueues(c)
  <2>1. CASE UNCHANGED <<work, queue>>
    BY <2>1, <1>2 DEF Untouched
  <2>2. CASE ~ UNCHANGED <<work, queue>>
    <3>1. /\ work[c].status = "absent" /\ doing[s].preds = Overlapping(c)
          /\ work' = [work EXCEPT ![c].status = "pending", ![c].preds = doing[s].preds]
          /\ queue' = Append(queue, c)
      BY <2>2 DEF Queue
    <3>2. work' = [work EXCEPT ![c] = r]
      BY <3>1, <1>1, WorkType DEF WorkRecord, Types
    <3> QED
      BY <3>1, <3>2, <1>2 DEF Enqueues, Sets
  <2> QED
    BY <2>1, <2>2
<1>7. queue' \in Seq(Candidates) /\ work' \in [Candidates -> WorkRecord]
  BY <1>1, <1>3, <1>4, <1>5, <1>6, SetsType, WorkType DEF Untouched, Enqueues, Types
<1>8. TypeOK' /\ DoingOK' /\ Steady
  BY <1>1, <1>2, <1>7, CommandMoves DEF Commands
<1> QED
  BY <1>1, <1>6, <1>8 DEF Early

LEMMA AcquireMoves ==
  ASSUME Types, NEW s \in Supervisors, AcquireWork(s)
  PROVE  TypeOK' /\ DoingOK' /\ Steady /\ (Untouched \/ \E c \in Candidates : Early(c))
<1> DEFINE c == First(Claims)
           r == [work[c] EXCEPT !.status = "leased", !.owner = s, !.fence = @ + 1, !.lease = "live"]
           key == Key("lease", c, work[c].fence + 1)
<1>1. c \in Candidates
  <2>1. Claims \subseteq Queued
    BY WorkIsQueued DEF Claims, Lapsed, WorkStatuses
  <2> QED
    BY <2>1, FirstIsOne DEF AcquireWork, Types
<1>2. work[c] \in WorkRecord /\ r \in WorkRecord /\ work[c].fence + 1 \in Nat
  <2>1. work[c] \in WorkRecord
    BY <1>1, WorkType DEF Types
  <2> HIDE DEF c
  <2>2. work[c].fence \in Nat /\ work[c].fence + 1 \in Nat
    BY <2>1 DEF WorkRecord
  <2>3. "leased" \in WorkStatuses /\ s \in Supervisors \cup {Nobody}
    BY DEF WorkStatuses
  <2> DEFINE fence == work[c].fence + 1
  <2> HIDE DEF fence
  <2>4. [work[c] EXCEPT !.status = "leased", !.owner = s, !.fence = fence, !.lease = "live"] \in WorkRecord
    BY <2>1, <2>2, <2>3 DEF WorkRecord, fence
  <2> QED
    BY <2>1, <2>2, <2>4 DEF fence
<1>3. used' = used \cup {key} /\ key \in Commands \X Candidates \X Nat
  BY <1>1, <1>2, KeyType DEF AcquireWork, Commands
<1>4. UNCHANGED <<pending, diff, queue, packets, head, ref, doing>>
  BY DEF AcquireWork
<1>acquired. work' = IF ~ CanLease(c) THEN work ELSE [work EXCEPT ![c] = r]
  BY <1>1, <1>2, Zenon DEF AcquireWork
<1> HIDE DEF c
<1>5. Untouched \/ Leases(c)
  <2>1. CASE work' = work
    BY <2>1, <1>4 DEF Untouched
  <2>2. CASE work' # work
    <3>1. CanLease(c) /\ Sets(c, r)
      BY <2>2, <1>acquired DEF Sets
    <3> QED
      BY <3>1, <1>4 DEF Leases
  <2> QED
    BY <2>1, <2>2
<1>6. work' \in [Candidates -> WorkRecord]
  <2>1. work' = work \/ Sets(c, r)
    BY <1>acquired DEF Sets
  <2> QED
    BY <2>1, <1>1, <1>2, SetsType, WorkType DEF Types
<1>7. TypeOK'
  BY <1>3, <1>4, <1>6 DEF Types, TypeOK, WorkRecord
<1>8. Steady
  BY <1>3, <1>4, KeysDiffer DEF Steady, Commands
<1>9. DoingOK'
  BY <1>4 DEF Types, DoingOK
<1> QED
  BY <1>1, <1>5, <1>7, <1>8, <1>9 DEF Early

LEMMA PrepareMoves ==
  ASSUME Types, NEW s \in Supervisors, Prepare(s)
  PROVE  TypeOK' /\ DoingOK' /\ Steady /\ (Untouched \/ \E c \in Candidates : Early(c))
<1> DEFINE c == doing[s].cand
           r == [work[c] EXCEPT !.status = "prepared", !.expected = head[TargetOf[c]]]
<1>1. c \in Candidates /\ work[c] \in WorkRecord /\ doing[s].seen \in Seq(Candidates)
  BY HeldType DEF Prepare
<1>2. /\ Finish(s, Key("prepare", c, Len(doing[s].seen)))
      /\ UNCHANGED <<pending, diff, queue, packets, head, ref>>
      /\ Len(doing[s].seen) \in Nat
  BY <1>1, RevisionType DEF Prepare, HeadKey
<1>3. r \in WorkRecord
  BY <1>1, RebasedType DEF WorkRecord, WorkStatuses, Types
<1>4. Untouched \/ Prepares(c)
  <2>1. CASE work' = work
    BY <2>1, <1>2 DEF Untouched
  <2>2. CASE work' # work
    <3>1. /\ work[c].status = "leased" /\ head[TargetOf[c]] = doing[s].seen
          /\ work' = [work EXCEPT ![c].status = "prepared", ![c].expected = doing[s].seen]
      BY <2>2 DEF Prepare
    <3>2. work' = [work EXCEPT ![c] = r]
      BY <3>1, <1>1, WorkType DEF WorkRecord, Types
    <3> QED
      BY <3>1, <3>2, <1>2 DEF Prepares, Sets
  <2> QED
    BY <2>1, <2>2
<1>5. queue' \in Seq(Candidates) /\ work' \in [Candidates -> WorkRecord]
  BY <1>1, <1>2, <1>3, <1>4, SetsType, WorkType DEF Untouched, Prepares, Types, TypeOK
<1>6. TypeOK' /\ DoingOK' /\ Steady
  BY <1>1, <1>2, <1>5, CommandMoves DEF Commands
<1> QED
  BY <1>1, <1>4, <1>6 DEF Early

LEMMA ConflictMoves ==
  ASSUME Types, NEW s \in Supervisors, RecordConflict(s)
  PROVE  TypeOK' /\ DoingOK' /\ Steady /\ (Untouched \/ \E c \in Candidates : Early(c))
<1> DEFINE c == doing[s].cand
           r == [work[c] EXCEPT !.status = "conflicted", !.owner = Nobody, !.lease = "none"]
<1>1. c \in Candidates /\ work[c] \in WorkRecord /\ doing[s].seen \in Seq(Candidates)
  BY HeldType DEF RecordConflict
<1>2. /\ Finish(s, Key("conflict", c, Len(doing[s].seen)))
      /\ UNCHANGED <<pending, diff, queue, packets, head, ref>>
      /\ Len(doing[s].seen) \in Nat
  BY <1>1, RevisionType DEF RecordConflict, HeadKey
<1>3. r \in WorkRecord
  BY <1>1 DEF WorkRecord, WorkStatuses
<1>4. Untouched \/ Conflicts(c)
  BY <1>2 DEF RecordConflict, Untouched, Conflicts, Sets
<1>5. queue' \in Seq(Candidates) /\ work' \in [Candidates -> WorkRecord]
  BY <1>1, <1>2, <1>3, <1>4, SetsType, WorkType DEF Untouched, Conflicts, Types, TypeOK
<1>6. TypeOK' /\ DoingOK' /\ Steady
  BY <1>1, <1>2, <1>5, CommandMoves DEF Commands
<1> QED
  BY <1>1, <1>4, <1>6 DEF Early

LEMMA VerifyMoves ==
  ASSUME Types, NEW s \in Supervisors, NEW outcome \in {"passed", "failed"}, Verify(s, outcome)
  PROVE  TypeOK' /\ DoingOK' /\ Steady /\ (Untouched \/ \E c \in Candidates : Early(c))
<1> DEFINE c == doing[s].cand
           r == [work[c] EXCEPT !.status = IF outcome = "passed" THEN "verified" ELSE "failed",
                                !.verdict = outcome, !.owner = Nobody, !.lease = "none"]
<1>1. c \in Candidates /\ work[c] \in WorkRecord /\ doing[s].seen \in Seq(Candidates)
  BY HeldType DEF Verify
<1>2. /\ Finish(s, Key("verify", c, Len(doing[s].seen)))
      /\ UNCHANGED <<pending, diff, queue, packets, head, ref>>
      /\ Len(doing[s].seen) \in Nat
  BY <1>1, RevisionType DEF Verify, HeadKey
<1>3. r \in WorkRecord
  BY <1>1 DEF WorkRecord, WorkStatuses
<1>4. Untouched \/ (Verifies(c) /\ Sets(c, r))
  BY <1>2 DEF Verify, CanVerify, Untouched, Verifies, Sets
<1>5. queue' \in Seq(Candidates) /\ work' \in [Candidates -> WorkRecord]
  BY <1>1, <1>2, <1>3, <1>4, SetsType, WorkType DEF Untouched, Types, TypeOK
<1>6. TypeOK' /\ DoingOK' /\ Steady
  BY <1>1, <1>2, <1>5, CommandMoves DEF Commands
<1> QED
  BY <1>1, <1>4, <1>6 DEF Early

LEMMA TimeMoves ==
  ASSUME Types, NEW c \in Candidates, TimePasses(c)
  PROVE  TypeOK' /\ DoingOK' /\ Steady /\ Early(c)
<1> DEFINE r == [work[c] EXCEPT !.lease = IF @ = "live" THEN "due" ELSE "lapsed"]
<1>1. work[c] \in WorkRecord /\ r \in WorkRecord
  <2>1. work[c] \in WorkRecord
    BY WorkType DEF Types
  <2>2. (IF work[c].lease = "live" THEN "due" ELSE "lapsed") \in {"none", "live", "due", "lapsed"}
    OBVIOUS
  <2> QED
    BY <2>1, <2>2 DEF WorkRecord
<1>2. Ages(c) /\ Sets(c, r)
  BY <1>1, WorkType DEF TimePasses, Ages, Sets, Types, WorkRecord
<1>3. work' \in [Candidates -> WorkRecord]
  BY <1>1, <1>2, SetsType DEF Types
<1>4. UNCHANGED <<pending, diff, queue, packets, head, ref, used, doing>>
  BY DEF TimePasses
<1>5. TypeOK' /\ DoingOK' /\ Steady
  BY <1>3, <1>4 DEF Types, TypeOK, DoingOK, WorkRecord, Steady
<1> QED
  BY <1>2, <1>5 DEF Early

LEMMA IntegrateMoves ==
  ASSUME Types, NEW c \in Candidates, Integrate(c)
  PROVE  TypeOK' /\ DoingOK' /\ Authorizes(c) /\ UNCHANGED <<ref, used, doing>>
<1> DEFINE r == [work[c] EXCEPT !.status = "authorized"]
<1>1. work[c] \in WorkRecord
  BY WorkType DEF Types
<1>2. r \in WorkRecord
  BY <1>1 DEF WorkRecord, WorkStatuses
<1>3. Sets(c, r)
  BY <1>1, WorkType DEF Integrate, Authorized, Sets, Types
<1>4. work' \in [Candidates -> WorkRecord]
  BY <1>2, <1>3, SetsType DEF Types
<1>5. UNCHANGED <<pending, diff, queue, head, ref, used, doing>> /\ packets' \subseteq Candidates
  BY DEF Integrate, Decided, Types, TypeOK
<1>6. TypeOK' /\ DoingOK'
  BY <1>4, <1>5 DEF Types, TypeOK, DoingOK, WorkRecord
<1> QED
  BY <1>3, <1>5, <1>6 DEF Integrate, Authorizes

\* What MoveRef does to the ref of a target and to what its supervisor holds.
Advances(s, c) ==
  /\ work[c].status = "authorized"
  /\ ref[TargetOf[c]] \in {Rebased(c), work[c].expected}
  /\ ref' = [ref EXCEPT ![TargetOf[c]] = Rebased(c)]
  /\ doing' = [doing EXCEPT ![s] = Promoting(c)]
  /\ UNCHANGED <<queue, work, head, used>>

LEMMA MoveRefMoves ==
  ASSUME Types, NEW s \in Supervisors, MoveRef(s)
  PROVE  TypeOK' /\ DoingOK' /\ \E c \in Candidates : Advances(s, c)
<1> DEFINE c == First(In("authorized"))
<1>1. c \in In("authorized") /\ c \in Candidates
  BY WorkIsQueued, FirstIsOne DEF MoveRef, Types, WorkStatuses
<1>2. Advances(s, c) /\ UNCHANGED <<pending, diff, packets>>
  BY <1>1 DEF MoveRef, Advances, Begin, In
<1> HIDE DEF c
<1>3. Promoting(c) \in DoingRecord /\ Promoting(c).cand = c
  BY <1>1, RebasedType, IdleType DEF Promoting, DoingRecord, Types
<1>4. DoingOK'
  BY <1>1, <1>2, <1>3, BeginType DEF Advances, Types
<1>5. ref' \in [Targets -> Seq(Candidates)]
  BY <1>1, <1>2, RebasedType DEF Advances, Types, TypeOK
<1>6. \A u \in Supervisors :
        /\ doing'[u].step \in {"idle", "queue", "rebase", "conflict", "verify", "promote"}
        /\ doing'[u].step = "idle" \/ doing'[u].cand \in Candidates
  BY <1>4 DEF DoingOK, DoingRecord
<1>7. TypeOK'
  BY <1>2, <1>5, <1>6 DEF Advances, Types, TypeOK
<1> QED
  BY <1>1, <1>2, <1>4, <1>7

\* What a supervisor that is about to send a receipt knows.
Holding(s) ==
  doing[s].step = "promote" =>
    LET c == doing[s].cand IN
    /\ doing[s].seen = work[c].expected
    /\ work[c].status \in {"authorized", "promoted"}
    /\ work[c].status = "authorized" /\ head[TargetOf[c]] = work[c].expected
       => ref[TargetOf[c]] = Rebased(c)

LEMMA RecordMoves ==
  ASSUME Types, NEW s \in Supervisors, Holding(s), RecordPromotion(s)
  PROVE  /\ TypeOK' /\ DoingOK'
         /\ UNCHANGED ref
         /\ used' = used \cup {Key("promote", doing[s].cand, 0)}
         /\ \A u \in Supervisors : doing'[u] = doing[u] \/ doing'[u].step = "idle"
         /\ doing[s].cand \in Candidates
         /\ work[doing[s].cand].status \in {"authorized", "promoted"}
         /\ \/ Promotes(doing[s].cand) /\ ref[TargetOf[doing[s].cand]] = Rebased(doing[s].cand)
            \/ /\ Untouched
               /\ \/ Key("promote", doing[s].cand, 0) \in used
                  \/ work[doing[s].cand].status = "promoted"
                  \/ head[TargetOf[doing[s].cand]] # work[doing[s].cand].expected
<1> DEFINE c == doing[s].cand
           key == Key("promote", c, 0)
           r == [work[c] EXCEPT !.status = "promoted"]
<1>1. c \in Candidates /\ work[c] \in WorkRecord /\ doing[s].step = "promote"
  BY HeldType DEF RecordPromotion
<1>2. /\ doing[s].seen = work[c].expected
      /\ work[c].status \in {"authorized", "promoted"}
      /\ work[c].status = "authorized" /\ head[TargetOf[c]] = work[c].expected
         => ref[TargetOf[c]] = Rebased(c)
  BY <1>1 DEF Holding
<1>3. Finish(s, key) /\ UNCHANGED <<diff, queue, packets, ref>>
  BY DEF RecordPromotion
<1>4. \/ /\ Fresh(key) /\ work[c].status = "authorized" /\ head[TargetOf[c]] = doing[s].seen
         /\ head' = [head EXCEPT ![TargetOf[c]] = Rebased(c)]
         /\ work' = [work EXCEPT ![c].status = "promoted"]
         /\ pending' = pending \ {c}
      \/ /\ ~ (Fresh(key) /\ work[c].status = "authorized" /\ head[TargetOf[c]] = doing[s].seen)
         /\ UNCHANGED <<head, work, pending>>
  BY DEF RecordPromotion
<1>5. DoingOK' /\ \A u \in Supervisors : doing'[u] = doing[u] \/ doing'[u] = Idle
  BY <1>3, FinishType DEF Types
<1>6. used' = used \cup {key} /\ used' \subseteq Commands \X Candidates \X Nat
  <2>1. key \in Commands \X Candidates \X Nat
    BY <1>1, KeyType DEF Commands
  <2> QED
    BY <2>1, <1>3 DEF Finish, Types, TypeOK
<1> HIDE DEF c, key
<1>7. \/ Promotes(c) /\ Sets(c, r) /\ ref[TargetOf[c]] = Rebased(c)
      \/ Untouched /\ (key \in used \/ work[c].status = "promoted" \/ head[TargetOf[c]] # work[c].expected)
  <2>1. CASE Fresh(key) /\ work[c].status = "authorized" /\ head[TargetOf[c]] = doing[s].seen
    <3>1. work' = [work EXCEPT ![c] = r]
      BY <2>1, <1>4, <1>1, WorkType DEF Types
    <3> QED
      BY <3>1, <2>1, <1>2, <1>3, <1>4 DEF Promotes, Sets
  <2>2. CASE ~ (Fresh(key) /\ work[c].status = "authorized" /\ head[TargetOf[c]] = doing[s].seen)
    BY <2>2, <1>2, <1>3, <1>4 DEF Untouched, Fresh
  <2> QED
    BY <2>1, <2>2
<1>8. work' \in [Candidates -> WorkRecord] /\ head' \in [Targets -> Seq(Candidates)]
  <2>1. r \in WorkRecord /\ Rebased(c) \in Seq(Candidates)
    BY <1>1, RebasedType DEF WorkRecord, WorkStatuses, Types
  <2>2. work' \in [Candidates -> WorkRecord]
    BY <2>1, <1>1, <1>7, SetsType, WorkType DEF Types, Untouched
  <2>3. head' \in [Targets -> Seq(Candidates)]
    BY <2>1, <1>4 DEF Types, TypeOK
  <2> QED
    BY <2>2, <2>3
<1>9. \A u \in Supervisors :
        /\ doing'[u].step \in {"idle", "queue", "rebase", "conflict", "verify", "promote"}
        /\ doing'[u].step = "idle" \/ doing'[u].cand \in Candidates
  BY <1>5 DEF DoingOK, DoingRecord
<1>10. pending' \subseteq Candidates
  BY <1>4 DEF Types, TypeOK
<1>11. TypeOK'
  BY <1>3, <1>6, <1>8, <1>9, <1>10 DEF Types, TypeOK, WorkRecord
<1> QED
  BY <1>1, <1>2, <1>3, <1>5, <1>6, <1>7, <1>11, IdleType DEF c, key

-----------------------------------------------------------------------------
(* What holds of the work, the queue and the heads.                        *)

\* The predecessors of a queued candidate are those its place in the queue calls for.
PredsOK ==
  \A i, k \in DOMAIN queue :
    /\ i < k
    /\ TargetOf[queue[i]] = TargetOf[queue[k]] /\ Admission[queue[i]] < Admission[queue[k]]
    /\ {queue[k], queue[i]} \in Overlaps
    => queue[i] \in work[queue[k]].preds

Worked == WorkStatuses \ {"absent", "pending"}
Placed == {"prepared", "verified", "failed", "authorized", "promoted"}

\* Nobody works on a candidate before what it waits for has been promoted; the
\* head it is rebased on contains its predecessors and stays in the lineage.
CandidateOK(c) ==
  /\ work[c].status \in Worked => \A d \in work[c].preds \cup Needs[c] : work[d].status = "promoted"
  /\ work[c].status \in Placed => work[c].preds \subseteq Contents(work[c].expected)
  /\ \A d \in work[c].preds : TargetOf[d] = TargetOf[c]
  /\ Begins(work[c].expected, head[TargetOf[c]])
  /\ work[c].status = "promoted" => c \in Contents(head[TargetOf[c]])
  /\ work[c].status \in {"verified", "authorized", "promoted"} => work[c].verdict = "passed"

CandidatesOK == \A c \in Candidates : CandidateOK(c)

WorkInv == Types /\ PredsOK /\ OneRebaseAtATime /\ LineageIsVerified /\ CandidatesOK

\* The work of one candidate changes and the heads do not.
LEMMA WorkKept ==
  ASSUME WorkInv, TypeOK', DoingOK', UNCHANGED head,
         NEW c \in Candidates, \A d \in Candidates : d # c => work'[d] = work[d],
         work[c].status # "promoted",
         CandidateOK(c)',
         work'[c].status = "leased" /\ work'[c].lease = "live"
           => \/ work[c].status = "leased" /\ work[c].lease = "live"
              \/ ~ TargetBusy(c)
  PROVE  OneRebaseAtATime' /\ LineageIsVerified' /\ CandidatesOK'
<1>1. ASSUME NEW d \in Candidates
      PROVE  CandidateOK(d)'
  <2>1. CASE d = c
    BY <2>1
  <2>2. CASE d # c
    <3>1. CandidateOK(d) /\ work'[d] = work[d] /\ work[d] \in WorkRecord
      BY <2>2, WorkType DEF WorkInv, CandidatesOK, Types
    <3>2. \A e \in work[d].preds \cup Needs[d] : e \in Candidates
      BY <3>1, IntegrationLaneAssumption DEF WorkRecord
    <3>3. \A e \in Candidates : work[e].status = "promoted" => work'[e].status = "promoted"
      OBVIOUS
    <3> QED
      BY <3>1, <3>2, <3>3 DEF CandidateOK
  <2> QED
    BY <2>1, <2>2
<1>2. ASSUME NEW t \in Targets, NEW i \in DOMAIN head[t], NEW d, d = head[t][i]
      PROVE  /\ TargetOf[d] = t /\ work'[d].status = "promoted" /\ work'[d].verdict = "passed"
             /\ work'[d].expected = SubSeq(head[t], 1, i - 1)
  <2>1. head[t] \in Seq(Candidates)
    BY DEF WorkInv, Types, TypeOK
  <2>2. d \in Candidates
    BY <1>2, <2>1, RevisionType
  <2>3. /\ TargetOf[d] = t /\ work[d].status = "promoted" /\ work[d].verdict = "passed"
        /\ work[d].expected = SubSeq(head[t], 1, i - 1)
    BY <1>2 DEF WorkInv, LineageIsVerified
  <2> QED
    BY <2>2, <2>3
<1>3. OneRebaseAtATime'
  <2> SUFFICES ASSUME NEW d \in Candidates, NEW e \in Candidates, d # e, TargetOf[d] = TargetOf[e],
                      work'[d].status = "leased", work'[e].status = "leased",
                      work'[d].lease = "live", work'[e].lease = "live"
               PROVE  FALSE
    BY DEF OneRebaseAtATime, In
  <2>1. \A k \in Candidates : TargetOf[k] = TargetOf[c] /\ k # c /\ work[k].status = "leased"
                              /\ work[k].lease = "live" => TargetBusy(c)
    BY DEF TargetBusy, In
  <2> QED
    BY <2>1 DEF WorkInv, OneRebaseAtATime, In
<1> QED
  BY <1>1, <1>2, <1>3 DEF CandidatesOK, LineageIsVerified

\* What is queued and in which order stays.
LEMMA QueueKept ==
  ASSUME WorkInv, UNCHANGED queue, NEW c \in Candidates,
         \A d \in Candidates : d # c => work'[d] = work[d],
         work'[c].status = "absent" <=> work[c].status = "absent",
         work'[c].preds = work[c].preds
  PROVE  QueueOK' /\ PredsOK'
<1>1. QueueOK'
  BY DEF WorkInv, Types, QueueOK, Queued
<1>2. \A k \in DOMAIN queue : queue[k] \in Candidates
  BY RevisionType DEF WorkInv, Types, TypeOK
<1>3. \A d \in Candidates : work'[d].preds = work[d].preds
  OBVIOUS
<1>4. PredsOK'
  BY <1>2, <1>3 DEF WorkInv, PredsOK
<1> QED
  BY <1>1, <1>4

LEMMA CandidateShown ==
  ASSUME WorkInv, NEW c \in Candidates
  PROVE  /\ CandidateOK(c) /\ work[c] \in WorkRecord
         /\ work \in [Candidates -> WorkRecord]
         /\ head[TargetOf[c]] \in Seq(Candidates)
BY WorkType, RebasedType DEF WorkInv, CandidatesOK, Types

LEMMA EnqueuesKeep ==
  ASSUME WorkInv, TypeOK', DoingOK', NEW c \in Candidates, Enqueues(c)
  PROVE  WorkInv'
<1> DEFINE r == [work[c] EXCEPT !.status = "pending", !.preds = Overlapping(c)]
<1>1. CandidateOK(c) /\ work[c] \in WorkRecord /\ work \in [Candidates -> WorkRecord]
  BY CandidateShown
<1>2. work'[c] = r /\ \A d \in Candidates : d # c => work'[d] = work[d]
  BY <1>1 DEF Enqueues, Sets
<1>3. /\ work'[c].status = "pending" /\ work'[c].preds = Overlapping(c)
      /\ work'[c].expected = work[c].expected
      /\ work[c].status = "absent"
  BY <1>1, <1>2 DEF WorkRecord, Enqueues
<1>4. UNCHANGED head /\ queue' = Append(queue, c)
  BY DEF Enqueues
<1>5. CandidateOK(c)'
  <2>1. \A d \in Overlapping(c) : TargetOf[d] = TargetOf[c]
    BY DEF Overlapping
  <2> QED
    BY <1>1, <1>3, <1>4, <2>1 DEF CandidateOK, Worked, Placed
<1>6. OneRebaseAtATime' /\ LineageIsVerified' /\ CandidatesOK'
  BY <1>2, <1>3, <1>4, <1>5, WorkKept
<1>7. /\ queue \in Seq(Candidates) /\ Len(queue) \in Nat
      /\ DOMAIN queue = 1..Len(queue) /\ \A i \in 1..Len(queue) : queue[i] \in Candidates
      /\ DOMAIN queue' = 1..Len(queue) + 1
      /\ (\A i \in 1..Len(queue) : queue'[i] = queue[i]) /\ queue'[Len(queue) + 1] = c
  BY <1>4, RevisionType, RevisionOnTop DEF WorkInv, Types, TypeOK
<1>8. Queued' = Queued \cup {c} /\ c \notin Queued
  <2>1. Queued' = Queued \cup {c}
    BY <1>7 DEF Queued
  <2> QED
    BY <2>1, <1>3 DEF WorkInv, Types, QueueOK
<1>9. QueueOK'
  BY <1>2, <1>3, <1>8 DEF WorkInv, Types, QueueOK
<1>10. ASSUME NEW i \in DOMAIN queue', NEW k \in DOMAIN queue', i < k,
              NEW d, NEW e, d = queue'[i], e = queue'[k],
              TargetOf[d] = TargetOf[e], Admission[d] < Admission[e], {e, d} \in Overlaps
       PROVE  d \in work'[e].preds
  <2>1. i \in 1..Len(queue) /\ d = queue[i] /\ d \in Queued
    BY <1>7, <1>10 DEF Queued
  <2>2. CASE k = Len(queue) + 1
    <3>1. e = c
      BY <2>2, <1>7, <1>10
    <3> QED
      BY <3>1, <2>1, <1>3, <1>10 DEF Overlapping
  <2>3. CASE k \in 1..Len(queue)
    <3>1. e = queue[k] /\ e \in Queued /\ e \in Candidates
      BY <2>3, <1>7, <1>10 DEF Queued
    <3>2. e # c
      BY <3>1, <1>8
    <3>3. d \in work[e].preds
      BY <3>1, <2>1, <2>3, <1>7, <1>10 DEF WorkInv, PredsOK
    <3> QED
      BY <3>1, <3>2, <3>3, <1>2
  <2> QED
    BY <2>2, <2>3, <1>7
<1>11. PredsOK'
  BY <1>10 DEF PredsOK
<1> QED
  BY <1>6, <1>9, <1>11 DEF WorkInv, Types

LEMMA LeasesKeep ==
  ASSUME WorkInv, TypeOK', DoingOK', NEW c \in Candidates, Leases(c)
  PROVE  WorkInv'
<1>1. CandidateOK(c) /\ work[c] \in WorkRecord /\ work \in [Candidates -> WorkRecord]
  BY CandidateShown
<1>2. PICK s \in Supervisors :
        Sets(c, [work[c] EXCEPT !.status = "leased", !.owner = s, !.fence = @ + 1, !.lease = "live"])
  BY DEF Leases
<1>3. /\ work'[c].status = "leased" /\ work'[c].preds = work[c].preds
      /\ work'[c].expected = work[c].expected
      /\ \A d \in Candidates : d # c => work'[d] = work[d]
  BY <1>1, <1>2 DEF Sets, WorkRecord
<1>4. UNCHANGED <<queue, head>> /\ work[c].status \in {"pending", "leased"} /\ ~ TargetBusy(c)
      /\ \A d \in work[c].preds \cup Needs[c] : work[d].status = "promoted"
  BY DEF Leases, CanLease, Claimable
<1>5. CandidateOK(c)'
  <2>1. \A d \in work[c].preds \cup Needs[c] : d \in Candidates /\ d # c
    BY <1>1, <1>4, IntegrationLaneAssumption DEF WorkRecord
  <2> QED
    BY <1>1, <1>3, <1>4, <2>1 DEF CandidateOK, Worked, Placed
<1>6. OneRebaseAtATime' /\ LineageIsVerified' /\ CandidatesOK'
  BY <1>3, <1>4, <1>5, WorkKept
<1>7. QueueOK' /\ PredsOK'
  BY <1>3, <1>4, QueueKept
<1> QED
  BY <1>6, <1>7 DEF WorkInv, Types

LEMMA PreparesKeep ==
  ASSUME WorkInv, TypeOK', DoingOK', NEW c \in Candidates, Prepares(c)
  PROVE  WorkInv'
<1>1. CandidateOK(c) /\ work[c] \in WorkRecord /\ work \in [Candidates -> WorkRecord]
      /\ head[TargetOf[c]] \in Seq(Candidates)
  BY CandidateShown
<1>2. /\ work'[c].status = "prepared" /\ work'[c].preds = work[c].preds
      /\ work'[c].expected = head[TargetOf[c]]
      /\ \A d \in Candidates : d # c => work'[d] = work[d]
  BY <1>1 DEF Prepares, Sets, WorkRecord
<1>3. UNCHANGED <<queue, head>> /\ work[c].status = "leased"
  BY DEF Prepares
<1>4. \A d \in work[c].preds \cup Needs[c] : d \in Candidates /\ work[d].status = "promoted"
  BY <1>1, <1>3, IntegrationLaneAssumption DEF CandidateOK, WorkRecord, Worked, WorkStatuses
<1>5. \A d \in work[c].preds : d \in Contents(head[TargetOf[c]])
  BY <1>1, <1>4 DEF WorkInv, CandidatesOK, CandidateOK
<1>6. Begins(head[TargetOf[c]], head[TargetOf[c]])
  BY <1>1, BeginsItself
<1>7. CandidateOK(c)'
  <2>1. \A d \in work[c].preds \cup Needs[c] : work'[d].status = "promoted"
    BY <1>2, <1>3, <1>4
  <2> QED
    BY <1>1, <1>2, <1>3, <1>5, <1>6, <2>1 DEF CandidateOK
<1>8. OneRebaseAtATime' /\ LineageIsVerified' /\ CandidatesOK'
  BY <1>2, <1>3, <1>7, WorkKept
<1>9. QueueOK' /\ PredsOK'
  BY <1>2, <1>3, QueueKept
<1> QED
  BY <1>8, <1>9 DEF WorkInv, Types

\* The verdict, the conflict, the expiry of the lease and the decision of the operator.
LEMMA OthersKeep ==
  ASSUME WorkInv, TypeOK', DoingOK', NEW c \in Candidates,
         Conflicts(c) \/ Verifies(c) \/ Authorizes(c)
  PROVE  WorkInv'
<1>1. CandidateOK(c) /\ work[c] \in WorkRecord /\ work \in [Candidates -> WorkRecord]
  BY CandidateShown
<1>2. UNCHANGED <<queue, head>> /\ \A d \in Candidates : d # c => work'[d] = work[d]
  BY <1>1 DEF Conflicts, Verifies, Authorizes, Sets
<1>3. /\ work'[c].preds = work[c].preds /\ work'[c].expected = work[c].expected
      /\ work[c].status \in {"leased", "prepared", "verified"}
      /\ work'[c].status \in {"conflicted", "verified", "failed", "authorized"}
      /\ work'[c].status \in Placed => work[c].status \in Placed
      /\ work'[c].status \in {"verified", "authorized"} => work'[c].verdict = "passed"
  <2>1. CASE Conflicts(c)
    BY <2>1, <1>1 DEF Conflicts, Sets, WorkRecord, Placed
  <2>2. CASE Verifies(c)
    <3>1. PICK outcome \in {"passed", "failed"} :
            Sets(c, [work[c] EXCEPT !.status = IF outcome = "passed" THEN "verified" ELSE "failed",
                                    !.verdict = outcome, !.owner = Nobody, !.lease = "none"])
      BY <2>2 DEF Verifies
    <3>2. /\ work'[c].preds = work[c].preds /\ work'[c].expected = work[c].expected
          /\ work'[c].status = (IF outcome = "passed" THEN "verified" ELSE "failed")
          /\ work'[c].verdict = outcome
      BY <3>1, <1>1 DEF Sets, WorkRecord
    <3> QED
      BY <3>2, <2>2 DEF Verifies, Placed
  <2>3. CASE Authorizes(c)
    BY <2>3, <1>1 DEF Authorizes, Sets, WorkRecord, Placed
  <2> QED
    BY <2>1, <2>2, <2>3
<1>4. CandidateOK(c)'
  <2>1. \A d \in work[c].preds \cup Needs[c] : d \in Candidates /\ work[d].status = "promoted"
    BY <1>1, <1>3, IntegrationLaneAssumption DEF CandidateOK, WorkRecord, Worked, WorkStatuses
  <2>2. \A d \in work[c].preds \cup Needs[c] : work'[d].status = "promoted"
    BY <2>1, <1>2, <1>3
  <2> QED
    BY <1>1, <1>2, <1>3, <2>2 DEF CandidateOK
<1>5. OneRebaseAtATime' /\ LineageIsVerified' /\ CandidatesOK'
  BY <1>2, <1>3, <1>4, WorkKept
<1>6. QueueOK' /\ PredsOK'
  BY <1>2, <1>3, QueueKept
<1> QED
  BY <1>5, <1>6 DEF WorkInv, Types

LEMMA AgesKeep ==
  ASSUME WorkInv, TypeOK', DoingOK', NEW c \in Candidates, Ages(c)
  PROVE  WorkInv'
<1>1. CandidateOK(c) /\ work[c] \in WorkRecord /\ work \in [Candidates -> WorkRecord]
  BY CandidateShown
<1>2. UNCHANGED <<queue, head>> /\ \A d \in Candidates : d # c => work'[d] = work[d]
  BY <1>1 DEF Ages, Sets
<1>3. /\ work'[c].status = work[c].status /\ work'[c].preds = work[c].preds
      /\ work'[c].expected = work[c].expected /\ work'[c].verdict = work[c].verdict
      /\ work'[c].lease # "live"
  <2>1. PICK left \in {"due", "lapsed"} : Sets(c, [work[c] EXCEPT !.lease = left])
    BY DEF Ages
  <2> QED
    BY <2>1, <1>1 DEF Sets, WorkRecord
<1>4. \A d \in Candidates :
        /\ work'[d].status = work[d].status /\ work'[d].preds = work[d].preds
        /\ work'[d].expected = work[d].expected /\ work'[d].verdict = work[d].verdict
        /\ work'[d].lease = "live" => work[d].lease = "live"
  BY <1>2, <1>3
<1>5. ASSUME NEW d \in Candidates
      PROVE  CandidateOK(d)'
  <2>1. CandidateOK(d) /\ \A e \in work[d].preds \cup Needs[d] : e \in Candidates
    BY CandidateShown, IntegrationLaneAssumption DEF WorkRecord
  <2> QED
    BY <2>1, <1>2, <1>4 DEF CandidateOK
<1>6. LineageIsVerified'
  <2>1. \A t \in Targets : \A i \in DOMAIN head[t] : head[t][i] \in Candidates
    BY RevisionType DEF WorkInv, Types, TypeOK
  <2> QED
    BY <2>1, <1>2, <1>4 DEF WorkInv, LineageIsVerified
<1>7. OneRebaseAtATime'
  BY <1>4 DEF WorkInv, OneRebaseAtATime, In
<1>8. QueueOK' /\ PredsOK'
  BY <1>2, <1>3, QueueKept
<1> QED
  BY <1>5, <1>6, <1>7, <1>8 DEF WorkInv, Types, CandidatesOK

LEMMA PromotesShown ==
  ASSUME WorkInv, NEW c \in Candidates, Promotes(c)
  PROVE  LET t == TargetOf[c] h == head[t] IN
         /\ h \in Seq(Candidates) /\ h = work[c].expected
         /\ head'[t] = Append(h, c) /\ \A u \in Targets : u # t => head'[u] = head[u]
         /\ work[c].status = "authorized" /\ work'[c].status = "promoted"
         /\ work'[c].preds = work[c].preds /\ work'[c].expected = work[c].expected
         /\ work'[c].verdict = work[c].verdict /\ work'[c].lease = work[c].lease
         /\ \A d \in Candidates : d # c => work'[d] = work[d]
<1>1. work[c] \in WorkRecord /\ work \in [Candidates -> WorkRecord] /\ head[TargetOf[c]] \in Seq(Candidates)
  BY CandidateShown
<1>2. head' = [head EXCEPT ![TargetOf[c]] = Append(head[TargetOf[c]], c)]
  BY DEF Promotes, Rebased
<1>3. TargetOf[c] \in Targets /\ head \in [Targets -> Seq(Candidates)]
  BY TargetType DEF WorkInv, Types, TypeOK
<1>4. /\ work'[c].status = "promoted"
      /\ work'[c].preds = work[c].preds /\ work'[c].expected = work[c].expected
      /\ work'[c].verdict = work[c].verdict /\ work'[c].lease = work[c].lease
      /\ \A d \in Candidates : d # c => work'[d] = work[d]
  BY <1>1 DEF Promotes, Sets, WorkRecord
<1> QED
  BY <1>1, <1>2, <1>3, <1>4 DEF Promotes

LEMMA PromotesKeep ==
  ASSUME WorkInv, TypeOK', DoingOK', NEW c \in Candidates, Promotes(c)
  PROVE  WorkInv'
<1> DEFINE t == TargetOf[c]
           h == head[t]
<1>1. /\ h \in Seq(Candidates) /\ h = work[c].expected /\ t \in Targets
      /\ head'[t] = Append(h, c) /\ \A u \in Targets : u # t => head'[u] = head[u]
      /\ work[c].status = "authorized" /\ work'[c].status = "promoted"
      /\ work'[c].preds = work[c].preds /\ work'[c].expected = work[c].expected
      /\ work'[c].verdict = work[c].verdict /\ work'[c].lease = work[c].lease
      /\ \A d \in Candidates : d # c => work'[d] = work[d]
  BY PromotesShown, TargetType
<1>2. CandidateOK(c)
  BY CandidateShown
<1>3. /\ Len(h) \in Nat /\ Len(head'[t]) = Len(h) + 1 /\ DOMAIN h = 1..Len(h)
      /\ DOMAIN head'[t] = 1..Len(h) + 1
      /\ \A i \in 1..Len(h) : head'[t][i] = h[i]
      /\ head'[t][Len(h) + 1] = c
      /\ Contents(head'[t]) = Contents(h) \cup {c}
      /\ \A i \in 1..Len(h) + 1 : SubSeq(head'[t], 1, i - 1) = SubSeq(h, 1, i - 1)
      /\ SubSeq(head'[t], 1, Len(h)) = h
  BY <1>1, RevisionOnTop, RevisionType
<1> HIDE DEF h
<1>4. ASSUME NEW d \in Candidates
      PROVE  CandidateOK(d)'
  <2>1. CandidateOK(d) /\ work[d] \in WorkRecord /\ work[d].expected \in Seq(Candidates) /\ TargetOf[d] \in Targets
    BY CandidateShown, TargetType DEF WorkRecord
  <2>2. \A e \in work[d].preds \cup Needs[d] : e \in Candidates
    BY <2>1, IntegrationLaneAssumption DEF WorkRecord
  <2>3. \A e \in Candidates : work[e].status = "promoted" => work'[e].status = "promoted"
    BY <1>1
  <2>4. /\ work'[d].preds = work[d].preds /\ work'[d].expected = work[d].expected
        /\ work'[d].verdict = work[d].verdict
        /\ work'[d].status = work[d].status \/ (d = c /\ work'[d].status = "promoted")
    BY <1>1
  <2>5. Begins(work[d].expected, head'[TargetOf[d]]) /\ Contents(head[TargetOf[d]]) \subseteq Contents(head'[TargetOf[d]])
    <3>1. CASE TargetOf[d] = t
      <4>1. Begins(work[d].expected, h) /\ Len(work[d].expected) \in Nat
        BY <3>1, <2>1, RevisionType DEF CandidateOK, h
      <4>2. Begins(work[d].expected, head'[t])
        BY <4>1, <1>3 DEF Begins
      <4> QED
        BY <4>2, <3>1, <1>3 DEF h
    <3>2. CASE TargetOf[d] # t
      BY <3>2, <2>1, <1>1 DEF CandidateOK
    <3> QED
      BY <3>1, <3>2
  <2>6. work'[d].status \in Worked => \A e \in work[d].preds \cup Needs[d] : work'[e].status = "promoted"
    BY <1>1, <2>1, <2>2, <2>3, <2>4 DEF CandidateOK, Worked, WorkStatuses
  <2>7. work'[d].status \in Placed => work[d].preds \subseteq Contents(work[d].expected)
    BY <1>1, <2>1, <2>4 DEF CandidateOK, Placed
  <2>8. work'[d].status = "promoted" => d \in Contents(head'[TargetOf[d]])
    BY <1>1, <1>3, <2>1, <2>4, <2>5 DEF CandidateOK
  <2>9. work'[d].status \in {"verified", "authorized", "promoted"} => work[d].verdict = "passed"
    BY <1>1, <2>1, <2>4 DEF CandidateOK
  <2> QED
    BY <2>1, <2>4, <2>5, <2>6, <2>7, <2>8, <2>9 DEF CandidateOK
<1>5. ASSUME NEW u \in Targets, NEW i, i \in DOMAIN head'[u], NEW d, d = head'[u][i]
      PROVE  /\ TargetOf[d] = u /\ work'[d].status = "promoted" /\ work'[d].verdict = "passed"
             /\ work'[d].expected = SubSeq(head'[u], 1, i - 1)
  <2>1. ASSUME NEW e, NEW k \in DOMAIN head[u], e = head[u][k]
        PROVE  /\ e \in Candidates /\ e # c
               /\ TargetOf[e] = u /\ work'[e].status = "promoted" /\ work'[e].verdict = "passed"
               /\ work'[e].expected = SubSeq(head[u], 1, k - 1)
    <3>1. head[u] \in Seq(Candidates)
      BY DEF WorkInv, Types, TypeOK
    <3>2. e \in Candidates
      BY <2>1, <3>1, RevisionType
    <3>3. /\ TargetOf[e] = u /\ work[e].status = "promoted" /\ work[e].verdict = "passed"
          /\ work[e].expected = SubSeq(head[u], 1, k - 1)
      BY <2>1 DEF WorkInv, LineageIsVerified
    <3> QED
      BY <3>2, <3>3, <1>1
  <2>2. CASE u # t
    BY <2>2, <2>1, <1>1, <1>5
  <2>3. CASE u = t /\ i \in 1..Len(h)
    <3>1. i \in DOMAIN head[u] /\ d = head[u][i] /\ SubSeq(head'[u], 1, i - 1) = SubSeq(head[u], 1, i - 1)
      BY <2>3, <1>3, <1>5 DEF h
    <3> QED
      BY <3>1, <2>1
  <2>4. CASE u = t /\ i = Len(h) + 1
    <3>1. d = c /\ SubSeq(head'[u], 1, i - 1) = h
      BY <2>4, <1>3, <1>5
    <3> QED
      BY <3>1, <2>4, <1>1, <1>2 DEF CandidateOK
  <2> QED
    BY <2>2, <2>3, <2>4, <1>3, <1>5
<1>6. LineageIsVerified'
  BY <1>5 DEF LineageIsVerified
<1>7. OneRebaseAtATime'
  <2>1. \A d \in Candidates : work'[d].status = "leased" => work'[d] = work[d] /\ d # c
    BY <1>1
  <2> QED
    BY <2>1 DEF WorkInv, OneRebaseAtATime, In
<1>8. QueueOK' /\ PredsOK'
  BY <1>1, QueueKept DEF Promotes
<1> QED
  BY <1>4, <1>6, <1>7, <1>8 DEF WorkInv, Types, CandidatesOK

LEMMA UntouchedKeeps ==
  ASSUME WorkInv, TypeOK', DoingOK', Untouched
  PROVE  WorkInv'
<1>1. QueueOK' /\ PredsOK'
  BY DEF WorkInv, Types, Untouched, QueueOK, Queued, PredsOK
<1>2. OneRebaseAtATime' /\ LineageIsVerified'
  BY DEF WorkInv, Untouched, OneRebaseAtATime, LineageIsVerified, In
<1>3. CandidatesOK'
  BY DEF WorkInv, Untouched, CandidatesOK, CandidateOK
<1> QED
  BY <1>1, <1>2, <1>3 DEF WorkInv, Types

LEMMA MovesKeep ==
  ASSUME WorkInv, TypeOK', DoingOK', NEW c \in Candidates, Moves(c)
  PROVE  WorkInv'
BY EnqueuesKeep, LeasesKeep, PreparesKeep, OthersKeep, AgesKeep, PromotesKeep DEF Moves, Early

-----------------------------------------------------------------------------
(* What holds of the refs, the receipts under way and the keys.            *)

\* A promotion that was refused will be refused for ever: its head has gone.
PromoteKeysOK ==
  \A c \in Candidates : Key("promote", c, 0) \in used =>
    /\ work[c].status \in {"authorized", "promoted"}
    /\ work[c].status = "authorized" => head[TargetOf[c]] # work[c].expected

RefInv == (\A s \in Supervisors : Holding(s)) /\ PromoteKeysOK /\ RefIsRecordable

Inv == WorkInv /\ RefInv

\* Nothing changes for a candidate the operator has decided on.
LateKept ==
  \A d \in Candidates :
    /\ work'[d].status \in {"authorized", "promoted"} <=> work[d].status \in {"authorized", "promoted"}
    /\ work[d].status \in {"authorized", "promoted"}
       => work'[d].status = work[d].status /\ work'[d].expected = work[d].expected

LEMMA EarlyKeepsLate ==
  ASSUME WorkInv, NEW c \in Candidates, Early(c)
  PROVE  LateKept
<1>1. work[c] \in WorkRecord /\ work \in [Candidates -> WorkRecord]
  BY CandidateShown
<1>2. /\ \A d \in Candidates : d # c => work'[d] = work[d]
      /\ \/ /\ work[c].status \notin {"authorized", "promoted"}
            /\ work'[c].status \notin {"authorized", "promoted"}
         \/ /\ work'[c].status = work[c].status /\ work'[c].expected = work[c].expected
  <2>1. CASE Enqueues(c)
    BY <2>1, <1>1 DEF Enqueues, Sets, WorkRecord
  <2>2. CASE Leases(c)
    <3>1. PICK s \in Supervisors :
            Sets(c, [work[c] EXCEPT !.status = "leased", !.owner = s, !.fence = @ + 1, !.lease = "live"])
      BY <2>2 DEF Leases
    <3>2. work'[c].status = "leased" /\ \A d \in Candidates : d # c => work'[d] = work[d]
      BY <3>1, <1>1 DEF Sets, WorkRecord
    <3> QED
      BY <3>2, <2>2 DEF Leases, CanLease, Claimable
  <2>3. CASE Prepares(c)
    BY <2>3, <1>1 DEF Prepares, Sets, WorkRecord
  <2>4. CASE Conflicts(c)
    BY <2>4, <1>1 DEF Conflicts, Sets, WorkRecord
  <2>5. CASE Verifies(c)
    <3>1. PICK outcome \in {"passed", "failed"} :
            Sets(c, [work[c] EXCEPT !.status = IF outcome = "passed" THEN "verified" ELSE "failed",
                                    !.verdict = outcome, !.owner = Nobody, !.lease = "none"])
      BY <2>5 DEF Verifies
    <3>2. /\ work'[c].status = (IF outcome = "passed" THEN "verified" ELSE "failed")
          /\ \A d \in Candidates : d # c => work'[d] = work[d]
      BY <3>1, <1>1 DEF Sets, WorkRecord
    <3> QED
      BY <3>2, <2>5 DEF Verifies
  <2>6. CASE Ages(c)
    <3>1. PICK left \in {"due", "lapsed"} : Sets(c, [work[c] EXCEPT !.lease = left])
      BY <2>6 DEF Ages
    <3> QED
      BY <3>1, <1>1 DEF Sets, WorkRecord
  <2> QED
    BY <2>1, <2>2, <2>3, <2>4, <2>5, <2>6 DEF Early
<1> QED
  BY <1>2 DEF LateKept

LEMMA UntouchedKeepsLate ==
  ASSUME Untouched
  PROVE  LateKept
BY DEF Untouched, LateKept

LEMMA HoldingShown ==
  ASSUME WorkInv, NEW s \in Supervisors, doing[s].step = "promote"
  PROVE  doing[s].cand \in Candidates
BY HeldType DEF WorkInv

LEMMA SteadyKeeps ==
  ASSUME Inv, Steady, LateKept
  PROVE  RefInv'
<1>1. ASSUME NEW s \in Supervisors
      PROVE  Holding(s)'
  <2> SUFFICES ASSUME doing'[s].step = "promote"
               PROVE  Holding(s)'
    BY DEF Holding
  <2>1. doing'[s] = doing[s]
    BY DEF Steady
  <2>2. doing[s].cand \in Candidates /\ doing[s].step = "promote"
    BY <2>1, HoldingShown DEF Inv
  <2>3. PICK c \in Candidates : c = doing[s].cand
    BY <2>2
  <2>4. /\ doing[s].seen = work[c].expected
        /\ work[c].status \in {"authorized", "promoted"}
        /\ work[c].status = "authorized" /\ head[TargetOf[c]] = work[c].expected
           => ref[TargetOf[c]] = Append(work[c].expected, c)
    BY <2>2, <2>3 DEF Inv, RefInv, Holding, Rebased
  <2>5. work'[c].status = work[c].status /\ work'[c].expected = work[c].expected
    BY <2>4 DEF LateKept
  <2> QED
    BY <2>1, <2>3, <2>4, <2>5 DEF Holding, Rebased, Steady
<1>2. PromoteKeysOK'
  BY DEF Inv, RefInv, PromoteKeysOK, Steady, LateKept
<1>3. RefIsRecordable'
  <2> SUFFICES ASSUME NEW t \in Targets, ref[t] # head[t]
               PROVE  \E c \in Candidates :
                        /\ work'[c].status = "authorized"
                        /\ TargetOf[c] = t /\ ref[t] = Append(work'[c].expected, c)
                        /\ work'[c].expected = head[t] /\ Key("promote", c, 0) \notin used'
    BY DEF RefIsRecordable, Steady, In, Rebased, Fresh
  <2>1. PICK c \in Candidates :
          /\ work[c].status = "authorized"
          /\ TargetOf[c] = t /\ ref[t] = Append(work[c].expected, c)
          /\ work[c].expected = head[t] /\ Key("promote", c, 0) \notin used
    BY DEF Inv, RefInv, RefIsRecordable, In, Rebased, Fresh
  <2> QED
    BY <2>1 DEF Steady, LateKept
<1> QED
  BY <1>1, <1>2, <1>3 DEF RefInv

LEMMA AuthorizesKeeps ==
  ASSUME Inv, NEW c \in Candidates, Authorizes(c), UNCHANGED <<ref, used, doing>>
  PROVE  RefInv'
<1>1. work[c] \in WorkRecord /\ work \in [Candidates -> WorkRecord]
  BY CandidateShown DEF Inv
<1>2. /\ work'[c].status = "authorized" /\ work'[c].expected = work[c].expected
      /\ \A d \in Candidates : d # c => work'[d] = work[d]
      /\ work[c].status = "verified" /\ UNCHANGED head
  BY <1>1 DEF Authorizes, Sets, WorkRecord
<1>3. ASSUME NEW s \in Supervisors
      PROVE  Holding(s)'
  <2> SUFFICES ASSUME doing[s].step = "promote"
               PROVE  Holding(s)'
    BY DEF Holding
  <2>1. PICK d \in Candidates : d = doing[s].cand
    BY HoldingShown DEF Inv
  <2>2. /\ doing[s].seen = work[d].expected
        /\ work[d].status \in {"authorized", "promoted"}
        /\ work[d].status = "authorized" /\ head[TargetOf[d]] = work[d].expected
           => ref[TargetOf[d]] = Append(work[d].expected, d)
    BY <2>1 DEF Inv, RefInv, Holding, Rebased
  <2>3. work'[d] = work[d]
    BY <2>2, <1>2
  <2> QED
    BY <2>1, <2>2, <2>3, <1>2 DEF Holding, Rebased
<1>4. PromoteKeysOK'
  BY <1>2 DEF Inv, RefInv, PromoteKeysOK
<1>5. RefIsRecordable'
  <2> SUFFICES ASSUME NEW t \in Targets, ref[t] # head[t]
               PROVE  \E d \in Candidates :
                        /\ work'[d].status = "authorized"
                        /\ TargetOf[d] = t /\ ref[t] = Append(work'[d].expected, d)
                        /\ work'[d].expected = head[t] /\ Key("promote", d, 0) \notin used'
    BY <1>2 DEF RefIsRecordable, In, Rebased, Fresh
  <2>1. PICK d \in Candidates :
          /\ work[d].status = "authorized"
          /\ TargetOf[d] = t /\ ref[t] = Append(work[d].expected, d)
          /\ work[d].expected = head[t] /\ Key("promote", d, 0) \notin used
    BY DEF Inv, RefInv, RefIsRecordable, In, Rebased, Fresh
  <2> QED
    BY <2>1, <1>2
<1> QED
  BY <1>3, <1>4, <1>5 DEF RefInv

\* Where a ref is when a supervisor finds an authorized candidate for it: on the
\* head, or already on the candidate.
LEMMA WhereTheRefIs ==
  ASSUME Inv, NEW c \in Candidates, work[c].status = "authorized",
         ref[TargetOf[c]] \in {Rebased(c), work[c].expected}
  PROVE  /\ head[TargetOf[c]] = work[c].expected
         /\ ref[TargetOf[c]] # Rebased(c) => ref[TargetOf[c]] = head[TargetOf[c]]
         /\ c \notin Contents(head[TargetOf[c]])
         /\ Key("promote", c, 0) \notin used
<1> DEFINE t == TargetOf[c]
           h == head[t]
<1>1. /\ CandidateOK(c) /\ h \in Seq(Candidates) /\ work[c].expected \in Seq(Candidates)
      /\ t \in Targets
  BY CandidateShown, TargetType DEF Inv, WorkRecord
<1>2. c \notin Contents(h)
  BY <1>1 DEF Inv, WorkInv, LineageIsVerified, Contents
<1>3. Len(work[c].expected) <= Len(h) /\ Len(h) \in Nat /\ Len(work[c].expected) \in Nat
  BY <1>1, RevisionType DEF CandidateOK, Begins
<1>4. CASE ref[t] = h
  <2>1. h # Rebased(c)
    BY <1>1, <1>2, RevisionOnTop DEF Rebased
  <2>2. ref[t] = work[c].expected
    BY <1>4, <2>1
  <2>3. Key("promote", c, 0) \notin used
    BY <1>4, <2>2 DEF Inv, RefInv, PromoteKeysOK
  <2> QED
    BY <1>2, <1>4, <2>2, <2>3
<1>5. CASE ref[t] # h
  <2>1. PICK d \in Candidates :
          /\ work[d].status = "authorized"
          /\ TargetOf[d] = t /\ ref[t] = Append(work[d].expected, d)
          /\ work[d].expected = h /\ Key("promote", d, 0) \notin used
    BY <1>1, <1>5 DEF Inv, RefInv, RefIsRecordable, In, Rebased, Fresh
  <2>2. ref[t] # work[c].expected
    <3>1. Len(Append(h, d)) = Len(h) + 1
      BY <1>1, RevisionOnTop
    <3> QED
      BY <3>1, <2>1, <1>3
  <2>3. Append(work[c].expected, c) = Append(h, d)
    BY <2>1, <2>2 DEF Rebased
  <2>4. work[c].expected = h /\ c = d
    <3>1. work[c].expected \in Seq(Candidates) /\ h \in Seq(Candidates)
      BY <1>1
    <3> HIDE DEF h, t
    <3> QED
      BY <2>3, <3>1, RevisionSplits
  <2> QED
    BY <2>1, <2>4, <2>2, <1>2
<1> QED
  BY <1>4, <1>5

LEMMA AdvancesKeeps ==
  ASSUME Inv, NEW s \in Supervisors, NEW c \in Candidates, Advances(s, c)
  PROVE  RefInv'
<1>1. /\ head[TargetOf[c]] = work[c].expected
      /\ ref[TargetOf[c]] # Rebased(c) => ref[TargetOf[c]] = head[TargetOf[c]]
      /\ c \notin Contents(head[TargetOf[c]])
      /\ Key("promote", c, 0) \notin used
  BY WhereTheRefIs DEF Advances
<1>2. /\ UNCHANGED <<work, head, used>> /\ work[c].status = "authorized"
      /\ TargetOf[c] \in Targets /\ ref \in [Targets -> Seq(Candidates)]
      /\ ref'[TargetOf[c]] = Append(work[c].expected, c)
      /\ \A t \in Targets : t # TargetOf[c] => ref'[t] = ref[t]
  BY TargetType DEF Advances, Inv, WorkInv, Types, TypeOK, Rebased
<1>3. doing'[s] = Promoting(c) /\ \A u \in Supervisors : u # s => doing'[u] = doing[u]
  BY DEF Advances, Inv, WorkInv, Types, DoingOK
<1>4. ASSUME NEW u \in Supervisors
      PROVE  Holding(u)'
  <2>1. CASE u = s
    <3>1. doing'[u].cand = c /\ doing'[u].seen = work[c].expected
      BY <2>1, <1>3 DEF Promoting, Idle
    <3> QED
      BY <3>1, <1>2 DEF Holding, Rebased
  <2>2. CASE u # s
    <3> SUFFICES ASSUME doing[u].step = "promote"
                 PROVE  Holding(u)'
      BY <2>2, <1>3 DEF Holding
    <3>1. PICK d \in Candidates : d = doing[u].cand
      BY HoldingShown DEF Inv
    <3>2. /\ doing[u].seen = work[d].expected
          /\ work[d].status \in {"authorized", "promoted"}
          /\ work[d].status = "authorized" /\ head[TargetOf[d]] = work[d].expected
             => ref[TargetOf[d]] = Append(work[d].expected, d)
      BY <3>1 DEF Inv, RefInv, Holding, Rebased
    <3>3. /\ TargetOf[d] \in Targets
          /\ work[d].expected \in Seq(Candidates) /\ work[c].expected \in Seq(Candidates)
      BY TargetType, CandidateShown DEF Inv, WorkRecord
    <3>4. work[d].status = "authorized" /\ head[TargetOf[d]] = work[d].expected
          => ref'[TargetOf[d]] = Append(work[d].expected, d)
      <4> SUFFICES ASSUME work[d].status = "authorized", head[TargetOf[d]] = work[d].expected
                   PROVE  ref'[TargetOf[d]] = Append(work[d].expected, d)
        OBVIOUS
      <4>1. ref[TargetOf[d]] = Append(work[d].expected, d)
        BY <3>2
      <4>2. CASE TargetOf[d] = TargetOf[c]
        <5>1. ref[TargetOf[d]] # head[TargetOf[d]]
          BY <4>1, <3>3, RevisionOnTop
        <5>2. ref[TargetOf[d]] = Append(work[c].expected, c)
          BY <4>2, <5>1, <1>1 DEF Rebased
        <5> QED
          BY <4>1, <4>2, <5>2, <1>2
      <4>3. CASE TargetOf[d] # TargetOf[c]
        BY <4>1, <4>3, <3>3, <1>2
      <4> QED
        BY <4>2, <4>3
    <3> QED
      BY <2>2, <1>3, <1>2, <3>1, <3>2, <3>4 DEF Holding, Rebased
  <2> QED
    BY <2>1, <2>2
<1>5. PromoteKeysOK'
  BY <1>2 DEF Inv, RefInv, PromoteKeysOK
<1>6. RefIsRecordable'
  <2> SUFFICES ASSUME NEW t \in Targets, ref'[t] # head[t]
               PROVE  \E d \in Candidates :
                        /\ work[d].status = "authorized"
                        /\ TargetOf[d] = t /\ ref'[t] = Append(work[d].expected, d)
                        /\ work[d].expected = head[t] /\ Key("promote", d, 0) \notin used
    BY <1>2 DEF RefIsRecordable, In, Rebased, Fresh
  <2>1. CASE t = TargetOf[c]
    BY <2>1, <1>1, <1>2
  <2>2. CASE t # TargetOf[c]
    <3>1. ref[t] # head[t] /\ ref'[t] = ref[t]
      BY <2>2, <1>2
    <3> QED
      BY <3>1 DEF Inv, RefInv, RefIsRecordable, In, Rebased, Fresh
  <2> QED
    BY <2>1, <2>2
<1> QED
  BY <1>4, <1>5, <1>6 DEF RefInv

\* The receipt of a promotion is recorded.
LEMMA PromotesKeepRefs ==
  ASSUME Inv, NEW c \in Candidates, Promotes(c), ref[TargetOf[c]] = Rebased(c), UNCHANGED ref,
         used' = used \cup {Key("promote", c, 0)},
         \A u \in Supervisors : doing'[u] = doing[u] \/ doing'[u].step = "idle"
  PROVE  RefInv'
<1> DEFINE t == TargetOf[c]
           h == head[t]
<1>1. /\ h \in Seq(Candidates) /\ h = work[c].expected /\ t \in Targets
      /\ head'[t] = Append(h, c) /\ \A u \in Targets : u # t => head'[u] = head[u]
      /\ work[c].status = "authorized" /\ work'[c].status = "promoted"
      /\ work'[c].expected = work[c].expected
      /\ \A d \in Candidates : d # c => work'[d] = work[d]
  BY PromotesShown, TargetType DEF Inv
<1>2. ref[t] = head'[t]
  BY <1>1 DEF Rebased
<1>3. Len(head'[t]) = Len(h) + 1 /\ Len(h) \in Nat
  BY <1>1, RevisionOnTop, RevisionType
\* No revision that was made before is the new head.
<1>4. ASSUME NEW d \in Candidates
      PROVE  TargetOf[d] = t => work[d].expected # head'[t]
  <2>1. CandidateOK(d) /\ work[d].expected \in Seq(Candidates)
    BY CandidateShown DEF Inv, WorkRecord
  <2> SUFFICES ASSUME TargetOf[d] = t
               PROVE  work[d].expected # head'[t]
    OBVIOUS
  <2>2. Len(work[d].expected) <= Len(h) /\ Len(work[d].expected) \in Nat
    BY <2>1, RevisionType DEF CandidateOK, Begins
  <2> QED
    BY <2>2, <1>3
<1> HIDE DEF h
<1>5. ASSUME NEW u \in Supervisors
      PROVE  Holding(u)'
  <2> SUFFICES ASSUME doing'[u].step = "promote"
               PROVE  Holding(u)'
    BY DEF Holding
  <2>1. doing'[u] = doing[u] /\ doing[u].step = "promote"
    OBVIOUS
  <2>2. PICK d \in Candidates : d = doing[u].cand
    BY <2>1, HoldingShown DEF Inv
  <2>3. /\ doing[u].seen = work[d].expected
        /\ work[d].status \in {"authorized", "promoted"}
        /\ work[d].status = "authorized" /\ head[TargetOf[d]] = work[d].expected
           => ref[TargetOf[d]] = Append(work[d].expected, d)
    BY <2>1, <2>2 DEF Inv, RefInv, Holding, Rebased
  <2>4. /\ work'[d].status \in {"authorized", "promoted"} /\ work'[d].expected = work[d].expected
        /\ work'[d].status = "authorized" => work[d].status = "authorized"
    BY <1>1, <2>3
  <2>5. work'[d].status = "authorized" /\ head'[TargetOf[d]] = work[d].expected
        => ref[TargetOf[d]] = Append(work[d].expected, d)
    BY <1>1, <1>4, <2>3, <2>4, TargetType
  <2> QED
    BY <2>1, <2>2, <2>3, <2>4, <2>5 DEF Holding, Rebased
<1>6. PromoteKeysOK'
  <2> SUFFICES ASSUME NEW d \in Candidates, Key("promote", d, 0) \in used'
               PROVE  /\ work'[d].status \in {"authorized", "promoted"}
                      /\ work'[d].status = "authorized" => head'[TargetOf[d]] # work'[d].expected
    BY DEF PromoteKeysOK
  <2>1. CASE d = c
    BY <2>1, <1>1
  <2>2. CASE d # c
    <3>1. Key("promote", d, 0) \in used
      BY <2>2 DEF Key
    <3>2. /\ work[d].status \in {"authorized", "promoted"}
          /\ work[d].status = "authorized" => head[TargetOf[d]] # work[d].expected
      BY <3>1 DEF Inv, RefInv, PromoteKeysOK
    <3> QED
      BY <2>2, <3>2, <1>1, <1>4, TargetType
  <2> QED
    BY <2>1, <2>2
<1>7. RefIsRecordable'
  <2> SUFFICES ASSUME NEW u \in Targets, ref[u] # head'[u]
               PROVE  \E d \in Candidates :
                        /\ work'[d].status = "authorized"
                        /\ TargetOf[d] = u /\ ref[u] = Append(work'[d].expected, d)
                        /\ work'[d].expected = head'[u] /\ Key("promote", d, 0) \notin used'
    BY DEF RefIsRecordable, In, Rebased, Fresh
  <2>1. u # t /\ ref[u] # head[u] /\ head'[u] = head[u]
    BY <1>1, <1>2
  <2>2. PICK d \in Candidates :
          /\ work[d].status = "authorized"
          /\ TargetOf[d] = u /\ ref[u] = Append(work[d].expected, d)
          /\ work[d].expected = head[u] /\ Key("promote", d, 0) \notin used
    BY <2>1 DEF Inv, RefInv, RefIsRecordable, In, Rebased, Fresh
  <2>3. d # c /\ Key("promote", d, 0) # Key("promote", c, 0)
    BY <2>1, <2>2 DEF Key
  <2> QED
    BY <2>1, <2>2, <2>3, <1>1
<1> QED
  BY <1>5, <1>6, <1>7 DEF RefInv

\* The receipt of a promotion is refused, or answered from the receipt it has.
LEMMA RefusalKeepsRefs ==
  ASSUME Inv, NEW c \in Candidates, Untouched, UNCHANGED ref,
         used' = used \cup {Key("promote", c, 0)},
         work[c].status \in {"authorized", "promoted"},
         \/ Key("promote", c, 0) \in used
         \/ work[c].status = "promoted"
         \/ head[TargetOf[c]] # work[c].expected,
         \A u \in Supervisors : doing'[u] = doing[u] \/ doing'[u].step = "idle"
  PROVE  RefInv'
<1>1. UNCHANGED <<work, head>>
  BY DEF Untouched
<1>2. ASSUME NEW d \in Candidates, Key("promote", d, 0) \in used'
      PROVE  Key("promote", d, 0) \in used \/ d = c
  BY <1>2 DEF Key
<1>3. ASSUME NEW u \in Supervisors
      PROVE  Holding(u)'
  <2>1. doing'[u].step = "promote" => doing'[u] = doing[u]
    OBVIOUS
  <2> QED
    BY <2>1, <1>1 DEF Inv, RefInv, Holding, Rebased
<1>4. PromoteKeysOK'
  BY <1>1, <1>2 DEF Inv, RefInv, PromoteKeysOK
<1>5. RefIsRecordable'
  <2> SUFFICES ASSUME NEW t \in Targets, ref[t] # head[t]
               PROVE  \E d \in Candidates :
                        /\ work[d].status = "authorized"
                        /\ TargetOf[d] = t /\ ref[t] = Append(work[d].expected, d)
                        /\ work[d].expected = head[t] /\ Key("promote", d, 0) \notin used'
    BY <1>1 DEF RefIsRecordable, In, Rebased, Fresh
  <2>1. PICK d \in Candidates :
          /\ work[d].status = "authorized"
          /\ TargetOf[d] = t /\ ref[t] = Append(work[d].expected, d)
          /\ work[d].expected = head[t] /\ Key("promote", d, 0) \notin used
    BY DEF Inv, RefInv, RefIsRecordable, In, Rebased, Fresh
  <2>2. d # c
    BY <2>1
  <2> QED
    BY <2>1, <2>2, <1>2
<1> QED
  BY <1>3, <1>4, <1>5 DEF RefInv

LEMMA RecordKeeps ==
  ASSUME Inv, NEW s \in Supervisors, RecordPromotion(s)
  PROVE  Inv'
<1>1. Types /\ Holding(s)
  BY DEF Inv, WorkInv, RefInv
<1>2. PICK c \in Candidates : c = doing[s].cand
  BY <1>1, RecordMoves
<1>3. /\ TypeOK' /\ DoingOK' /\ UNCHANGED ref
      /\ used' = used \cup {Key("promote", c, 0)}
      /\ \A u \in Supervisors : doing'[u] = doing[u] \/ doing'[u].step = "idle"
      /\ work[c].status \in {"authorized", "promoted"}
      /\ \/ Promotes(c) /\ ref[TargetOf[c]] = Rebased(c)
         \/ /\ Untouched
            /\ \/ Key("promote", c, 0) \in used
               \/ work[c].status = "promoted"
               \/ head[TargetOf[c]] # work[c].expected
  BY <1>1, <1>2, RecordMoves
<1>4. WorkInv'
  BY <1>3, MovesKeep, UntouchedKeeps DEF Inv, Moves
<1>5. RefInv'
  BY <1>3, PromotesKeepRefs, RefusalKeepsRefs
<1> QED
  BY <1>4, <1>5 DEF Inv

-----------------------------------------------------------------------------
(* The invariant of the lane.                                              *)

LEMMA InitHolds ==
  ASSUME Init
  PROVE  Inv
<1>1. <<>> \in Seq(Candidates) /\ DOMAIN <<>> = {} /\ Len(<<>>) = 0
  BY EmptySeq, LenProperties
<1>2. NoWork \in WorkRecord /\ NoWork.status = "absent" /\ NoWork.preds = {} /\ NoWork.expected = <<>>
  BY <1>1 DEF NoWork, WorkRecord, WorkStatuses
<1>3. \A c \in Candidates : work[c] = NoWork
  BY DEF Init
<1>4. TypeOK
  BY <1>1, <1>2, IdleType DEF Init, TypeOK, WorkRecord
<1>5. DoingOK
  BY IdleType DEF Init, DoingOK
<1>6. QueueOK /\ PredsOK
  BY <1>1, <1>2, <1>3 DEF Init, QueueOK, PredsOK, Queued
<1>7. OneRebaseAtATime /\ LineageIsVerified
  BY <1>1, <1>2, <1>3 DEF Init, OneRebaseAtATime, LineageIsVerified, In
<1>8. CandidatesOK
  <2> SUFFICES ASSUME NEW c \in Candidates
               PROVE  CandidateOK(c)
    BY DEF CandidatesOK
  <2>1. Begins(work[c].expected, head[TargetOf[c]])
    BY <1>1, <1>2, <1>3, TargetType, EmptyBegins DEF Init
  <2> QED
    BY <2>1, <1>2, <1>3 DEF CandidateOK, Worked, Placed
<1>9. RefInv
  BY IdleType DEF Init, RefInv, Holding, PromoteKeysOK, RefIsRecordable
<1> QED
  BY <1>4, <1>5, <1>6, <1>7, <1>8, <1>9 DEF Inv, WorkInv, Types

LEMMA StutterHolds ==
  ASSUME Inv, UNCHANGED vars
  PROVE  Inv'
<1>1. TypeOK' /\ DoingOK' /\ Untouched /\ Steady
  BY DEF Inv, WorkInv, Types, TypeOK, DoingOK, vars, Untouched, Steady
<1> QED
  BY <1>1, UntouchedKeeps, UntouchedKeepsLate, SteadyKeeps DEF Inv

\* A step that is not about a promotion.
LEMMA SteadyHolds ==
  ASSUME Inv, TypeOK', DoingOK', Steady, Untouched \/ \E c \in Candidates : Early(c)
  PROVE  Inv'
<1>1. LateKept
  BY UntouchedKeepsLate, EarlyKeepsLate DEF Inv
<1>2. WorkInv'
  BY UntouchedKeeps, MovesKeep DEF Inv, Moves
<1> QED
  BY <1>1, <1>2, SteadyKeeps DEF Inv

LEMMA TickHolds ==
  ASSUME Inv, NEW s \in Supervisors, Tick(s)
  PROVE  Inv'
<1>1. Types
  BY DEF Inv, WorkInv
<1>2. ASSUME NEW c \in Candidates, RecordDiff(s, c) \/ RaiseViolation(s, c) \/ ReadQueue(s, c)
      PROVE  Inv'
  BY <1>1, <1>2, DiffMoves, ReadQueueMoves, SteadyHolds
<1>3. CASE Queue(s)
  BY <1>1, <1>3, QueueMoves, SteadyHolds
<1>4. CASE AcquireWork(s)
  BY <1>1, <1>4, AcquireMoves, SteadyHolds
<1>5. CASE Rebase(s)
  BY <1>1, <1>5, RebaseMoves, SteadyHolds
<1>6. CASE Prepare(s)
  BY <1>1, <1>6, PrepareMoves, SteadyHolds
<1>7. CASE RecordConflict(s)
  BY <1>1, <1>7, ConflictMoves, SteadyHolds
<1>8. CASE RunVerifier(s)
  BY <1>1, <1>8, RunVerifierMoves, SteadyHolds
<1>9. ASSUME NEW outcome \in {"passed", "failed"}, Verify(s, outcome)
      PROVE  Inv'
  BY <1>1, <1>9, VerifyMoves, SteadyHolds
<1>10. CASE CompileDecision(s)
  BY <1>1, <1>10, DecisionMoves, SteadyHolds
<1>11. CASE MoveRef(s)
  <2>1. TypeOK' /\ DoingOK' /\ \E c \in Candidates : Advances(s, c)
    BY <1>1, <1>11, MoveRefMoves
  <2>2. PICK c \in Candidates : Advances(s, c)
    BY <2>1
  <2>3. RefInv'
    BY <2>2, AdvancesKeeps
  <2>4. WorkInv'
    BY <2>1, <2>2, UntouchedKeeps DEF Inv, Advances, Untouched
  <2> QED
    BY <2>3, <2>4 DEF Inv
<1>12. CASE RecordPromotion(s)
  BY <1>12, RecordKeeps
<1> QED
  BY <1>2, <1>3, <1>4, <1>5, <1>6, <1>7, <1>8, <1>9, <1>10, <1>11, <1>12 DEF Tick

LEMMA NextHolds ==
  ASSUME Inv, [Next]_vars
  PROVE  Inv'
<1>1. Types
  BY DEF Inv, WorkInv
<1>2. ASSUME NEW c \in Candidates, FinishProgram(c)
      PROVE  Inv'
  BY <1>1, <1>2, ProgramMoves, SteadyHolds
<1>3. ASSUME NEW c \in Candidates, Integrate(c)
      PROVE  Inv'
  <2>1. TypeOK' /\ DoingOK' /\ Authorizes(c) /\ UNCHANGED <<ref, used, doing>>
    BY <1>1, <1>3, IntegrateMoves
  <2> QED
    BY <2>1, MovesKeep, AuthorizesKeeps DEF Inv, Moves
<1>4. ASSUME NEW c \in Candidates, TimePasses(c)
      PROVE  Inv'
  BY <1>1, <1>4, TimeMoves, SteadyHolds
<1>5. ASSUME NEW s \in Supervisors, Tick(s)
      PROVE  Inv'
  BY <1>5, TickHolds
<1>6. ASSUME NEW s \in Supervisors, Die(s)
      PROVE  Inv'
  BY <1>1, <1>6, DieMoves, SteadyHolds
<1> QED
  BY <1>2, <1>3, <1>4, <1>5, <1>6, StutterHolds DEF Next

LEMMA InvHolds == Spec => []Inv
<1>1. Init => Inv
  BY InitHolds
<1>2. Inv /\ [Next]_vars => Inv'
  BY NextHolds
<1> QED
  BY <1>1, <1>2, PTL DEF Spec

-----------------------------------------------------------------------------
(* The properties of the lane.                                             *)

\* integration-work.lease.acquire, prepare, verify and integration.promote.record:
\* every candidate of a head passed its verification on the very head it was
\* appended to, and no two supervisors rebase onto one head.
THEOREM LaneInvHolds == Spec => []LaneInv
<1>1. Inv => LaneInv
  BY DEF Inv, WorkInv, Types, LaneInv
<1> QED
  BY <1>1, InvHolds, PTL

\* promoteIntegrationRef and integration.promote.record: once the Git ref has
\* moved, nothing, a death least of all, makes the promotion unrecordable.
THEOREM RefIsRecordableHolds == Spec => []RefIsRecordable
<1>1. Inv => RefIsRecordable
  BY DEF Inv, RefInv
<1> QED
  BY <1>1, InvHolds, PTL

\* integration-candidate.queue and integration-work.lease.acquire: a candidate is
\* integrated on top of the overlapping ones that were admitted and queued before
\* it, and after those its program depends on.
THEOREM PredecessorsPrecedeHolds == Spec => []PredecessorsPrecede
<1>1. ASSUME Inv
      PROVE  PredecessorsPrecede
  <2> SUFFICES ASSUME NEW c \in Candidates, work[c].status = "promoted"
               PROVE  /\ \A d \in Needs[c] : work[d].status = "promoted"
                      /\ \A i, k \in DOMAIN queue :
                           /\ queue[k] = c /\ i < k
                           /\ TargetOf[queue[i]] = TargetOf[c] /\ Admission[queue[i]] < Admission[c]
                           /\ {c, queue[i]} \in Overlaps
                           => queue[i] \in Contents(work[c].expected)
    BY DEF PredecessorsPrecede, In
  <2>1. CandidateOK(c)
    BY <1>1, CandidateShown DEF Inv
  <2>2. /\ \A d \in work[c].preds \cup Needs[c] : work[d].status = "promoted"
        /\ work[c].preds \subseteq Contents(work[c].expected)
    BY <2>1 DEF CandidateOK, Worked, WorkStatuses, Placed
  <2>3. ASSUME NEW i \in DOMAIN queue, NEW k \in DOMAIN queue, queue[k] = c, i < k,
               TargetOf[queue[i]] = TargetOf[c], Admission[queue[i]] < Admission[c],
               {c, queue[i]} \in Overlaps
        PROVE  queue[i] \in work[c].preds
    BY <1>1, <2>3 DEF Inv, WorkInv, PredsOK
  <2> QED
    BY <2>2, <2>3
<1> QED
  BY <1>1, InvHolds, PTL

-----------------------------------------------------------------------------
(* Each target is a managed ref.                                           *)

LEMMA AdvanceIsManaged ==
  ASSUME Inv, NEW s \in Supervisors, NEW c \in Candidates, Advances(s, c)
  PROVE  Managed!Next \/ UNCHANGED <<head, ref>>
<1>1. /\ head[TargetOf[c]] = work[c].expected
      /\ ref[TargetOf[c]] # Rebased(c) => ref[TargetOf[c]] = head[TargetOf[c]]
      /\ c \notin Contents(head[TargetOf[c]])
  BY WhereTheRefIs DEF Advances
<1>2. /\ UNCHANGED head /\ ref' = [ref EXCEPT ![TargetOf[c]] = Rebased(c)]
      /\ ref \in [Targets -> Seq(Candidates)]
  BY DEF Advances, Inv, WorkInv, Types, TypeOK
<1>3. CASE ref[TargetOf[c]] = Rebased(c)
  BY <1>2, <1>3
<1>4. CASE ref[TargetOf[c]] # Rebased(c)
  <2>1. Managed!MoveRef(c)
    BY <1>1, <1>2, <1>4 DEF Managed!MoveRef, Managed!Holds, Rebased, Contents
  <2> QED
    BY <2>1 DEF Managed!Next
<1> QED
  BY <1>3, <1>4

LEMMA PromotionIsManaged ==
  ASSUME Inv, NEW s \in Supervisors, RecordPromotion(s)
  PROVE  Managed!Next \/ UNCHANGED <<head, ref>>
<1>1. Types /\ Holding(s)
  BY DEF Inv, WorkInv, RefInv
<1>2. PICK c \in Candidates : c = doing[s].cand
  BY <1>1, RecordMoves
<1>3. UNCHANGED ref /\ \/ Promotes(c) /\ ref[TargetOf[c]] = Rebased(c)
                       \/ Untouched
  BY <1>1, <1>2, RecordMoves
<1>4. CASE Promotes(c) /\ ref[TargetOf[c]] = Rebased(c)
  <2>1. Managed!Record(TargetOf[c])
    BY <1>3, <1>4 DEF Promotes, Managed!Record
  <2> QED
    BY <2>1, TargetType DEF Managed!Next
<1>5. CASE Untouched
  BY <1>3, <1>5 DEF Untouched
<1> QED
  BY <1>3, <1>4, <1>5

LEMMA StepIsManaged ==
  ASSUME Inv, [Next]_vars
  PROVE  [Managed!Next]_(Managed!vars)
<1> SUFFICES Managed!Next \/ UNCHANGED <<head, ref>>
  BY DEF Managed!vars
<1>1. Types
  BY DEF Inv, WorkInv
<1>2. CASE UNCHANGED vars
  BY <1>2 DEF vars
<1>3. ASSUME NEW c \in Candidates, FinishProgram(c) \/ Integrate(c) \/ TimePasses(c)
      PROVE  UNCHANGED <<head, ref>>
  BY <1>3 DEF FinishProgram, Integrate, TimePasses
<1>4. ASSUME NEW s \in Supervisors, Die(s)
      PROVE  UNCHANGED <<head, ref>>
  BY <1>4 DEF Die
<1>5. ASSUME NEW s \in Supervisors, Tick(s)
      PROVE  Managed!Next \/ UNCHANGED <<head, ref>>
  <2>1. CASE MoveRef(s)
    BY <1>1, <2>1, MoveRefMoves, AdvanceIsManaged
  <2>2. CASE RecordPromotion(s)
    BY <2>2, PromotionIsManaged
  <2>3. CASE ~ MoveRef(s) /\ ~ RecordPromotion(s)
    BY <1>5, <2>3 DEF Tick, RecordDiff, RaiseViolation, ReadQueue, Queue, AcquireWork, Rebase,
                      Prepare, RecordConflict, RunVerifier, Verify, CompileDecision
  <2> QED
    BY <2>1, <2>2, <2>3
<1> QED
  BY <1>2, <1>3, <1>4, <1>5 DEF Next

\* promoteIntegrationRef and integration.promote.record implement a managed ref:
\* a target only grows, by one candidate at a time, the ref first, and the
\* kernel's head follows the ref.
THEOREM ManagedRefIsImplemented == Spec => ImplementsManagedRef
<1>1. Init => Managed!Init
  BY DEF Init, Managed!Init
<1>2. Inv /\ [Next]_vars => [Managed!Next]_(Managed!vars)
  BY StepIsManaged
<1>3. Spec => Managed!Init /\ [][Managed!Next]_(Managed!vars)
  BY <1>1, <1>2, InvHolds, PTL DEF Spec
<1> QED
  BY <1>3 DEF ImplementsManagedRef, Managed!Spec
=============================================================================
