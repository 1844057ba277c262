-------------------------- MODULE CommandLogProofs --------------------------
(***************************************************************************)
(* Proofs about CommandLog, for any processes, requests and streams.       *)
(***************************************************************************)
EXTENDS CommandLog, FiniteSetTheorems, SequenceTheorems, TLAPS

-----------------------------------------------------------------------------
(* Receipts and the events of one command.                                 *)

Receipts == {NoReceipt} \cup {Receipt(s, r) : s \in {"accepted", "rejected"}, r \in Requests}

LEMMA ReceiptsDiffer ==
  ASSUME NEW s \in {"accepted", "rejected"}, NEW t \in {"accepted", "rejected"},
         NEW q \in Requests, NEW r \in Requests
  PROVE  /\ Receipt(s, q) # NoReceipt
         /\ Receipt(s, q) \in Receipts
         /\ Receipt(s, q).status = s /\ Receipt(s, q).by = q
         /\ Receipt(s, q) = Receipt(t, r) <=> s = t /\ q = r
<1>1. Receipt(s, q).status = s /\ Receipt(s, q).by = q /\ Receipt(t, r).status = t /\ Receipt(t, r).by = r
  BY DEF Receipt
<1>2. NoReceipt.status = "none"
  BY DEF NoReceipt
<1>3. Receipt(s, q) # NoReceipt
  BY <1>1, <1>2
<1>4. Receipt(s, q) = Receipt(t, r) <=> s = t /\ q = r
  BY <1>1
<1>5. Receipt(s, q) \in Receipts
  BY DEF Receipts
<1> QED
  BY <1>1, <1>3, <1>4, <1>5

LEMMA ReceiptCases ==
  ASSUME NEW x \in Receipts, x # NoReceipt
  PROVE  x.status \in {"accepted", "rejected"} /\ x.by \in Requests /\ x = Receipt(x.status, x.by)
<1>1. PICK s \in {"accepted", "rejected"}, r \in Requests : x = Receipt(s, r)
  BY DEF Receipts
<1> QED
  BY <1>1, ReceiptsDiffer

LEMMA VersionType ==
  ASSUME NEW events \in Seq(Events), NEW s
  PROVE  VersionOf(events, s) \in Nat
<1>1. IsFiniteSet(1..Len(events))
  BY FS_Interval
<1>2. {i \in DOMAIN events : events[i].stream = s} \subseteq 1..Len(events)
  OBVIOUS
<1>3. IsFiniteSet({i \in DOMAIN events : events[i].stream = s})
  BY <1>1, <1>2, FS_Subset
<1> QED
  BY <1>3, FS_CardinalityType DEF VersionOf

LEMMA AppendedType ==
  ASSUME NEW events \in Seq(Events), NEW r \in Requests
  PROVE  /\ Appended(events, r) \in Seq(Events)
         /\ Accepted(Appended(events, r)) = Accepted(events) \cup {r}
<1> DEFINE new == [i \in DOMAIN Writes[r] |->
                     [stream |-> Writes[r][i], by |-> r,
                      version |-> VersionOf(events, Writes[r][i])
                                    + Cardinality({k \in 1..i : Writes[r][k] = Writes[r][i]})]]
<1>1. Writes[r] \in Seq(Streams) /\ Writes[r] # <<>>
  BY CommandLogAssumption
<1>2. ASSUME NEW i \in DOMAIN Writes[r]
      PROVE  new[i] \in Events
  <2>1. i \in Nat /\ Writes[r][i] \in Streams
    BY <1>1
  <2>2. IsFiniteSet({k \in 1..i : Writes[r][k] = Writes[r][i]})
    <3>1. IsFiniteSet(1..i)
      BY <2>1, FS_Interval
    <3> QED
      BY <3>1, FS_Subset
  <2>3. Cardinality({k \in 1..i : Writes[r][k] = Writes[r][i]}) \in Nat
    BY <2>2, FS_CardinalityType
  <2>4. VersionOf(events, Writes[r][i]) \in Nat
    BY VersionType
  <2>5. new[i] = [stream |-> Writes[r][i], by |-> r,
                  version |-> VersionOf(events, Writes[r][i])
                                + Cardinality({k \in 1..i : Writes[r][k] = Writes[r][i]})]
    OBVIOUS
  <2> QED
    BY <2>1, <2>3, <2>4, <2>5 DEF Events
<1>3. new \in Seq(Events) /\ Len(new) = Len(Writes[r])
  <2> DEFINE n == Len(Writes[r])
  <2>1. DOMAIN new = 1..n /\ n \in Nat
    BY <1>1
  <2>2. new \in [1..n -> Events]
    BY <1>2, <2>1
  <2> HIDE DEF new, n
  <2>3. new \in Seq(Events) /\ Len(new) = n
    BY <2>1, <2>2
  <2> QED
    BY <2>3 DEF n
<1>4. \A i \in DOMAIN new : new[i].by = r
  OBVIOUS
<1>5. Len(new) > 0
  BY <1>1, <1>3
<1>6. Appended(events, r) = events \o new
  BY DEF Appended
<1> HIDE DEF new
<1>7. events \o new \in Seq(Events)
  BY <1>3
<1>8. Accepted(events \o new) = Accepted(events) \cup {r}
  <2>1. /\ Len(events \o new) = Len(events) + Len(new)
        /\ \A i \in 1..Len(events) : (events \o new)[i] = events[i]
        /\ \A i \in 1..Len(new) : (events \o new)[Len(events) + i] = new[i]
    BY <1>3
  <2>2. Accepted(events) \cup {r} \subseteq Accepted(events \o new)
    <3>1. Accepted(events) \subseteq Accepted(events \o new)
      BY <2>1, <1>3 DEF Accepted
    <3>2. r \in Accepted(events \o new)
      <4>1. Len(events) + 1 \in DOMAIN (events \o new) /\ (events \o new)[Len(events) + 1] = new[1]
        BY <2>1, <1>3, <1>5, <1>7
      <4> QED
        BY <4>1, <1>3, <1>4, <1>5 DEF Accepted
    <3> QED
      BY <3>1, <3>2
  <2>3. ASSUME NEW i \in DOMAIN (events \o new)
        PROVE  (events \o new)[i].by \in Accepted(events) \cup {r}
    <3>1. CASE i \in 1..Len(events)
      BY <3>1, <2>1 DEF Accepted
    <3>2. CASE i \notin 1..Len(events)
      <4>1. i - Len(events) \in 1..Len(new) /\ (events \o new)[i] = new[i - Len(events)]
        BY <3>2, <2>1, <1>3, <1>7
      <4> QED
        BY <4>1, <1>3, <1>4
    <3> QED
      BY <3>1, <3>2
  <2>4. Accepted(events \o new) \subseteq Accepted(events) \cup {r}
    BY <2>3 DEF Accepted
  <2> QED
    BY <2>2, <2>4
<1> QED
  BY <1>6, <1>7, <1>8

LEMMA ReplayedType ==
  ASSUME NEW events \in Seq(Events)
  PROVE  Replayed(events) \in [Streams -> SUBSET Events]
  BY DEF Replayed

-----------------------------------------------------------------------------
(* Types.                                                                  *)

\* A call holds a request the schema accepted, and an answer once it is decided.
RequestsOK ==
  \A c \in Clients :
    /\ call[c].step \notin {"idle", "rebuilding", "rebuilt"} => call[c].request \in Valid
    /\ call[c].step = "decided" => call[c].answer # "none"

TypeInv == TypeOK /\ RequestsOK

LEMMA DatabaseParts ==
  ASSUME NEW d \in Databases
  PROVE  /\ d.events \in Seq(Events)
         /\ d.receipts \in [Keys -> Receipts]
         /\ d.projection \in [Streams -> SUBSET Events]
  BY DEF Databases, Receipts

LEMMA RecordUpdates ==
  ASSUME NEW A, NEW B, NEW C, NEW d \in [events : A, receipts : B, projection : C],
         NEW a \in A, NEW b \in B, NEW p \in C
  PROVE  /\ [d EXCEPT !.events = a] \in [events : A, receipts : B, projection : C]
         /\ [d EXCEPT !.events = a].events = a
         /\ [d EXCEPT !.events = a].receipts = d.receipts
         /\ [d EXCEPT !.receipts = b] \in [events : A, receipts : B, projection : C]
         /\ [d EXCEPT !.receipts = b].events = d.events
         /\ [d EXCEPT !.receipts = b].receipts = b
         /\ [d EXCEPT !.receipts = b].projection = d.projection
         /\ [d EXCEPT !.projection = p] \in [events : A, receipts : B, projection : C]
         /\ [d EXCEPT !.projection = p].events = d.events
         /\ [d EXCEPT !.projection = p].receipts = d.receipts
         /\ [d EXCEPT !.projection = p].projection = p
  OBVIOUS

LEMMA DatabaseShape ==
  Databases = [events : Seq(Events), receipts : [Keys -> Receipts],
               projection : [Streams -> SUBSET Events]]
  BY DEF Databases, Receipts

LEMMA EventsUpdate ==
  ASSUME NEW d \in Databases, NEW es \in Seq(Events)
  PROVE  /\ [d EXCEPT !.events = es] \in Databases
         /\ [d EXCEPT !.events = es].events = es
         /\ [d EXCEPT !.events = es].receipts = d.receipts
  BY DatabaseParts, DatabaseShape, RecordUpdates

LEMMA ProjectionUpdate ==
  ASSUME NEW d \in Databases, NEW p \in [Streams -> SUBSET Events]
  PROVE  /\ [d EXCEPT !.projection = p] \in Databases
         /\ [d EXCEPT !.projection = p].events = d.events
         /\ [d EXCEPT !.projection = p].receipts = d.receipts
         /\ [d EXCEPT !.projection = p].projection = p
  BY DatabaseParts, DatabaseShape, RecordUpdates

LEMMA ReceiptUpdate ==
  ASSUME NEW d \in Databases, NEW k \in Keys, NEW x \in Receipts
  PROVE  /\ [d EXCEPT !.receipts[k] = x] \in Databases
         /\ [d EXCEPT !.receipts[k] = x].events = d.events
         /\ [d EXCEPT !.receipts[k] = x].receipts = [d.receipts EXCEPT ![k] = x]
         /\ [d EXCEPT !.receipts[k] = x].projection = d.projection
<1>1. [d.receipts EXCEPT ![k] = x] \in [Keys -> Receipts]
  BY DatabaseParts
<1>2. [d EXCEPT !.receipts[k] = x] = [d EXCEPT !.receipts = [d.receipts EXCEPT ![k] = x]]
  OBVIOUS
<1> QED
  BY <1>1, <1>2, DatabaseParts, DatabaseShape, RecordUpdates

LEMMA EmptyType == Empty \in Databases
  BY DEF Empty, Databases, Events

LEMMA CallSteps ==
  ASSUME TypeOK, NEW c \in Clients, NEW step \in Steps, Goes(c, step)
  PROVE  /\ call' \in [Clients ->
              [step : Steps, request : Requests \cup {Nobody},
               answer : {"none", "accepted", "rejected", "conflict"}]]
         /\ call'[c].step = step /\ call'[c].request = call[c].request
         /\ call'[c].answer = call[c].answer
         /\ \A d \in Clients \ {c} : call'[d] = call[d]
  BY DEF TypeOK, Goes

LEMMA CallReturns ==
  ASSUME TypeOK, NEW c \in Clients, Returns(c)
  PROVE  /\ call' \in [Clients ->
              [step : Steps, request : Requests \cup {Nobody},
               answer : {"none", "accepted", "rejected", "conflict"}]]
         /\ call'[c].step = "idle"
         /\ \A d \in Clients \ {c} : call'[d] = call[d]
  BY DEF TypeOK, Returns, NotCalling, Steps

LEMMA CallDecides ==
  ASSUME TypeOK, NEW c \in Clients, NEW a \in {"accepted", "rejected", "conflict"}, Decides(c, a)
  PROVE  /\ call' \in [Clients ->
              [step : Steps, request : Requests \cup {Nobody},
               answer : {"none", "accepted", "rejected", "conflict"}]]
         /\ call'[c].step = "decided" /\ call'[c].request = call[c].request
         /\ call'[c].answer = a
         /\ \A d \in Clients \ {c} : call'[d] = call[d]
  BY DEF TypeOK, Decides, Steps

LEMMA UnlocksType ==
  ASSUME TypeOK, NEW c \in Clients, Unlocks(c)
  PROVE  db' \in Databases /\ draft' \in Databases /\ lock' \in Clients \cup {Nobody}
  BY EmptyType DEF TypeOK, Unlocks

LEMMA TypeInvInit == Init => TypeInv
<1> SUFFICES ASSUME Init PROVE TypeInv
  OBVIOUS
<1>1. TypeOK
  BY EmptyType DEF Init, TypeOK, NotCalling, Steps
<1>2. RequestsOK
  BY DEF Init, RequestsOK, NotCalling
<1> QED
  BY <1>1, <1>2 DEF TypeInv

LEMMA StepType ==
  ASSUME TypeInv, NEW c \in Clients, Step(c) \/ BeginRebuild(c) \/ Fail(c) \/ Die(c)
  PROVE  TypeInv'
<1> USE DEF TypeInv
<1> DEFINE r == call[c].request
<1>1. Valid \subseteq Requests /\ KeyOf \in [Requests -> Keys]
  BY CommandLogAssumption
<1>2. db \in Databases /\ draft \in Databases
  BY DEF TypeOK
<1>3. CASE Begin(c)
  <2>1. Goes(c, "begun") /\ At(c, "called")
    BY <1>3 DEF Begin
  <2>2. TypeOK'
    BY <1>2, <1>3, <2>1, CallSteps DEF TypeOK, Begin, Locks, Steps
  <2>3. RequestsOK'
    BY <2>1, CallSteps DEF RequestsOK, At, Steps
  <2> QED
    BY <2>2, <2>3
<1>4. CASE Busy(c)
  <2>1. TypeOK'
    BY <1>4, CallReturns DEF TypeOK, Busy
  <2>2. RequestsOK'
    BY <1>4, CallReturns DEF RequestsOK, Busy
  <2> QED
    BY <2>1, <2>2
<1>5. CASE Replay(c)
  <2>1. At(c, "begun") /\ r \in Valid /\ Unlocks(c) /\ UNCHANGED <<answers, view>>
    BY <1>5 DEF Replay, RequestsOK, At
  <2>2. draft.receipts[KeyOf[r]] \in Receipts /\ draft.receipts[KeyOf[r]] # NoReceipt
    BY <1>1, <1>2, <1>5, <2>1, DatabaseParts DEF Replay
  <2>3. PICK a \in {"accepted", "rejected", "conflict"} : Decides(c, a)
    BY <1>5, <2>2, ReceiptCases DEF Replay
  <2>4. TypeOK'
    BY <2>1, <2>3, CallDecides, UnlocksType DEF TypeOK
  <2>5. RequestsOK'
    BY <2>1, <2>3, CallDecides DEF RequestsOK
  <2> QED
    BY <2>4, <2>5
<1>6. CASE Reject(c)
  <2>1. At(c, "begun") /\ r \in Valid /\ Decides(c, "rejected") /\ UNCHANGED <<answers, view>>
    BY <1>6 DEF Reject, RequestsOK, At
  <2>2. db' \in Databases /\ draft' \in Databases /\ lock' \in Clients \cup {Nobody}
    BY <1>1, <1>2, <1>6, <2>1, ReceiptUpdate, ReceiptsDiffer, EmptyType DEF Reject, Publishes
  <2>3. TypeOK'
    BY <2>1, <2>2, CallDecides DEF TypeOK
  <2>4. RequestsOK'
    BY <2>1, CallDecides DEF RequestsOK
  <2> QED
    BY <2>3, <2>4
<1>7. CASE AppendEvents(c)
  <2>1. At(c, "begun") /\ r \in Valid /\ Goes(c, "appended") /\ UNCHANGED <<db, lock, answers, view>>
    BY <1>7 DEF AppendEvents, RequestsOK, At
  <2>2. draft' \in Databases
    BY <1>1, <1>2, <1>7, <2>1, AppendedType, DatabaseParts, EventsUpdate DEF AppendEvents
  <2>3. TypeOK'
    BY <2>1, <2>2, CallSteps DEF TypeOK, Steps
  <2>4. RequestsOK'
    BY <2>1, CallSteps DEF RequestsOK, Steps
  <2> QED
    BY <2>3, <2>4
<1>8. CASE Project(c)
  <2>1. At(c, "appended") /\ r \in Valid /\ Goes(c, "projected") /\ UNCHANGED <<db, lock, answers, view>>
    BY <1>8 DEF Project, RequestsOK, At
  <2>2. draft' \in Databases
    BY <1>2, <1>8, ReplayedType, DatabaseParts, ProjectionUpdate DEF Project
  <2>3. TypeOK'
    BY <2>1, <2>2, CallSteps DEF TypeOK, Steps
  <2>4. RequestsOK'
    BY <2>1, CallSteps DEF RequestsOK, Steps
  <2> QED
    BY <2>3, <2>4
<1>9. CASE StoreReceipt(c)
  <2>1. At(c, "projected") /\ r \in Valid /\ Goes(c, "recorded") /\ UNCHANGED <<db, lock, answers, view>>
    BY <1>9 DEF StoreReceipt, RequestsOK, At
  <2>2. draft' \in Databases
    BY <1>1, <1>2, <1>9, <2>1, ReceiptUpdate, ReceiptsDiffer DEF StoreReceipt
  <2>3. TypeOK'
    BY <2>1, <2>2, CallSteps DEF TypeOK, Steps
  <2>4. RequestsOK'
    BY <2>1, CallSteps DEF RequestsOK, Steps
  <2> QED
    BY <2>3, <2>4
<1>10. CASE Commit(c)
  <2>1. At(c, "recorded") /\ r \in Valid /\ Decides(c, "accepted") /\ UNCHANGED <<answers, view>>
    BY <1>10 DEF Commit, RequestsOK, At
  <2>2. TypeOK'
    BY <1>2, <1>10, <2>1, CallDecides, EmptyType DEF TypeOK, Commit, Publishes
  <2>3. RequestsOK'
    BY <2>1, CallDecides DEF RequestsOK
  <2> QED
    BY <2>2, <2>3
<1>11. CASE Answer(c)
  <2>1. Returns(c) /\ UNCHANGED <<db, lock, draft, view>>
    BY <1>11 DEF Answer
  <2>2. r \in Requests /\ call[c].answer \in {"none", "accepted", "rejected", "conflict"}
    BY <1>1, <1>11 DEF Answer, At, RequestsOK, TypeOK
  <2>3. call[c].answer # "none"
    BY <1>11 DEF Answer, At, RequestsOK
  <2>4. TypeOK'
    BY <1>11, <2>1, <2>2, <2>3, CallReturns DEF TypeOK, Answer
  <2>5. RequestsOK'
    BY <2>1, CallReturns DEF RequestsOK
  <2> QED
    BY <2>4, <2>5
<1>12. CASE Rebuild(c)
  <2>1. Goes(c, "rebuilt") /\ UNCHANGED <<db, lock, answers, view>>
    BY <1>12 DEF Rebuild
  <2>2. draft' \in Databases
    BY <1>2, <1>12, ReplayedType, DatabaseParts, ProjectionUpdate DEF Rebuild
  <2>3. TypeOK'
    BY <2>1, <2>2, CallSteps DEF TypeOK, Steps
  <2>4. RequestsOK'
    BY <2>1, CallSteps DEF RequestsOK, Steps
  <2> QED
    BY <2>3, <2>4
<1>13. CASE CommitRebuild(c)
  <2>1. Returns(c) /\ UNCHANGED <<answers, view>>
    BY <1>13 DEF CommitRebuild
  <2>2. TypeOK'
    BY <1>2, <1>13, <2>1, CallReturns, EmptyType DEF TypeOK, CommitRebuild, Publishes
  <2>3. RequestsOK'
    BY <2>1, CallReturns DEF RequestsOK
  <2> QED
    BY <2>2, <2>3
<1>14. CASE BeginRebuild(c)
  <2>1. Goes(c, "rebuilding") /\ UNCHANGED <<db, answers, view>>
    BY <1>14 DEF BeginRebuild
  <2>2. TypeOK'
    BY <1>2, <1>14, <2>1, CallSteps DEF TypeOK, BeginRebuild, Locks, Steps
  <2>3. RequestsOK'
    BY <2>1, CallSteps DEF RequestsOK, Steps
  <2> QED
    BY <2>2, <2>3
<1>15. CASE Fail(c) \/ Die(c)
  <2>1. Returns(c) /\ Unlocks(c) /\ UNCHANGED <<answers, view>>
    BY <1>15 DEF Fail, Die
  <2>2. TypeOK'
    BY <2>1, CallReturns, UnlocksType DEF TypeOK
  <2>3. RequestsOK'
    BY <2>1, CallReturns DEF RequestsOK
  <2> QED
    BY <2>2, <2>3
<1> QED
  BY <1>3, <1>4, <1>5, <1>6, <1>7, <1>8, <1>9, <1>10, <1>11, <1>12, <1>13, <1>14, <1>15 DEF Step

LEMMA OutsideType ==
  ASSUME TypeInv,
         \/ \E c \in Clients, r \in Requests : Call(c, r)
         \/ \E r \in Requests : Refuse(r)
         \/ \E s \in Streams : Damage(s)
         \/ \E v \in Readers : ReadTable(v)
         \/ UNCHANGED vars
  PROVE  TypeInv'
<1> USE DEF TypeInv
<1>1. ASSUME NEW c \in Clients, NEW r \in Requests, Call(c, r) PROVE TypeInv'
  <2>1. TypeOK'
    BY <1>1 DEF TypeOK, Call, Steps
  <2>2. RequestsOK'
    BY <1>1 DEF TypeOK, RequestsOK, Call
  <2> QED
    BY <2>1, <2>2
<1>2. ASSUME NEW r \in Requests, Refuse(r) PROVE TypeInv'
  <2>1. TypeOK'
    BY <1>2 DEF TypeOK, Refuse
  <2>2. RequestsOK'
    BY <1>2 DEF RequestsOK, Refuse
  <2> QED
    BY <2>1, <2>2
<1>3. ASSUME NEW s \in Streams, Damage(s) PROVE TypeInv'
  <2>1. db \in Databases /\ [db.projection EXCEPT ![s] = {}] \in [Streams -> SUBSET Events]
    BY DatabaseParts DEF TypeOK
  <2>2. db' = [db EXCEPT !.projection = [db.projection EXCEPT ![s] = {}]]
    BY <1>3 DEF Damage
  <2>3. db' \in Databases
    BY <2>1, <2>2, ProjectionUpdate
  <2>4. TypeOK'
    BY <1>3, <2>3 DEF TypeOK, Damage
  <2>5. RequestsOK'
    BY <1>3 DEF RequestsOK, Damage
  <2> QED
    BY <2>4, <2>5
<1>4. ASSUME NEW v \in Readers, ReadTable(v) PROVE TypeInv'
  <2> DEFINE i == Len(view[v]) + 1
  <2>1. view[v] \in Seq(SUBSET Events) /\ i \in 1..Len(Tables)
    BY <1>4, CommandLogAssumption DEF TypeOK, ReadTable
  <2>2. Tables[i] \in Streams
    BY <2>1, CommandLogAssumption
  <2>3. db.projection[Tables[i]] \in SUBSET Events
    BY <2>2, DatabaseParts DEF TypeOK
  <2>4. Append(view[v], db.projection[Tables[i]]) \in Seq(SUBSET Events)
    BY <2>1, <2>3
  <2>5. TypeOK'
    BY <1>4, <2>4 DEF TypeOK, ReadTable
  <2>6. RequestsOK'
    BY <1>4 DEF RequestsOK, ReadTable
  <2> QED
    BY <2>5, <2>6
<1>5. CASE UNCHANGED vars
  BY <1>5 DEF TypeOK, RequestsOK, vars
<1> QED
  BY <1>1, <1>2, <1>3, <1>4, <1>5

LEMMA TypeInvStep == TypeInv /\ [Next]_vars => TypeInv'
  BY StepType, OutsideType DEF Next

\* The databases, committed and uncommitted, hold well-formed events, receipts
\* and tables, and every answer is one of the four that execute gives.
THEOREM TypeCorrect == Spec => []TypeOK
<1>1. TypeInv => TypeOK
  BY DEF TypeInv
<1> QED
  BY <1>1, TypeInvInit, TypeInvStep, PTL DEF Spec

-----------------------------------------------------------------------------
(* Answers.                                                                *)

\* Receipts and log tell the same of every request.
Consistent(d) ==
  /\ \A q \in Requests : q \in Accepted(d.events) <=> d.receipts[KeyOf[q]] = Receipt("accepted", q)
  /\ \A k \in Keys : d.receipts[k] # NoReceipt => d.receipts[k].by \in Valid

\* The events of r are appended and its receipt is not yet stored.
Pending(d, r) ==
  /\ d.receipts[KeyOf[r]] = NoReceipt
  /\ \A q \in Requests :
       q \in Accepted(d.events) <=> q = r \/ d.receipts[KeyOf[q]] = Receipt("accepted", q)
  /\ \A k \in Keys : d.receipts[k] # NoReceipt => d.receipts[k].by \in Valid

\* No receipt of d is lost or changed in e.
Continues(d, e) == \A k \in Keys : d.receipts[k] # NoReceipt => e.receipts[k] = d.receipts[k]

DraftOK(c) ==
  InTransaction(c) =>
    /\ lock = c
    /\ Continues(db, draft)
    /\ call[c].step = "begun" => draft = db
    /\ IF call[c].step \in {"appended", "projected"}
       THEN Pending(draft, call[c].request) ELSE Consistent(draft)
    /\ call[c].step = "recorded" => call[c].request \in Accepted(draft.events)

DecisionOK(c) ==
  call[c].step = "decided" => Kept(call[c].request, call[c].answer)

ToldOK ==
  \A told \in answers : Kept(told[1], told[2]) /\ (told[2] = "invalid" => told[1] \notin Valid)

AnswerInv ==
  /\ TypeInv
  /\ Consistent(db)
  /\ \A c \in Clients : DraftOK(c) /\ DecisionOK(c)
  /\ ToldOK

\* What is committed only grows in receipts, and stays consistent.
Grows == Consistent(db)' /\ Continues(db, db')

LEMMA KeptStays ==
  ASSUME Consistent(db), Grows, NEW q \in Requests,
         NEW a \in {"accepted", "rejected", "conflict", "invalid"},
         a = "invalid" => q \notin Valid, Kept(q, a)
  PROVE  Kept(q, a)'
<1>1. KeyOf[q] \in Keys
  BY CommandLogAssumption
<1> DEFINE old == db.receipts[KeyOf[q]]
           new == db'.receipts[KeyOf[q]]
<1>2. old # NoReceipt => new = old
  BY <1>1 DEF Grows, Continues
<1>3. /\ q \in Accepted(db.events) <=> old = Receipt("accepted", q)
      /\ q \in Accepted(db'.events) <=> new = Receipt("accepted", q)
      /\ new # NoReceipt => new.by \in Valid
  BY <1>1 DEF Consistent, Grows, Continues
<1>4. /\ Receipt("accepted", q) # NoReceipt /\ Receipt("rejected", q) # NoReceipt
      /\ Receipt("accepted", q) # Receipt("rejected", q) /\ Receipt("accepted", q).by = q
  BY ReceiptsDiffer
<1>5. CASE a = "accepted"
  BY <1>2, <1>3, <1>4, <1>5 DEF Kept
<1>6. CASE a = "rejected"
  BY <1>2, <1>3, <1>4, <1>6 DEF Kept
<1>7. CASE a = "conflict"
  BY <1>2, <1>7 DEF Kept
<1>8. CASE a = "invalid"
  BY <1>3, <1>4, <1>8 DEF Kept
<1> QED
  BY <1>5, <1>6, <1>7, <1>8

LEMMA ToldStays ==
  ASSUME AnswerInv, Grows, answers' = answers
  PROVE  ToldOK'
<1>1. ASSUME NEW told \in answers
      PROVE  Kept(told[1], told[2])' /\ (told[2] = "invalid" => told[1] \notin Valid)
  <2>1. told[1] \in Requests /\ told[2] \in {"accepted", "rejected", "conflict", "invalid"}
    BY DEF AnswerInv, TypeInv, TypeOK
  <2> QED
    BY <2>1, KeptStays DEF AnswerInv, ToldOK
<1> QED
  BY <1>1 DEF ToldOK

\* A step of another client, or of none, leaves a client's call as it should be.
LEMMA OthersStay ==
  ASSUME AnswerInv, NEW d \in Clients, call'[d] = call[d], Grows,
         lock # d \/ UNCHANGED <<db, lock, draft>>
  PROVE  DraftOK(d)' /\ DecisionOK(d)'
<1>1. DraftOK(d)'
  BY DEF AnswerInv, DraftOK, InTransaction, Continues, Consistent, Pending
<1>2. ASSUME call[d].step = "decided"
      PROVE  Kept(call[d].request, call[d].answer)'
  <2>1. /\ call[d].request \in Requests
        /\ call[d].answer \in {"accepted", "rejected", "conflict"}
    BY <1>2, CommandLogAssumption DEF AnswerInv, TypeInv, TypeOK, RequestsOK
  <2> QED
    BY <1>2, <2>1, KeptStays DEF AnswerInv, DecisionOK
<1> QED
  BY <1>1, <1>2 DEF DecisionOK

\* A step that publishes nothing keeps all but the client's own part.
LEMMA Unpublished ==
  ASSUME AnswerInv, TypeInv', NEW c \in Clients, db' = db, answers' = answers,
         \A d \in Clients \ {c} : call'[d] = call[d],
         lock \in {c, Nobody} \/ UNCHANGED <<lock, draft>>,
         DraftOK(c)', DecisionOK(c)'
  PROVE  AnswerInv'
<1>1. Grows
  BY DEF AnswerInv, Grows, Continues, Consistent
<1>2. ASSUME NEW d \in Clients \ {c}
      PROVE  DraftOK(d)' /\ DecisionOK(d)'
  <2>1. d # Nobody
    BY CommandLogAssumption
  <2> QED
    BY <1>1, <2>1, OthersStay
<1>3. ToldOK'
  BY <1>1, ToldStays
<1> QED
  BY <1>1, <1>2, <1>3 DEF AnswerInv, Grows, Continues

\* So does a commit.
LEMMA Published ==
  ASSUME AnswerInv, TypeInv', NEW c \in Clients, lock = c, answers' = answers, Grows,
         \A d \in Clients \ {c} : call'[d] = call[d],
         DraftOK(c)', DecisionOK(c)'
  PROVE  AnswerInv'
<1>1. ASSUME NEW d \in Clients \ {c}
      PROVE  DraftOK(d)' /\ DecisionOK(d)'
  BY OthersStay
<1>2. ToldOK'
  BY ToldStays
<1> QED
  BY <1>1, <1>2 DEF AnswerInv, Grows, Continues

LEMMA AnswerInvInit == Init => AnswerInv
<1> SUFFICES ASSUME Init PROVE AnswerInv
  OBVIOUS
<1>1. db = Empty /\ call = [c \in Clients |-> NotCalling] /\ answers = {}
  BY DEF Init
<1>2. Accepted(db.events) = {}
  BY <1>1 DEF Empty, Accepted
<1>3. \A k \in Keys : db.receipts[k] = NoReceipt
  BY <1>1 DEF Empty
<1>4. Consistent(db)
  BY <1>2, <1>3, CommandLogAssumption, ReceiptsDiffer DEF Consistent
<1>5. \A c \in Clients : DraftOK(c) /\ DecisionOK(c)
  BY <1>1 DEF DraftOK, DecisionOK, InTransaction, NotCalling
<1>6. ToldOK
  BY <1>1 DEF ToldOK
<1> QED
  BY <1>4, <1>5, <1>6, TypeInvInit DEF AnswerInv

LEMMA AnswerStep ==
  ASSUME AnswerInv, TypeInv', NEW c \in Clients, Step(c) \/ BeginRebuild(c) \/ Fail(c) \/ Die(c)
  PROVE  AnswerInv'
<1> DEFINE r == call[c].request
<1>1. TypeOK /\ RequestsOK /\ Consistent(db) /\ DraftOK(c) /\ DecisionOK(c)
  BY DEF AnswerInv, TypeInv
<1>2. db \in Databases /\ draft \in Databases
  BY <1>1 DEF TypeOK
<1>3. Valid \subseteq Requests /\ KeyOf \in [Requests -> Keys]
  BY CommandLogAssumption
<1>4. CASE Begin(c) \/ BeginRebuild(c)
  <2>1. PICK step \in {"begun", "rebuilding"} : Goes(c, step)
    BY <1>4 DEF Begin, BeginRebuild
  <2>2. lock = Nobody /\ lock' = c /\ draft' = db /\ db' = db /\ answers' = answers
    BY <1>4 DEF Begin, BeginRebuild, Locks
  <2>3. DraftOK(c)' /\ DecisionOK(c)'
    BY <1>1, <2>1, <2>2, CallSteps DEF DraftOK, DecisionOK, Continues, Steps, Consistent
  <2> QED
    BY <1>1, <2>1, <2>2, <2>3, CallSteps, Unpublished DEF Steps
<1>5. CASE Busy(c)
  <2>1. DraftOK(c)' /\ DecisionOK(c)'
    BY <1>1, <1>5, CallReturns DEF Busy, DraftOK, DecisionOK, InTransaction
  <2> QED
    BY <1>1, <1>5, <2>1, CallReturns, Unpublished DEF Busy
<1>6. CASE Replay(c)
  <2> DEFINE stored == draft.receipts[KeyOf[r]]
  <2>1. /\ At(c, "begun") /\ r \in Valid /\ Unlocks(c) /\ UNCHANGED <<answers, view>>
        /\ Decides(c, IF stored.by = r THEN stored.status ELSE "conflict")
        /\ stored # NoReceipt
    BY <1>1, <1>6 DEF Replay, RequestsOK, At
  <2>2. lock = c /\ draft = db
    BY <1>1, <2>1 DEF DraftOK, InTransaction, At
  <2>3. db' = db /\ lock' = Nobody
    BY <2>1, <2>2 DEF Unlocks
  <2>4. stored \in Receipts /\ stored.status \in {"accepted", "rejected"}
        /\ stored = Receipt(stored.status, stored.by)
    BY <1>2, <1>3, <2>1, DatabaseParts, ReceiptCases
  <2>5. PICK a \in {"accepted", "rejected", "conflict"} :
           Decides(c, a) /\ a = (IF stored.by = r THEN stored.status ELSE "conflict")
    BY <2>1, <2>4
  <2>6. Kept(r, a)
    <3>1. CASE stored.by # r
      BY <2>1, <2>2, <2>5, <3>1 DEF Kept
    <3>2. CASE stored.by = r /\ a = "accepted"
      BY <1>1, <1>3, <2>1, <2>2, <2>4, <2>5, <3>2 DEF Kept, Consistent
    <3>3. CASE stored.by = r /\ a = "rejected"
      <4>1. Receipt("rejected", r) # Receipt("accepted", r)
        BY <1>3, <2>1, ReceiptsDiffer
      <4> QED
        BY <1>1, <1>3, <2>1, <2>2, <2>4, <2>5, <3>3, <4>1 DEF Kept, Consistent
    <3> QED
      BY <2>4, <2>5, <3>1, <3>2, <3>3
  <2>7. Kept(r, a)'
    BY <1>1, <2>3, <2>5, <2>6, CallDecides DEF Kept
  <2>8. DraftOK(c)' /\ DecisionOK(c)'
    BY <1>1, <2>5, <2>7, CallDecides DEF DraftOK, DecisionOK, InTransaction
  <2> QED
    BY <1>1, <2>1, <2>2, <2>3, <2>5, <2>8, CallDecides, Unpublished
<1>7. CASE Reject(c)
  <2> DEFINE k == KeyOf[r]
             x == Receipt("rejected", r)
  <2>1. At(c, "begun") /\ r \in Valid /\ r \in Requests /\ k \in Keys
    BY <1>1, <1>3, <1>7 DEF Reject, RequestsOK, At
  <2>2. lock = c /\ draft = db
    BY <1>1, <2>1 DEF DraftOK, InTransaction, At
  <2>3. /\ db.receipts[k] = NoReceipt /\ answers' = answers /\ lock' = Nobody
        /\ db' = [db EXCEPT !.receipts[k] = x] /\ Decides(c, "rejected")
    BY <1>7, <2>2 DEF Reject, Publishes
  <2>4. /\ x \in Receipts /\ x # NoReceipt /\ x.by = r
        /\ \A q \in Requests : x # Receipt("accepted", q) /\ NoReceipt # Receipt("accepted", q)
    BY <2>1, ReceiptsDiffer
  <2>5. /\ db'.events = db.events /\ db'.receipts = [db.receipts EXCEPT ![k] = x]
        /\ db.receipts \in [Keys -> Receipts]
    BY <1>2, <2>1, <2>3, <2>4, ReceiptUpdate, DatabaseParts
  <2>6. Grows
    BY <1>1, <1>3, <2>1, <2>3, <2>4, <2>5 DEF Grows, Continues, Consistent
  <2>7. Kept(r, "rejected")'
    BY <1>1, <2>1, <2>3, <2>4, <2>5, CallDecides DEF Kept, Consistent
  <2>8. DraftOK(c)' /\ DecisionOK(c)'
    BY <1>1, <2>3, <2>7, CallDecides DEF DraftOK, DecisionOK, InTransaction
  <2> QED
    BY <1>1, <2>2, <2>3, <2>6, <2>8, CallDecides, Published
<1>8. CASE AppendEvents(c)
  <2>1. At(c, "begun") /\ r \in Valid /\ r \in Requests
    BY <1>1, <1>3, <1>8 DEF AppendEvents, RequestsOK, At
  <2>2. lock = c /\ draft = db /\ Goes(c, "appended")
    BY <1>1, <1>8, <2>1 DEF DraftOK, InTransaction, At, AppendEvents
  <2>3. /\ UNCHANGED <<db, lock, answers>> /\ db.receipts[KeyOf[r]] = NoReceipt
        /\ draft' = [db EXCEPT !.events = Appended(db.events, r)]
    BY <1>8, <2>2 DEF AppendEvents
  <2>4. /\ draft'.receipts = db.receipts
        /\ Accepted(draft'.events) = Accepted(db.events) \cup {r}
    BY <1>2, <2>1, <2>3, AppendedType, DatabaseParts, EventsUpdate
  <2>5. Pending(draft', r) /\ Continues(db, draft')
    BY <1>1, <2>3, <2>4 DEF Pending, Consistent, Continues
  <2>6. DraftOK(c)' /\ DecisionOK(c)'
    BY <1>1, <2>2, <2>3, <2>5, CallSteps DEF DraftOK, DecisionOK, Steps, Continues, Pending
  <2> QED
    BY <1>1, <2>2, <2>3, <2>6, CallSteps, Unpublished DEF Steps
<1>9. CASE Project(c)
  <2>1. At(c, "appended") /\ Goes(c, "projected") /\ UNCHANGED <<db, lock, answers>>
    BY <1>9 DEF Project
  <2>2. lock = c /\ Pending(draft, r) /\ Continues(db, draft)
    BY <1>1, <2>1 DEF DraftOK, InTransaction, At
  <2>3. draft'.events = draft.events /\ draft'.receipts = draft.receipts
    BY <1>2, <1>9, ReplayedType, DatabaseParts, ProjectionUpdate DEF Project
  <2>4. DraftOK(c)' /\ DecisionOK(c)'
    BY <1>1, <2>1, <2>2, <2>3, CallSteps DEF DraftOK, DecisionOK, Steps, Continues, Pending
  <2> QED
    BY <1>1, <2>1, <2>2, <2>4, CallSteps, Unpublished DEF Steps
<1>10. CASE StoreReceipt(c)
  <2> DEFINE k == KeyOf[r]
             x == Receipt("accepted", r)
  <2>1. /\ At(c, "projected") /\ r \in Valid /\ r \in Requests /\ k \in Keys
        /\ Goes(c, "recorded") /\ UNCHANGED <<db, lock, answers>>
    BY <1>1, <1>3, <1>10 DEF StoreReceipt, RequestsOK, At
  <2>2. lock = c /\ Pending(draft, r) /\ Continues(db, draft)
    BY <1>1, <2>1 DEF DraftOK, InTransaction, At
  <2>3. /\ x \in Receipts /\ x # NoReceipt /\ x.by = r
        /\ \A q \in Requests : NoReceipt # Receipt("accepted", q) /\ (x = Receipt("accepted", q) <=> q = r)
    BY <2>1, ReceiptsDiffer
  <2>4. /\ draft'.events = draft.events /\ draft'.receipts = [draft.receipts EXCEPT ![k] = x]
        /\ draft.receipts \in [Keys -> Receipts]
    BY <1>2, <1>10, <2>1, <2>3, ReceiptUpdate, DatabaseParts DEF StoreReceipt
  <2>5. Consistent(draft')
    BY <1>3, <2>1, <2>2, <2>3, <2>4 DEF Consistent, Pending
  <2>6. Continues(db, draft') /\ r \in Accepted(draft'.events)
    BY <2>1, <2>2, <2>4 DEF Continues, Pending
  <2>7. DraftOK(c)' /\ DecisionOK(c)'
    BY <1>1, <2>1, <2>2, <2>5, <2>6, CallSteps DEF DraftOK, DecisionOK, Steps, Continues, Consistent
  <2> QED
    BY <1>1, <2>1, <2>2, <2>7, CallSteps, Unpublished DEF Steps
<1>11. CASE Commit(c)
  <2>1. At(c, "recorded") /\ Decides(c, "accepted") /\ db' = draft /\ lock' = Nobody /\ answers' = answers
    BY <1>11 DEF Commit, Publishes
  <2>2. lock = c /\ Consistent(draft) /\ Continues(db, draft) /\ r \in Accepted(draft.events)
    BY <1>1, <2>1 DEF DraftOK, InTransaction, At
  <2>3. Grows /\ Kept(r, "accepted")'
    BY <1>1, <2>1, <2>2, CallDecides DEF Grows, Consistent, Continues, Kept
  <2>4. DraftOK(c)' /\ DecisionOK(c)'
    BY <1>1, <2>1, <2>3, CallDecides DEF DraftOK, DecisionOK, InTransaction
  <2> QED
    BY <1>1, <2>1, <2>2, <2>3, <2>4, CallDecides, Published
<1>12. CASE Answer(c)
  <2>1. At(c, "decided") /\ Returns(c) /\ UNCHANGED <<db, lock, draft>>
    BY <1>12 DEF Answer
  <2>2. answers' = answers \cup {<<r, call[c].answer>>}
    BY <1>12 DEF Answer
  <2>3. r \in Requests /\ call[c].answer \in {"accepted", "rejected", "conflict"} /\ Kept(r, call[c].answer)
    BY <1>1, <1>3, <2>1 DEF At, TypeOK, RequestsOK, DecisionOK
  <2>4. Grows
    BY <1>1, <2>1 DEF Grows, Continues, Consistent
  <2>5. ToldOK'
    <3>1. ToldOK
      BY DEF AnswerInv
    <3>2. \A q, a : Kept(q, a)' = Kept(q, a)
      BY <2>1 DEF Kept
    <3> QED
      BY <2>2, <2>3, <3>1, <3>2 DEF ToldOK
  <2>6. DraftOK(c)' /\ DecisionOK(c)'
    BY <1>1, <2>1, CallReturns DEF DraftOK, DecisionOK, InTransaction
  <2>7. ASSUME NEW d \in Clients \ {c}
        PROVE  DraftOK(d)' /\ DecisionOK(d)'
    BY <1>1, <2>1, <2>4, CallReturns, OthersStay
  <2> QED
    BY <2>4, <2>5, <2>6, <2>7 DEF AnswerInv, Grows, Continues
<1>13. CASE Rebuild(c)
  <2>1. At(c, "rebuilding") /\ Goes(c, "rebuilt") /\ UNCHANGED <<db, lock, answers>>
    BY <1>13 DEF Rebuild
  <2>2. lock = c /\ Consistent(draft) /\ Continues(db, draft)
    BY <1>1, <2>1 DEF DraftOK, InTransaction, At
  <2>3. draft'.events = draft.events /\ draft'.receipts = draft.receipts
    BY <1>2, <1>13, ReplayedType, DatabaseParts, ProjectionUpdate DEF Rebuild
  <2>4. DraftOK(c)' /\ DecisionOK(c)'
    BY <1>1, <2>1, <2>2, <2>3, CallSteps DEF DraftOK, DecisionOK, Steps, Continues, Consistent
  <2> QED
    BY <1>1, <2>1, <2>2, <2>4, CallSteps, Unpublished DEF Steps
<1>14. CASE CommitRebuild(c)
  <2>1. At(c, "rebuilt") /\ Returns(c) /\ db' = draft /\ answers' = answers
    BY <1>14 DEF CommitRebuild, Publishes
  <2>2. lock = c /\ Consistent(draft) /\ Continues(db, draft)
    BY <1>1, <2>1 DEF DraftOK, InTransaction, At
  <2>3. Grows
    BY <2>1, <2>2 DEF Grows, Consistent, Continues
  <2>4. DraftOK(c)' /\ DecisionOK(c)'
    BY <1>1, <2>1, CallReturns DEF DraftOK, DecisionOK, InTransaction
  <2> QED
    BY <1>1, <2>1, <2>2, <2>3, <2>4, CallReturns, Published
<1>15. CASE Fail(c) \/ Die(c)
  <2>1. Unlocks(c) /\ Returns(c) /\ answers' = answers
    BY <1>15 DEF Fail, Die
  <2>2. db' = db /\ (lock = c \/ UNCHANGED <<lock, draft>>)
    BY <2>1 DEF Unlocks
  <2>3. DraftOK(c)' /\ DecisionOK(c)'
    BY <1>1, <2>1, CallReturns DEF DraftOK, DecisionOK, InTransaction
  <2> QED
    BY <1>1, <2>1, <2>2, <2>3, CallReturns, Unpublished
<1> QED
  BY <1>4, <1>5, <1>6, <1>7, <1>8, <1>9, <1>10, <1>11, <1>12, <1>13, <1>14, <1>15 DEF Step

LEMMA OutsideAnswers ==
  ASSUME AnswerInv, TypeInv',
         \/ \E c \in Clients, q \in Requests : Call(c, q)
         \/ \E q \in Requests : Refuse(q)
         \/ \E s \in Streams : Damage(s)
         \/ \E v \in Readers : ReadTable(v)
         \/ UNCHANGED vars
  PROVE  AnswerInv'
<1>1. TypeOK /\ RequestsOK /\ Consistent(db)
  BY DEF AnswerInv, TypeInv
<1>2. ASSUME NEW c \in Clients, NEW q \in Requests, Call(c, q) PROVE AnswerInv'
  <2>1. /\ UNCHANGED <<db, lock, draft, answers>>
        /\ call'[c].step = "called" /\ \A d \in Clients \ {c} : call'[d] = call[d]
    BY <1>1, <1>2 DEF Call, TypeOK
  <2>2. DraftOK(c)' /\ DecisionOK(c)'
    BY <2>1 DEF DraftOK, DecisionOK, InTransaction
  <2> QED
    BY <2>1, <2>2, Unpublished
<1>3. ASSUME NEW q \in Requests, Refuse(q) PROVE AnswerInv'
  <2>1. /\ UNCHANGED <<db, lock, draft, call>> /\ q \notin Valid
        /\ answers' = answers \cup {<<q, "invalid">>}
    BY <1>3 DEF Refuse
  <2>2. q \notin Accepted(db.events)
    <3>1. KeyOf[q] \in Keys /\ Receipt("accepted", q) # NoReceipt /\ Receipt("accepted", q).by = q
      BY CommandLogAssumption, ReceiptsDiffer
    <3> QED
      BY <1>1, <2>1, <3>1 DEF Consistent
  <2>3. \A p, a : Kept(p, a)' = Kept(p, a)
    BY <2>1 DEF Kept
  <2>4. Kept(q, "invalid")
    BY <2>2 DEF Kept
  <2>5. ToldOK'
    BY <2>1, <2>3, <2>4 DEF AnswerInv, ToldOK
  <2>6. Grows
    BY <1>1, <2>1 DEF Grows, Continues, Consistent
  <2>7. \A d \in Clients : DraftOK(d)' /\ DecisionOK(d)'
    BY <2>1, <2>6, OthersStay
  <2> QED
    BY <2>5, <2>6, <2>7 DEF AnswerInv, Grows, Continues
<1>4. ASSUME NEW s \in Streams, Damage(s) PROVE AnswerInv'
  <2>1. lock = Nobody /\ UNCHANGED <<lock, draft, call, answers>>
    BY <1>4 DEF Damage
  <2>2. db'.events = db.events /\ db'.receipts = db.receipts
    BY <1>1, <1>4 DEF Damage, TypeOK, Databases
  <2>3. Grows
    BY <1>1, <2>2 DEF Grows, Continues, Consistent
  <2>4. Nobody \notin Clients
    BY CommandLogAssumption
  <2>5. \A d \in Clients : DraftOK(d)' /\ DecisionOK(d)'
    BY <2>1, <2>3, <2>4, OthersStay
  <2> QED
    BY <2>1, <2>3, <2>5, ToldStays DEF AnswerInv, Grows, Continues
<1>5. CASE UNCHANGED <<db, lock, draft, call, answers>>
  <2>1. Grows
    BY <1>1, <1>5 DEF Grows, Continues, Consistent
  <2>2. \A d \in Clients : DraftOK(d)' /\ DecisionOK(d)'
    BY <1>5, <2>1, OthersStay
  <2> QED
    BY <1>5, <2>1, <2>2, ToldStays DEF AnswerInv, Grows, Continues
<1> QED
  BY <1>2, <1>3, <1>4, <1>5 DEF ReadTable, vars

LEMMA AnswerInvStep == AnswerInv /\ [Next]_vars => AnswerInv'
<1> SUFFICES ASSUME AnswerInv, [Next]_vars PROVE AnswerInv'
  OBVIOUS
<1>1. TypeInv'
  BY TypeInvStep DEF AnswerInv
<1> QED
  BY <1>1, AnswerStep, OutsideAnswers DEF Next

\* Whatever clients, failures and crashes do, an accepted request is in the
\* committed log for good, a rejected or invalid one never gets there, and a key
\* that was answered as taken belongs to another request.
THEOREM AnswersKept == Spec => []AnswersAreKept
<1>1. AnswerInv => AnswersAreKept
  BY DEF AnswerInv, ToldOK, AnswersAreKept
<1> QED
  BY <1>1, AnswerInvInit, AnswerInvStep, PTL DEF Spec

\* The committed receipts and the committed log never disagree about a request:
\* the log has its events exactly when its key has its accepting receipt.
THEOREM ReceiptsMatchLog ==
  Spec => [](\A q \in Requests :
               q \in Accepted(db.events) <=> db.receipts[KeyOf[q]] = Receipt("accepted", q))
<1>1. AnswerInv => \A q \in Requests :
        q \in Accepted(db.events) <=> db.receipts[KeyOf[q]] = Receipt("accepted", q)
  BY DEF AnswerInv, Consistent
<1> QED
  BY <1>1, AnswerInvInit, AnswerInvStep, PTL DEF Spec

-----------------------------------------------------------------------------
(* Repair.                                                                 *)

\* Once written, the tables of the open transaction are what its log replays to.
RepairInv ==
  /\ AnswerInv
  /\ \A c \in Clients :
       call[c].step \in {"projected", "recorded", "rebuilt"} => draft.projection = Replayed(draft.events)

Repairs ==
  \/ \E s \in Streams : Damage(s)
  \/ db'.projection = Replayed(db'.events)
  \/ db'.events = db.events /\ db'.projection = db.projection

LEMMA RepairInvStep == RepairInv /\ [Next]_vars => RepairInv'
<1> SUFFICES ASSUME RepairInv, [Next]_vars,
                    NEW c \in Clients, call'[c].step \in {"projected", "recorded", "rebuilt"}
             PROVE  draft'.projection = Replayed(draft'.events)
  BY AnswerInvStep DEF RepairInv
<1>1. TypeOK /\ RequestsOK /\ DraftOK(c)
  BY DEF RepairInv, AnswerInv, TypeInv
<1>2. draft \in Databases
  BY <1>1 DEF TypeOK
<1>3. CASE Project(c) \/ Rebuild(c)
  <2>1. draft' = [draft EXCEPT !.projection = Replayed(draft.events)]
    BY <1>3 DEF Project, Rebuild
  <2> QED
    BY <1>2, <2>1, DatabaseParts, ReplayedType, ProjectionUpdate
<1>4. CASE StoreReceipt(c)
  <2>1. At(c, "projected") /\ call[c].request \in Requests
    BY <1>1, <1>4, CommandLogAssumption DEF StoreReceipt, At, RequestsOK
  <2>2. draft'.events = draft.events /\ draft'.projection = draft.projection
    BY <1>2, <1>4, <2>1, CommandLogAssumption, ReceiptUpdate, ReceiptsDiffer DEF StoreReceipt
  <2> QED
    BY <2>1, <2>2 DEF RepairInv, At, Replayed
<1>5. ASSUME UNCHANGED <<draft, call>>
      PROVE  draft'.projection = Replayed(draft'.events)
  BY <1>5 DEF RepairInv
<1>6. ASSUME Step(c) \/ BeginRebuild(c) \/ Fail(c) \/ Die(c)
      PROVE  Project(c) \/ Rebuild(c) \/ StoreReceipt(c)
  <2>1. CASE Begin(c) \/ BeginRebuild(c) \/ AppendEvents(c)
    BY <1>1, <2>1, CallSteps DEF Begin, BeginRebuild, AppendEvents, Steps
  <2>2. CASE Busy(c) \/ Answer(c) \/ CommitRebuild(c) \/ Fail(c) \/ Die(c)
    BY <1>1, <2>2, CallReturns DEF Busy, Answer, CommitRebuild, Fail, Die
  <2>3. CASE Replay(c) \/ Reject(c) \/ Commit(c)
    BY <1>1, <2>3 DEF Replay, Reject, Commit, Decides, TypeOK
  <2> QED
    BY <1>6, <2>1, <2>2, <2>3 DEF Step
<1>7. ASSUME NEW d \in Clients \ {c}, Step(d) \/ BeginRebuild(d) \/ Fail(d) \/ Die(d)
      PROVE  draft'.projection = Replayed(draft'.events)
  <2>1. call'[c] = call[c]
    BY <1>1, <1>7 DEF Step, Begin, Busy, Replay, Reject, AppendEvents, Project, StoreReceipt, Commit,
      Answer, Rebuild, CommitRebuild, BeginRebuild, Fail, Die, Goes, Returns, Decides, TypeOK
  <2>2. lock = c /\ c # Nobody /\ draft.projection = Replayed(draft.events)
    BY <1>1, <2>1, CommandLogAssumption DEF DraftOK, InTransaction, RepairInv
  <2>3. ~ InTransaction(d)
    BY <2>2 DEF RepairInv, AnswerInv, DraftOK
  <2>4. draft' = draft
    BY <1>7, <2>2, <2>3 DEF Step, Begin, Busy, Replay, Reject, AppendEvents, Project, StoreReceipt, Commit,
      Answer, Rebuild, CommitRebuild, BeginRebuild, Fail, Die, InTransaction, At, Locks, Unlocks
  <2> QED
    BY <2>2, <2>4
<1>8. ASSUME NEW d \in Clients, NEW q \in Requests, Call(d, q)
      PROVE  draft'.projection = Replayed(draft'.events)
  <2>1. call'[c] = call[c] /\ draft' = draft
    BY <1>1, <1>8 DEF Call, TypeOK
  <2> QED
    BY <2>1 DEF RepairInv
<1> QED
  BY <1>3, <1>4, <1>5, <1>6, <1>7, <1>8 DEF Next, Refuse, Damage, ReadTable, vars

LEMMA RepairsStep == RepairInv /\ [Next]_vars => [Repairs]_vars
<1> SUFFICES ASSUME RepairInv, [Next]_vars PROVE Repairs \/ UNCHANGED vars
  OBVIOUS
<1>1. /\ TypeOK /\ RequestsOK /\ \A c \in Clients : DraftOK(c)
      /\ \A c \in Clients : call[c].step \in {"projected", "recorded", "rebuilt"} =>
           draft.projection = Replayed(draft.events)
  BY DEF RepairInv, AnswerInv, TypeInv
<1>2. ASSUME NEW c \in Clients, Commit(c) \/ CommitRebuild(c)
      PROVE  Repairs
  <2>1. db' = draft /\ call[c].step \in {"recorded", "rebuilt"}
    BY <1>2 DEF Commit, CommitRebuild, Publishes, At
  <2> QED
    BY <1>1, <2>1 DEF Repairs
<1>3. ASSUME NEW c \in Clients, Reject(c)
      PROVE  Repairs
  <2> DEFINE r == call[c].request
  <2>1. r \in Requests /\ KeyOf[r] \in Keys /\ draft = db
    BY <1>1, <1>3, CommandLogAssumption DEF Reject, At, RequestsOK, DraftOK, InTransaction
  <2>2. db' = [db EXCEPT !.receipts[KeyOf[r]] = Receipt("rejected", r)]
    BY <1>3, <2>1 DEF Reject, Publishes
  <2>3. db \in Databases /\ Receipt("rejected", r) \in Receipts
    BY <1>1, <2>1, ReceiptsDiffer DEF TypeOK
  <2>4. db'.events = db.events /\ db'.projection = db.projection
    BY <2>1, <2>2, <2>3, ReceiptUpdate
  <2> QED
    BY <2>4 DEF Repairs
<1>4. ASSUME NEW s \in Streams, Damage(s)
      PROVE  Repairs
  BY <1>4 DEF Repairs
<1>5. CASE db' = db
  BY <1>5 DEF Repairs
<1> QED
  BY <1>2, <1>3, <1>4, <1>5 DEF Next, Step, Begin, Busy, Replay, AppendEvents, Project, StoreReceipt,
    Answer, Rebuild, BeginRebuild, Fail, Die, Call, Refuse, ReadTable, Unlocks, vars

\* A commit that adds events, and any rebuild, leaves every table as the log
\* replays, however tables were damaged before; no other commit touches them.
THEOREM CommitsAlwaysRepair == Spec => CommitsRepair
<1>1. Init => RepairInv
  BY AnswerInvInit DEF RepairInv, Init, NotCalling
<1>2. CommitsRepair <=> [][Repairs]_vars
  BY PTL DEF CommitsRepair, Repairs
<1> QED
  BY <1>1, <1>2, RepairInvStep, RepairsStep, PTL DEF Spec

-----------------------------------------------------------------------------
(* The log with the events of one more request.                            *)

LEMMA AppendedEvents ==
  ASSUME NEW events \in Seq(Events), NEW r \in Requests
  PROVE  /\ Len(events) \in Nat /\ Len(Writes[r]) \in Nat \ {0}
         /\ DOMAIN events = 1..Len(events) /\ DOMAIN Writes[r] = 1..Len(Writes[r])
         /\ Appended(events, r) \in Seq(Events)
         /\ Len(Appended(events, r)) = Len(events) + Len(Writes[r])
         /\ DOMAIN Appended(events, r) = 1..(Len(events) + Len(Writes[r]))
         /\ \A i \in 1..Len(events) : Appended(events, r)[i] = events[i]
         /\ \A i \in 1..Len(Writes[r]) :
              /\ Writes[r][i] \in Streams
              /\ Appended(events, r)[Len(events) + i] =
                   [stream |-> Writes[r][i], by |-> r,
                    version |-> VersionOf(events, Writes[r][i])
                                  + Cardinality({k \in 1..i : Writes[r][k] = Writes[r][i]})]
<1> DEFINE new == [i \in DOMAIN Writes[r] |->
                     [stream |-> Writes[r][i], by |-> r,
                      version |-> VersionOf(events, Writes[r][i])
                                    + Cardinality({k \in 1..i : Writes[r][k] = Writes[r][i]})]]
<1>1. Writes[r] \in Seq(Streams) /\ Writes[r] # <<>>
  BY CommandLogAssumption
<1>2. PICK n \in Nat : n = Len(Writes[r])
  BY <1>1, LenProperties
<1>3. n # 0 /\ DOMAIN Writes[r] = 1..n /\ \A i \in 1..n : Writes[r][i] \in Streams
  BY <1>1, <1>2
<1>4. PICK m \in Nat : m = Len(events)
  BY LenProperties
<1>5. DOMAIN events = 1..m
  BY <1>4
<1>6. Appended(events, r) = events \o new /\ Appended(events, r) \in Seq(Events)
  BY AppendedType DEF Appended
<1>7. DOMAIN new = 1..n
  BY <1>3
<1>8. \A i \in 1..n : new[i] = [stream |-> Writes[r][i], by |-> r,
                                version |-> VersionOf(events, Writes[r][i])
                                  + Cardinality({k \in 1..i : Writes[r][k] = Writes[r][i]})]
  BY <1>3
<1>9. \A i \in 1..n : new[i] \in Events
  <2>1. ASSUME NEW i \in 1..n
        PROVE  new[i] \in Events
    <3>1. IsFiniteSet({k \in 1..i : Writes[r][k] = Writes[r][i]})
      <4>1. IsFiniteSet(1..i)
        BY FS_Interval
      <4> QED
        BY <4>1, FS_Subset
    <3>2. Cardinality({k \in 1..i : Writes[r][k] = Writes[r][i]}) \in Nat
      BY <3>1, FS_CardinalityType
    <3>3. VersionOf(events, Writes[r][i]) \in Nat
      BY VersionType
    <3> QED
      BY <1>3, <1>8, <3>2, <3>3 DEF Events
  <2> QED
    BY <2>1
<1> HIDE DEF new
<1>10. new \in Seq(Events) /\ Len(new) = n
  <2>1. new \in [1..n -> Events]
    <3>1. new = [i \in 1..n |-> new[i]]
      BY <1>3 DEF new
    <3> QED
      BY <1>9, <3>1
  <2> QED
    BY <2>1
<1>11. /\ Len(events \o new) = m + n
       /\ \A i \in 1..(m + n) : (events \o new)[i] = IF i <= m THEN events[i] ELSE new[i - m]
  BY <1>4, <1>10, ConcatProperties
<1>12. DOMAIN (events \o new) = 1..(m + n)
  BY <1>6, <1>11, LenProperties
<1>13. \A i \in 1..m : (events \o new)[i] = events[i]
  BY <1>11
<1>14. \A i \in 1..n : (events \o new)[m + i] = new[i]
  BY <1>11
<1> QED
  BY <1>2, <1>3, <1>4, <1>5, <1>6, <1>8, <1>11, <1>12, <1>13, <1>14

\* The events of other requests stay, those of the new one come after them all.
LEMMA EventsAfter ==
  ASSUME NEW events \in Seq(Events), NEW r \in Requests \ Accepted(events)
  PROVE  /\ EventsOf(Appended(events, r), r) = (Len(events) + 1)..(Len(events) + Len(Writes[r]))
         /\ \A q \in Requests \ {r} : EventsOf(Appended(events, r), q) = EventsOf(events, q)
<1>1. PICK m \in Nat : m = Len(events)
  BY AppendedEvents
<1>2. PICK n \in Nat : n = Len(Writes[r]) /\ n # 0
  BY AppendedEvents
<1>3. DOMAIN events = 1..m /\ DOMAIN Appended(events, r) = 1..(m + n)
  BY <1>1, <1>2, AppendedEvents
<1>4. \A i \in 1..m : Appended(events, r)[i] = events[i]
  BY <1>1, AppendedEvents
<1>5. ASSUME NEW i \in 1..n
      PROVE  Appended(events, r)[m + i].by = r
  <2>1. Appended(events, r)[m + i] =
          [stream |-> Writes[r][i], by |-> r,
           version |-> VersionOf(events, Writes[r][i])
                         + Cardinality({k \in 1..i : Writes[r][k] = Writes[r][i]})]
    BY <1>1, <1>2, AppendedEvents
  <2> QED
    BY <2>1
<1>6. \A i \in 1..(m + n) : i \notin 1..m => i - m \in 1..n /\ m + (i - m) = i
  OBVIOUS
<1>7. \A i \in 1..m : events[i].by # r
  BY <1>3 DEF Accepted
<1>8. ASSUME NEW i \in 1..(m + n)
      PROVE  Appended(events, r)[i].by = r <=> i \in (m + 1)..(m + n)
  <2>1. CASE i \in 1..m
    <3>1. i \notin (m + 1)..(m + n)
      BY <2>1
    <3> QED
      BY <1>4, <1>7, <2>1, <3>1
  <2>2. CASE i \notin 1..m
    <3>1. i \in (m + 1)..(m + n)
      BY <2>2
    <3>2. PICK k \in 1..n : i = m + k
      BY <1>6, <2>2
    <3> QED
      BY <1>5, <3>1, <3>2
  <2> QED
    BY <2>1, <2>2
<1>9. ASSUME NEW q \in Requests \ {r}
      PROVE  EventsOf(Appended(events, r), q) = EventsOf(events, q)
  <2>1. ASSUME NEW i \in 1..(m + n), i \notin 1..m
        PROVE  Appended(events, r)[i].by # q
    <3>1. PICK k \in 1..n : i = m + k
      BY <1>6, <2>1
    <3> QED
      BY <1>5, <3>1
  <2>2. 1..m \subseteq 1..(m + n)
    OBVIOUS
  <2> QED
    BY <1>3, <1>4, <2>1, <2>2 DEF EventsOf
<1>10. EventsOf(Appended(events, r), r) = (m + 1)..(m + n)
  BY <1>3, <1>8 DEF EventsOf
<1> QED
  BY <1>1, <1>2, <1>9, <1>10

LEMMA TogetherAfter ==
  ASSUME NEW events \in Seq(Events), NEW r \in Requests \ Accepted(events)
  PROVE  /\ Together(Appended(events, r), r, Len(events))
         /\ \A q \in Requests \ {r}, n \in 0..Len(events) :
              Together(events, q, n) => Together(Appended(events, r), q, n)
<1>1. Together(Appended(events, r), r, Len(events))
  <2>1. EventsOf(Appended(events, r), r) = (Len(events) + 1)..(Len(events) + Len(Writes[r]))
    BY EventsAfter
  <2>2. ASSUME NEW i \in DOMAIN Writes[r]
        PROVE  Appended(events, r)[Len(events) + i].stream = Writes[r][i]
    <3>1. i \in 1..Len(Writes[r])
      BY AppendedEvents
    <3>2. Appended(events, r)[Len(events) + i] =
            [stream |-> Writes[r][i], by |-> r,
             version |-> VersionOf(events, Writes[r][i])
                           + Cardinality({k \in 1..i : Writes[r][k] = Writes[r][i]})]
      BY <3>1, AppendedEvents
    <3> QED
      BY <3>2
  <2> QED
    BY <2>1, <2>2 DEF Together
<1>2. ASSUME NEW q \in Requests \ {r}, NEW n \in 0..Len(events), Together(events, q, n)
      PROVE  Together(Appended(events, r), q, n)
  <2>1. EventsOf(Appended(events, r), q) = (n + 1)..(n + Len(Writes[q]))
    BY <1>2, EventsAfter DEF Together
  <2>2. ASSUME NEW i \in DOMAIN Writes[q]
        PROVE  Appended(events, r)[n + i].stream = Writes[q][i]
    <3>1. i \in 1..Len(Writes[q]) /\ Len(Writes[q]) \in Nat
      BY AppendedEvents
    <3>2. n + i \in EventsOf(events, q)
      BY <1>2, <3>1 DEF Together
    <3>3. n + i \in 1..Len(events)
      BY <3>2, AppendedEvents DEF EventsOf
    <3>4. Appended(events, r)[n + i] = events[n + i]
      BY <3>3, AppendedEvents
    <3> QED
      BY <1>2, <3>4 DEF Together
  <2> QED
    BY <2>1, <2>2 DEF Together
<1> QED
  BY <1>1, <1>2

\* What a reader saw of the log before is a part of it afterwards.
LEMMA PrefixStays ==
  ASSUME NEW events \in Seq(Events), NEW r \in Requests, NEW n \in 0..Len(events)
  PROVE  /\ SubSeq(Appended(events, r), 1, n) = SubSeq(events, 1, n)
         /\ SubSeq(events, 1, n) \in Seq(Events) /\ Len(SubSeq(events, 1, n)) = n
         /\ \A i \in 1..n : SubSeq(events, 1, n)[i] = events[i]
<1>1. Len(events) \in Nat /\ n \in Nat /\ \A i \in 1..n : i \in 1..Len(events)
  BY AppendedEvents
<1>2. \A i \in 1..n : events[i] \in Events /\ Appended(events, r)[i] = events[i]
  BY <1>1, AppendedEvents, ElementOfSeq
<1>3. /\ SubSeq(events, 1, n) \in Seq(Events) /\ Len(SubSeq(events, 1, n)) = n
      /\ \A i \in 1..n : SubSeq(events, 1, n)[i] = events[i]
  BY <1>1, <1>2, SubSeqProperties
<1>4. /\ SubSeq(Appended(events, r), 1, n) \in Seq(Events)
      /\ Len(SubSeq(Appended(events, r), 1, n)) = n
      /\ \A i \in 1..n : SubSeq(Appended(events, r), 1, n)[i] = Appended(events, r)[i]
  BY <1>1, <1>2, SubSeqProperties
<1>5. SubSeq(Appended(events, r), 1, n) = SubSeq(events, 1, n)
  BY <1>2, <1>3, <1>4, SeqEqual
<1> QED
  BY <1>3, <1>5

-----------------------------------------------------------------------------
(* Versions.                                                               *)

VersionsCount(events) ==
  \A i \in DOMAIN events : events[i].version = VersionOf(SubSeq(events, 1, i), events[i].stream)

\* Numbers moved up by n are as many as before.
LEMMA Shifted ==
  ASSUME NEW S \in SUBSET Nat, IsFiniteSet(S), NEW n \in Nat
  PROVE  IsFiniteSet({n + k : k \in S}) /\ Cardinality({n + k : k \in S}) = Cardinality(S)
<1> DEFINE T == {n + k : k \in S}
           f == [k \in S |-> n + k]
<1>1. f \in Bijection(S, T)
  BY DEF Bijection, Injection, Surjection, IsInjective
<1>2. ExistsBijection(S, T)
  BY <1>1 DEF ExistsBijection
<1> HIDE DEF T
<1>3. IsFiniteSet(T) /\ Cardinality(T) = Cardinality(S)
  BY <1>2, FS_Bijection
<1> QED
  BY <1>3 DEF T

LEMMA VersionsAfter ==
  ASSUME NEW events \in Seq(Events), NEW r \in Requests, VersionsCount(events)
  PROVE  VersionsCount(Appended(events, r))
<1> DEFINE all == Appended(events, r)
<1>1. PICK m \in Nat : m = Len(events)
  BY AppendedEvents
<1>2. PICK n \in Nat : n = Len(Writes[r])
  BY AppendedEvents
<1>3. all \in Seq(Events) /\ DOMAIN events = 1..m /\ Len(all) = m + n /\ DOMAIN all = 1..(m + n)
  BY <1>1, <1>2, AppendedEvents
<1>4. \A i \in 1..m : all[i] = events[i]
  BY <1>1, AppendedEvents
<1>5. ASSUME NEW i \in 1..m
      PROVE  all[i].version = VersionOf(SubSeq(all, 1, i), all[i].stream)
  <2>1. SubSeq(all, 1, i) = SubSeq(events, 1, i)
    BY <1>1, PrefixStays
  <2> QED
    BY <1>3, <1>4, <2>1 DEF VersionsCount
<1>6. ASSUME NEW i \in 1..n
      PROVE  all[m + i].version = VersionOf(SubSeq(all, 1, m + i), all[m + i].stream)
  <2> DEFINE s == Writes[r][i]
             seen == SubSeq(all, 1, m + i)
             old == {k \in DOMAIN events : events[k].stream = s}
             own == {k \in 1..i : Writes[r][k] = s}
  <2>1. all[m + i] = [stream |-> s, by |-> r, version |-> VersionOf(events, s) + Cardinality(own)]
    BY <1>1, <1>2, AppendedEvents
  <2>2. /\ seen \in Seq(Events) /\ Len(seen) = m + i
        /\ \A k \in 1..(m + i) : seen[k] = all[k]
    <3>1. \A k \in 1..(m + i) : all[k] \in Events
      BY <1>3, ElementOfSeq
    <3> QED
      BY <3>1, SubSeqProperties
  <2>3. DOMAIN seen = 1..(m + i)
    BY <2>2
  <2>4. \A k \in 1..m : seen[k] = events[k]
    BY <1>4, <2>2
  <2>5. \A k \in 1..i : seen[m + k].stream = Writes[r][k]
    <3>1. \A k \in 1..i : k \in 1..n /\ m + k \in 1..(m + i)
      OBVIOUS
    <3>2. ASSUME NEW k \in 1..n
          PROVE  all[m + k].stream = Writes[r][k]
      <4>1. all[m + k] =
              [stream |-> Writes[r][k], by |-> r,
               version |-> VersionOf(events, Writes[r][k])
                             + Cardinality({j \in 1..k : Writes[r][j] = Writes[r][k]})]
        BY <1>1, <1>2, AppendedEvents
      <4> QED
        BY <4>1
    <3> QED
      BY <2>2, <3>1, <3>2
  <2>6. \A k \in 1..(m + i) : k \notin 1..m => k - m \in 1..i /\ m + (k - m) = k
    OBVIOUS
  <2>7. {k \in DOMAIN seen : seen[k].stream = s} = old \cup {m + k : k \in own}
    <3>1. ASSUME NEW k \in DOMAIN seen, seen[k].stream = s
          PROVE  k \in old \cup {m + j : j \in own}
      <4>1. CASE k \in 1..m
        BY <1>3, <2>4, <3>1, <4>1
      <4>2. CASE k \notin 1..m
        <5>1. k - m \in own /\ m + (k - m) = k
          BY <2>3, <2>5, <2>6, <3>1, <4>2
        <5> QED
          BY <5>1
      <4> QED
        BY <4>1, <4>2
    <3>2. ASSUME NEW k \in old
          PROVE  k \in DOMAIN seen /\ seen[k].stream = s
      BY <1>3, <2>3, <2>4
    <3>3. ASSUME NEW k \in own
          PROVE  m + k \in DOMAIN seen /\ seen[m + k].stream = s
      BY <2>3, <2>5
    <3>4. {k \in DOMAIN seen : seen[k].stream = s} \subseteq old \cup {m + j : j \in own}
      BY <3>1
    <3>5. \A k \in old : k \in DOMAIN seen /\ seen[k].stream = s
      BY <3>2
    <3>6. \A k \in own : m + k \in DOMAIN seen /\ seen[m + k].stream = s
      BY <3>3
    <3> HIDE DEF old, own, seen
    <3>7. old \cup {m + j : j \in own} \subseteq {k \in DOMAIN seen : seen[k].stream = s}
      BY <3>5, <3>6
    <3> QED
      BY <3>4, <3>7
  <2>8. IsFiniteSet(old) /\ IsFiniteSet(own) /\ own \in SUBSET Nat
    <3>1. IsFiniteSet(1..m) /\ IsFiniteSet(1..i) /\ 1..i \subseteq Nat
      BY FS_Interval
    <3>2. old \in SUBSET (1..m) /\ own \in SUBSET (1..i)
      BY <1>3
    <3> QED
      BY <3>1, <3>2, FS_Subset
  <2>9. old \cap {m + k : k \in own} = {}
    BY <1>3
  <2> HIDE DEF own, old
  <2>10. IsFiniteSet({m + k : k \in own}) /\ Cardinality({m + k : k \in own}) = Cardinality(own)
    BY <2>8, Shifted
  <2>11. Cardinality(old \cup {m + k : k \in own}) = Cardinality(old) + Cardinality(own)
    <3>0. PICK T : T = {m + k : k \in own}
      OBVIOUS
    <3>1. Cardinality(old \cap T) = 0
      BY <2>9, <3>0, FS_EmptySet
    <3>2. Cardinality(old) \in Nat /\ Cardinality(own) \in Nat
      BY <2>8, FS_CardinalityType
    <3>3. IsFiniteSet(T) /\ Cardinality(T) = Cardinality(own)
      BY <2>10, <3>0
    <3>4. Cardinality(old \cup T) = Cardinality(old) + Cardinality(T) - Cardinality(old \cap T)
      BY <2>8, <3>3, FS_Union
    <3> QED
      BY <3>0, <3>1, <3>2, <3>3, <3>4
  <2>12. VersionOf(seen, s) = Cardinality(old) + Cardinality(own)
    BY <2>7, <2>11 DEF VersionOf
  <2>13. VersionOf(events, s) = Cardinality(old)
    BY DEF VersionOf, old
  <2> QED
    BY <2>1, <2>12, <2>13
<1>7. ASSUME NEW i \in 1..(m + n)
      PROVE  all[i].version = VersionOf(SubSeq(all, 1, i), all[i].stream)
  <2>1. CASE i \in 1..m
    BY <1>5, <2>1
  <2>2. CASE i \notin 1..m
    <3>1. PICK k \in 1..n : i = m + k
      BY <2>2
    <3> QED
      BY <1>6, <3>1
  <2> QED
    BY <2>1, <2>2
<1> QED
  BY <1>3, <1>7 DEF VersionsCount

-----------------------------------------------------------------------------
(* The order of the requests.                                              *)

\* The order has each accepted request, and no other.
OrderOK(events) ==
  /\ IsFiniteSet(Accepted(events))
  /\ Order(events) \in Seq(Requests)
  /\ Len(Order(events)) = Cardinality(Accepted(events))
  /\ {Order(events)[k] : k \in DOMAIN Order(events)} = Accepted(events)

\* A new request comes after all others.
LEMMA PlacesAfter ==
  ASSUME NEW events \in Seq(Events), NEW r \in Requests \ Accepted(events)
  PROVE  /\ \A q, p \in Accepted(events) : NoLater(Appended(events, r), q, p) <=> NoLater(events, q, p)
         /\ \A q \in Accepted(events) : ~NoLater(Appended(events, r), r, q)
         /\ \A q \in Accepted(events) \cup {r} : NoLater(Appended(events, r), q, r)
<1> DEFINE all == Appended(events, r)
<1>1. PICK m \in Nat : m = Len(events)
  BY AppendedEvents
<1>2. PICK n \in Nat : n = Len(Writes[r]) /\ n # 0
  BY AppendedEvents
<1>3. EventsOf(all, r) = (m + 1)..(m + n)
  BY <1>1, <1>2, EventsAfter
<1>4. ASSUME NEW q \in Accepted(events)
      PROVE  /\ EventsOf(all, q) = EventsOf(events, q) /\ EventsOf(events, q) # {}
             /\ EventsOf(events, q) \subseteq 1..m
  <2>1. q \in Requests \ {r}
    <3>1. PICK i \in DOMAIN events : events[i].by = q
      BY DEF Accepted
    <3>2. events[i] \in Events
      BY <3>1, ElementOfSeq, AppendedEvents
    <3> QED
      BY <3>1, <3>2 DEF Events
  <2>2. EventsOf(events, q) # {} /\ EventsOf(events, q) \subseteq 1..m
    BY <1>1, AppendedEvents DEF Accepted, EventsOf
  <2> QED
    BY <2>1, <2>2, EventsAfter
<1>5. \A q, p \in Accepted(events) : NoLater(all, q, p) <=> NoLater(events, q, p)
  BY <1>4 DEF NoLater
<1> HIDE DEF all
<1>6. ASSUME NEW q \in Accepted(events)
      PROVE  ~NoLater(all, r, q)
  <2>1. \A i \in EventsOf(all, r) : i \in Nat /\ i > m
    BY <1>3
  <2>2. PICK k \in EventsOf(all, q) : k \in 1..m
    BY <1>4
  <2> QED
    BY <2>1, <2>2 DEF NoLater
<1>7. ASSUME NEW q \in Accepted(events)
      PROVE  NoLater(all, q, r)
  <2>1. PICK i \in EventsOf(all, q) : i \in 1..m
    BY <1>4
  <2>2. \A k \in EventsOf(all, r) : i <= k
    BY <1>3, <2>1
  <2> QED
    BY <2>2 DEF NoLater
<1>8. NoLater(all, r, r)
  <2>1. m + 1 \in EventsOf(all, r) /\ \A k \in EventsOf(all, r) : m + 1 <= k
    BY <1>2, <1>3
  <2> QED
    BY <2>1 DEF NoLater
<1> QED
  BY <1>5, <1>6, <1>7, <1>8 DEF all

LEMMA OrderAfter ==
  ASSUME NEW events \in Seq(Events), NEW r \in Requests \ Accepted(events), OrderOK(events)
  PROVE  Order(Appended(events, r)) = Append(Order(events), r) /\ OrderOK(Appended(events, r))
<1> DEFINE all == Appended(events, r)
           before(es, p) == {q \in Accepted(es) : NoLater(es, q, p)}
<1>1. Accepted(all) = Accepted(events) \cup {r} /\ r \notin Accepted(events)
  BY AppendedType
<1>2. PICK n \in Nat : n = Cardinality(Accepted(events))
  BY FS_CardinalityType DEF OrderOK
<1>3. IsFiniteSet(Accepted(events)) /\ IsFiniteSet(Accepted(all)) /\ Cardinality(Accepted(all)) = n + 1
  BY <1>1, <1>2, FS_AddElement DEF OrderOK
<1>4. ASSUME NEW p \in Accepted(events)
      PROVE  before(all, p) = before(events, p) /\ Cardinality(before(events, p)) # n + 1
  <2>1. before(all, p) = before(events, p)
    BY <1>1, PlacesAfter
  <2>2. before(events, p) \in SUBSET Accepted(events)
    OBVIOUS
  <2>3. Cardinality(before(events, p)) <= n /\ Cardinality(before(events, p)) \in Nat
    BY <1>2, <1>3, <2>2, FS_Subset, FS_CardinalityType
  <2> QED
    BY <2>1, <2>3
<1>5. Cardinality(before(all, r)) = n + 1
  <2>1. before(all, r) = Accepted(all)
    BY <1>1, PlacesAfter
  <2> QED
    BY <1>3, <2>1
<1>6. \A k : InPlace(all, k) = {p \in Accepted(all) : Cardinality(before(all, p)) = k}
  BY DEF InPlace
<1>7. \A k : InPlace(events, k) = {p \in Accepted(events) : Cardinality(before(events, p)) = k}
  BY DEF InPlace
<1> HIDE DEF all, before
<1>8. ASSUME NEW k \in 1..n
      PROVE  InPlace(all, k) = InPlace(events, k)
  <2>1. k # n + 1
    OBVIOUS
  <2>2. InPlace(all, k) = {p \in Accepted(events) \cup {r} : Cardinality(before(all, p)) = k}
    BY <1>1, <1>6
  <2>3. \A p \in Accepted(events) : before(all, p) = before(events, p)
    BY <1>4
  <2>4. Cardinality(before(all, r)) # k
    BY <1>5, <2>1
  <2>5. InPlace(events, k) = {p \in Accepted(events) : Cardinality(before(events, p)) = k}
    BY <1>7
  <2> QED
    BY <2>2, <2>3, <2>4, <2>5
<1>9. InPlace(all, n + 1) = {r}
  BY <1>1, <1>4, <1>5, <1>6
<1>10. Order(all) = [k \in 1..(n + 1) |-> CHOOSE q \in Requests : q \in InPlace(all, k)]
  BY <1>3 DEF Order
<1>11. Order(events) = [k \in 1..n |-> CHOOSE q \in Requests : q \in InPlace(events, k)]
  BY <1>2 DEF Order
<1>12. \A k \in 1..n : Order(all)[k] = Order(events)[k]
  BY <1>8, <1>10, <1>11
<1>13. Order(all)[n + 1] = r
  <2>1. Order(all)[n + 1] = CHOOSE q \in Requests : q \in InPlace(all, n + 1)
    BY <1>10
  <2>2. \E q \in Requests : q \in InPlace(all, n + 1)
    BY <1>9
  <2>3. Order(all)[n + 1] \in InPlace(all, n + 1)
    BY <2>1, <2>2
  <2> QED
    BY <1>9, <2>3
<1>14. /\ Order(events) \in Seq(Requests) /\ Len(Order(events)) = n
       /\ {Order(events)[k] : k \in DOMAIN Order(events)} = Accepted(events)
  BY <1>2 DEF OrderOK
<1>15. /\ Append(Order(events), r) \in Seq(Requests) /\ Len(Append(Order(events), r)) = n + 1
       /\ \A k \in 1..n : Append(Order(events), r)[k] = Order(events)[k]
       /\ Append(Order(events), r)[n + 1] = r
  BY <1>14, AppendProperties
<1>16. Order(all) \in Seq(Requests) /\ Len(Order(all)) = n + 1
  <2>1. \A k \in 1..(n + 1) : Order(all)[k] \in Requests
    <3>1. \A k \in 1..n : Order(events)[k] \in Requests
      BY <1>14, ElementOfSeq
    <3> QED
      BY <1>12, <1>13, <3>1
  <2>2. Order(all) = [k \in 1..(n + 1) |-> Order(all)[k]]
    BY <1>10
  <2>3. Order(all) \in [1..(n + 1) -> Requests]
    BY <2>1, <2>2
  <2> QED
    BY <2>3
<1>17. Order(all) = Append(Order(events), r)
  <2>1. \A k \in 1..(n + 1) : Order(all)[k] = Append(Order(events), r)[k]
    BY <1>12, <1>13, <1>15
  <2> QED
    BY <1>15, <1>16, <2>1, SeqEqual
<1>18. {Order(all)[k] : k \in DOMAIN Order(all)} = Accepted(all)
  <2>1. DOMAIN Order(all) = 1..(n + 1) /\ DOMAIN Order(events) = 1..n
    BY <1>10, <1>11
  <2>2. {Order(all)[k] : k \in 1..(n + 1)} = {Order(events)[k] : k \in 1..n} \cup {r}
    BY <1>12, <1>13
  <2> QED
    BY <1>1, <1>14, <2>1, <2>2
<1> QED
  BY <1>3, <1>16, <1>17, <1>18 DEF OrderOK, all

-----------------------------------------------------------------------------
(* The open transaction.                                                   *)

\* What the transaction of c has added to what is committed.
TransactionOK(c) ==
  LET r == call[c].request IN
  /\ call[c].step \in {"begun", "rebuilding", "rebuilt"} =>
       draft.events = db.events /\ draft.receipts = db.receipts
  /\ call[c].step \in {"appended", "projected", "recorded"} =>
       /\ draft.events = Appended(db.events, r)
       /\ Permits(r, Accepted(db.events)) /\ db.receipts[KeyOf[r]] = NoReceipt
  /\ call[c].step \in {"appended", "projected"} => draft.receipts = db.receipts
  /\ call[c].step = "recorded" =>
       draft.receipts = [db.receipts EXCEPT ![KeyOf[r]] = Receipt("accepted", r)]

TransactionInv == RepairInv /\ \A c \in Clients : TransactionOK(c)

LEMMA RepairInvInit == Init => RepairInv
  BY AnswerInvInit DEF RepairInv, Init, NotCalling

LEMMA TransactionInvInit == Init => TransactionInv
  BY RepairInvInit DEF TransactionInv, TransactionOK, Init, NotCalling

\* While a client is in its transaction the others cannot touch the database.
LEMMA OthersWait ==
  ASSUME RepairInv, NEW c \in Clients, InTransaction(c)', NEW d \in Clients \ {c},
         Step(d) \/ BeginRebuild(d) \/ Fail(d) \/ Die(d)
  PROVE  call'[c] = call[c] /\ draft' = draft /\ db' = db
<1>1. TypeOK /\ DraftOK(c)
  BY DEF RepairInv, AnswerInv, TypeInv
<1>2. call'[c] = call[c]
  BY <1>1 DEF Step, Begin, Busy, Replay, Reject, AppendEvents, Project, StoreReceipt, Commit,
    Answer, Rebuild, CommitRebuild, BeginRebuild, Fail, Die, Goes, Returns, Decides, TypeOK
<1>3. lock = c /\ c # Nobody
  BY <1>1, <1>2, CommandLogAssumption DEF DraftOK, InTransaction
<1>4. ~ InTransaction(d)
  BY <1>3 DEF RepairInv, AnswerInv, DraftOK
<1>5. draft' = draft /\ db' = db
  BY <1>3, <1>4 DEF Step, Begin, Busy, Replay, Reject, AppendEvents, Project, StoreReceipt, Commit,
    Answer, Rebuild, CommitRebuild, BeginRebuild, Fail, Die, InTransaction, At, Locks, Unlocks
<1> QED
  BY <1>2, <1>5

LEMMA TransactionInvStep == TransactionInv /\ [Next]_vars => TransactionInv'
<1> SUFFICES ASSUME TransactionInv, [Next]_vars, NEW c \in Clients, InTransaction(c)'
             PROVE  TransactionOK(c)'
  BY RepairInvStep DEF TransactionInv, TransactionOK, InTransaction
<1> DEFINE r == call[c].request
<1>1. TypeOK /\ RequestsOK /\ DraftOK(c) /\ TransactionOK(c) /\ RepairInv
  BY DEF TransactionInv, RepairInv, AnswerInv, TypeInv
<1>2. db \in Databases /\ draft \in Databases
  BY <1>1 DEF TypeOK
<1>3. CASE Begin(c) \/ BeginRebuild(c)
  <2>1. PICK step \in {"begun", "rebuilding"} : Goes(c, step)
    BY <1>3 DEF Begin, BeginRebuild
  <2>2. call'[c].step = step
    BY <1>1, <2>1, CallSteps DEF Steps
  <2>3. draft' = db /\ db' = db
    BY <1>3 DEF Begin, BeginRebuild, Locks
  <2> QED
    BY <2>2, <2>3 DEF TransactionOK
<1>4. CASE AppendEvents(c)
  <2>1. At(c, "begun") /\ r \in Requests /\ draft = db
    BY <1>1, <1>4, CommandLogAssumption DEF AppendEvents, RequestsOK, At, DraftOK, InTransaction
  <2>2. /\ db' = db /\ draft' = [db EXCEPT !.events = Appended(db.events, r)]
        /\ Permits(r, Accepted(db.events)) /\ db.receipts[KeyOf[r]] = NoReceipt
    BY <1>4, <2>1 DEF AppendEvents
  <2>3. draft'.events = Appended(db.events, r) /\ draft'.receipts = db.receipts
    BY <1>2, <2>1, <2>2, AppendedType, DatabaseParts, EventsUpdate
  <2>4. call'[c].step = "appended" /\ call'[c].request = r
    BY <1>1, <1>4, CallSteps DEF AppendEvents, Steps
  <2> QED
    BY <2>2, <2>3, <2>4 DEF TransactionOK
<1>5. CASE Project(c)
  <2>1. At(c, "appended") /\ db' = db
    BY <1>5 DEF Project
  <2>2. draft'.events = draft.events /\ draft'.receipts = draft.receipts
    BY <1>2, <1>5, ReplayedType, DatabaseParts, ProjectionUpdate DEF Project
  <2>3. call'[c].step = "projected" /\ call'[c].request = r
    BY <1>1, <1>5, CallSteps DEF Project, Steps
  <2> QED
    BY <1>1, <2>1, <2>2, <2>3 DEF TransactionOK, At
<1>6. CASE StoreReceipt(c)
  <2>1. At(c, "projected") /\ db' = db /\ r \in Requests /\ KeyOf[r] \in Keys
    BY <1>1, <1>6, CommandLogAssumption DEF StoreReceipt, RequestsOK, At
  <2>2. Receipt("accepted", r) \in Receipts
    BY <2>1, ReceiptsDiffer
  <2>3. /\ draft'.events = draft.events
        /\ draft'.receipts = [draft.receipts EXCEPT ![KeyOf[r]] = Receipt("accepted", r)]
    BY <1>2, <1>6, <2>1, <2>2, ReceiptUpdate DEF StoreReceipt
  <2>4. call'[c].step = "recorded" /\ call'[c].request = r
    BY <1>1, <1>6, CallSteps DEF StoreReceipt, Steps
  <2> QED
    BY <1>1, <2>1, <2>3, <2>4 DEF TransactionOK, At
<1>7. CASE Rebuild(c)
  <2>1. At(c, "rebuilding") /\ db' = db
    BY <1>7 DEF Rebuild
  <2>2. draft'.events = draft.events /\ draft'.receipts = draft.receipts
    BY <1>2, <1>7, ReplayedType, DatabaseParts, ProjectionUpdate DEF Rebuild
  <2>3. call'[c].step = "rebuilt"
    BY <1>1, <1>7, CallSteps DEF Rebuild, Steps
  <2> QED
    BY <1>1, <2>1, <2>2, <2>3 DEF TransactionOK, At
<1>8. ASSUME Step(c) \/ BeginRebuild(c) \/ Fail(c) \/ Die(c)
      PROVE  \/ Begin(c) \/ BeginRebuild(c) \/ AppendEvents(c)
             \/ Project(c) \/ StoreReceipt(c) \/ Rebuild(c)
  <2>1. CASE Busy(c) \/ Answer(c) \/ CommitRebuild(c) \/ Fail(c) \/ Die(c)
    BY <1>1, <2>1, CallReturns DEF Busy, Answer, CommitRebuild, Fail, Die, InTransaction
  <2>2. CASE Replay(c) \/ Reject(c) \/ Commit(c)
    BY <1>1, <2>2 DEF Replay, Reject, Commit, Decides, TypeOK, InTransaction
  <2> QED
    BY <1>8, <2>1, <2>2 DEF Step
<1>9. CASE UNCHANGED <<db, draft>> /\ call'[c] = call[c]
  BY <1>1, <1>9 DEF TransactionOK
<1>10. ASSUME NEW d \in Clients \ {c}, Step(d) \/ BeginRebuild(d) \/ Fail(d) \/ Die(d)
       PROVE  TransactionOK(c)'
  BY <1>1, <1>9, <1>10, OthersWait
<1>11. ASSUME NEW d \in Clients, NEW q \in Requests, Call(d, q)
       PROVE  TransactionOK(c)'
  <2>1. d # c
    BY <1>1, <1>11 DEF Call, TypeOK, InTransaction
  <2>2. call'[c] = call[c] /\ UNCHANGED <<db, draft>>
    BY <1>1, <1>11, <2>1 DEF Call, TypeOK
  <2> QED
    BY <1>9, <2>2
<1>12. ASSUME NEW s \in Streams, Damage(s)
       PROVE  FALSE
  <2>1. lock = Nobody /\ call' = call
    BY <1>12 DEF Damage
  <2>2. lock = c /\ c # Nobody
    BY <1>1, <2>1, CommandLogAssumption DEF DraftOK, InTransaction
  <2> QED
    BY <2>1, <2>2
<1>13. CASE UNCHANGED <<db, draft, call>>
  BY <1>9, <1>13
<1> QED
  BY <1>3, <1>4, <1>5, <1>6, <1>7, <1>8, <1>10, <1>11, <1>12, <1>13 DEF Next, Refuse, ReadTable, vars

-----------------------------------------------------------------------------
(* What a step does to what is committed, told and read.                   *)

SameLog == db'.events = db.events /\ db'.receipts = db.receipts

Adds(r) ==
  /\ r \in Valid /\ db.receipts[KeyOf[r]] = NoReceipt /\ Permits(r, Accepted(db.events))
  /\ db'.events = Appended(db.events, r)
  /\ db'.receipts = [db.receipts EXCEPT ![KeyOf[r]] = Receipt("accepted", r)]
  /\ db'.projection = Replayed(db'.events)
  /\ UNCHANGED <<answers, view>>

Declines(r) ==
  /\ r \in Valid /\ db.receipts[KeyOf[r]] = NoReceipt /\ ~ Permits(r, Accepted(db.events))
  /\ db'.events = db.events /\ db'.projection = db.projection
  /\ db'.receipts = [db.receipts EXCEPT ![KeyOf[r]] = Receipt("rejected", r)]
  /\ UNCHANGED <<answers, view>>

\* The answer to r that the stored receipts give.
StoredAnswer(r) ==
  IF r \notin Valid THEN "invalid"
  ELSE IF db.receipts[KeyOf[r]].by = r THEN db.receipts[KeyOf[r]].status ELSE "conflict"

Tells(r) ==
  /\ r \in Valid => db.receipts[KeyOf[r]] # NoReceipt
  /\ answers' = answers \cup {<<r, StoredAnswer(r)>>}
  /\ UNCHANGED <<db, view>>

Mends == SameLog /\ db'.projection = Replayed(db'.events) /\ UNCHANGED <<answers, view>>

Breaks(s) ==
  /\ s \in Fragile /\ SameLog /\ db'.projection = [db.projection EXCEPT ![s] = {}]
  /\ UNCHANGED <<answers, view>>

Effect ==
  \/ \E r \in Requests : Adds(r) \/ Declines(r) \/ Tells(r)
  \/ Mends \/ \E s \in Streams : Breaks(s)
  \/ \E v \in Readers : ReadTable(v)
  \/ UNCHANGED <<db, answers, view>>

\* No step does anything else.
LEMMA Effects == TransactionInv /\ [Next]_vars => Effect
<1> SUFFICES ASSUME TransactionInv, [Next]_vars PROVE Effect
  OBVIOUS
<1>1. /\ TypeOK /\ RequestsOK /\ Consistent(db) /\ Valid \subseteq Requests
      /\ \A c \in Clients : DraftOK(c) /\ DecisionOK(c) /\ TransactionOK(c)
      /\ \A c \in Clients : call[c].step \in {"projected", "recorded", "rebuilt"} =>
           draft.projection = Replayed(draft.events)
  BY CommandLogAssumption DEF TransactionInv, RepairInv, AnswerInv, TypeInv
<1>2. ASSUME NEW c \in Clients, Commit(c)
      PROVE  Effect
  <2>1. At(c, "recorded") /\ db' = draft /\ UNCHANGED <<answers, view>>
    BY <1>2 DEF Commit, Publishes
  <2>2. call[c].request \in Valid
    BY <1>1, <2>1 DEF RequestsOK, At
  <2>3. Adds(call[c].request)
    BY <1>1, <2>1, <2>2 DEF Adds, TransactionOK, At
  <2> QED
    BY <1>1, <2>2, <2>3 DEF Effect
<1>3. ASSUME NEW c \in Clients, Reject(c)
      PROVE  Effect
  <2> DEFINE r == call[c].request
  <2>1. r \in Valid /\ r \in Requests /\ KeyOf[r] \in Keys /\ draft = db
    BY <1>1, <1>3, CommandLogAssumption DEF Reject, At, RequestsOK, DraftOK, InTransaction
  <2>2. /\ db' = [db EXCEPT !.receipts[KeyOf[r]] = Receipt("rejected", r)]
        /\ db.receipts[KeyOf[r]] = NoReceipt /\ ~ Permits(r, Accepted(db.events))
        /\ UNCHANGED <<answers, view>>
    BY <1>3, <2>1 DEF Reject, Publishes
  <2>3. db \in Databases /\ Receipt("rejected", r) \in Receipts
    BY <1>1, <2>1, ReceiptsDiffer DEF TypeOK
  <2>4. /\ db'.events = db.events /\ db'.projection = db.projection
        /\ db'.receipts = [db.receipts EXCEPT ![KeyOf[r]] = Receipt("rejected", r)]
    BY <2>1, <2>2, <2>3, ReceiptUpdate
  <2> QED
    BY <2>1, <2>2, <2>4 DEF Effect, Declines
<1>4. ASSUME NEW c \in Clients, Answer(c)
      PROVE  Effect
  <2> DEFINE r == call[c].request
             a == call[c].answer
  <2>1. /\ r \in Valid /\ r \in Requests /\ KeyOf[r] \in Keys
        /\ a \in {"accepted", "rejected", "conflict"} /\ Kept(r, a)
    BY <1>1, <1>4, CommandLogAssumption DEF Answer, At, RequestsOK, DecisionOK, TypeOK
  <2>2. answers' = answers \cup {<<r, a>>} /\ UNCHANGED <<db, view>>
    BY <1>4 DEF Answer
  <2>3. /\ Receipt("accepted", r) # NoReceipt /\ Receipt("rejected", r) # NoReceipt
        /\ Receipt("accepted", r).by = r /\ Receipt("accepted", r).status = "accepted"
        /\ Receipt("rejected", r).by = r /\ Receipt("rejected", r).status = "rejected"
    BY <2>1, ReceiptsDiffer
  <2>4. db.receipts[KeyOf[r]] # NoReceipt /\ StoredAnswer(r) = a
    <3>1. CASE a = "accepted"
      <4>1. db.receipts[KeyOf[r]] = Receipt("accepted", r)
        BY <1>1, <2>1, <3>1 DEF Kept, Consistent
      <4> QED
        BY <2>1, <2>3, <3>1, <4>1 DEF StoredAnswer
    <3>2. CASE a = "rejected"
      <4>1. db.receipts[KeyOf[r]] = Receipt("rejected", r)
        BY <2>1, <3>2 DEF Kept
      <4> QED
        BY <2>1, <2>3, <3>2, <4>1 DEF StoredAnswer
    <3>3. CASE a = "conflict"
      <4>1. db.receipts[KeyOf[r]] # NoReceipt /\ db.receipts[KeyOf[r]].by # r
        BY <2>1, <3>3 DEF Kept
      <4> QED
        BY <2>1, <3>3, <4>1 DEF StoredAnswer
    <3> QED
      BY <2>1, <3>1, <3>2, <3>3
  <2> QED
    BY <2>1, <2>2, <2>4 DEF Effect, Tells
<1>5. ASSUME NEW c \in Clients, CommitRebuild(c)
      PROVE  Effect
  <2>1. At(c, "rebuilt") /\ db' = draft /\ UNCHANGED <<answers, view>>
    BY <1>5 DEF CommitRebuild, Publishes
  <2> QED
    BY <1>1, <2>1 DEF Effect, Mends, SameLog, TransactionOK, At
<1>6. ASSUME NEW r \in Requests, Refuse(r)
      PROVE  Effect
  BY <1>6 DEF Effect, Tells, StoredAnswer, Refuse
<1>7. ASSUME NEW s \in Streams, Damage(s)
      PROVE  Effect
  <2>1. db \in Databases
    BY <1>1 DEF TypeOK
  <2>2. /\ db' = [db EXCEPT !.projection[s] = {}] /\ s \in Fragile
        /\ UNCHANGED <<answers, view>>
    BY <1>7 DEF Damage
  <2>3. /\ db'.events = db.events /\ db'.receipts = db.receipts
        /\ db'.projection = [db.projection EXCEPT ![s] = {}]
    BY <2>1, <2>2 DEF Databases
  <2> QED
    BY <2>2, <2>3 DEF Effect, Breaks, SameLog
<1>8. ASSUME NEW v \in Readers, ReadTable(v)
      PROVE  Effect
  BY <1>8 DEF Effect
<1>9. CASE UNCHANGED <<db, answers, view>>
  BY <1>9 DEF Effect
<1> QED
  BY <1>2, <1>3, <1>4, <1>5, <1>6, <1>7, <1>8, <1>9 DEF Next, Step, Begin, Busy, Replay, AppendEvents,
    Project, StoreReceipt, Rebuild, BeginRebuild, Fail, Die, Call, Unlocks, vars

-----------------------------------------------------------------------------
(* The committed log.                                                      *)

\* Each request of the log was allowed by those before it.
DecidedInOrder(order) ==
  \A i \in DOMAIN order : Permits(order[i], {order[k] : k \in 1..(i - 1)})

WholeLog(events) ==
  /\ \A q \in Accepted(events) : \E n \in 0..Len(events) : Together(events, q, n)
  /\ VersionsCount(events)
  /\ OrderOK(events) /\ DecidedInOrder(Order(events))

LEMMA WholeLogEmpty == WholeLog(<<>>) /\ Order(<<>>) = <<>>
<1>1. Accepted(<<>>) = {}
  BY DEF Accepted
<1>2. IsFiniteSet({}) /\ Cardinality({}) = 0
  BY FS_EmptySet
<1>3. Order(<<>>) = [n \in 1..0 |-> CHOOSE r \in Requests : r \in InPlace(<<>>, n)]
  BY <1>1, <1>2 DEF Order
<1>4. Order(<<>>) = <<>>
  <2>1. 1..0 = {}
    OBVIOUS
  <2>2. Order(<<>>) \in [1..0 -> Requests]
    BY <1>3, <2>1
  <2>3. Order(<<>>) \in Seq(Requests) /\ Len(Order(<<>>)) = 0
    BY <1>3, <2>2
  <2> QED
    BY <2>3, EmptySeq
<1>5. OrderOK(<<>>)
  <2>1. DOMAIN Order(<<>>) = {}
    BY <1>4
  <2>2. {Order(<<>>)[k] : k \in DOMAIN Order(<<>>)} = {}
    BY <2>1
  <2>3. Order(<<>>) \in Seq(Requests) /\ Len(Order(<<>>)) = 0
    BY <1>4, EmptySeq
  <2> QED
    BY <1>1, <1>2, <2>2, <2>3 DEF OrderOK
<1>6. VersionsCount(<<>>) /\ DecidedInOrder(<<>>)
  BY DEF VersionsCount, DecidedInOrder
<1> QED
  BY <1>1, <1>4, <1>5, <1>6 DEF WholeLog

LEMMA WholeLogAfter ==
  ASSUME NEW events \in Seq(Events), NEW r \in Requests \ Accepted(events),
         WholeLog(events), Permits(r, Accepted(events))
  PROVE  WholeLog(Appended(events, r)) /\ Order(Appended(events, r)) = Append(Order(events), r)
<1>1. PICK all : all = Appended(events, r)
  OBVIOUS
<1>2. PICK order : order = Order(events)
  OBVIOUS
<1>3. Accepted(all) = Accepted(events) \cup {r} /\ Accepted(events) \subseteq Requests
  <2>1. ASSUME NEW q \in Accepted(events)
        PROVE  q \in Requests
    <3>1. PICK i \in DOMAIN events : events[i].by = q
      BY DEF Accepted
    <3>2. events[i] \in Events
      BY <3>1, ElementOfSeq, AppendedEvents
    <3> QED
      BY <3>1, <3>2 DEF Events
  <2> QED
    BY <1>1, <2>1, AppendedType
<1>4. Len(events) \in Nat /\ Len(all) \in Nat /\ Len(events) <= Len(all)
  BY <1>1, AppendedEvents
<1>5. ASSUME NEW q \in Accepted(all)
      PROVE  \E n \in 0..Len(all) : Together(all, q, n)
  <2>1. CASE q = r
    BY <1>1, <1>4, <2>1, TogetherAfter
  <2>2. CASE q # r
    <3>1. PICK n \in 0..Len(events) : Together(events, q, n)
      BY <1>3, <2>2 DEF WholeLog
    <3>2. Together(all, q, n)
      BY <1>1, <1>3, <2>2, <3>1, TogetherAfter
    <3> QED
      BY <1>4, <3>2
  <2> QED
    BY <2>1, <2>2
<1>6. VersionsCount(all)
  BY <1>1, VersionsAfter DEF WholeLog
<1>7. OrderOK(all) /\ Order(all) = Append(order, r)
  BY <1>1, <1>2, OrderAfter DEF WholeLog
<1>8. DecidedInOrder(Append(order, r))
  <2>1. order \in Seq(Requests) /\ {order[k] : k \in DOMAIN order} = Accepted(events)
    BY <1>2 DEF WholeLog, OrderOK
  <2>2. PICK n \in Nat : n = Len(order) /\ DOMAIN order = 1..n
    BY <2>1, LenProperties
  <2>3. /\ DOMAIN Append(order, r) = 1..(n + 1)
        /\ \A k \in 1..n : Append(order, r)[k] = order[k]
        /\ Append(order, r)[n + 1] = r
    <3>1. Append(order, r) \in Seq(Requests) /\ Len(Append(order, r)) = n + 1
      BY <2>1, <2>2, AppendProperties
    <3> QED
      BY <2>1, <2>2, <3>1, AppendProperties, LenProperties
  <2>4. ASSUME NEW i \in 1..n
        PROVE  Permits(Append(order, r)[i], {Append(order, r)[k] : k \in 1..(i - 1)})
    <3>1. Permits(order[i], {order[k] : k \in 1..(i - 1)})
      BY <1>2, <2>2 DEF WholeLog, DecidedInOrder
    <3>2. \A k \in 1..(i - 1) : Append(order, r)[k] = order[k]
      BY <2>3
    <3>3. {Append(order, r)[k] : k \in 1..(i - 1)} = {order[k] : k \in 1..(i - 1)}
      BY <3>2
    <3> QED
      BY <2>3, <3>1, <3>3
  <2>5. Permits(Append(order, r)[n + 1], {Append(order, r)[k] : k \in 1..((n + 1) - 1)})
    <3>1. (n + 1) - 1 = n
      OBVIOUS
    <3>2. {Append(order, r)[k] : k \in 1..n} = {order[k] : k \in 1..n}
      BY <2>3
    <3>3. {order[k] : k \in 1..n} = Accepted(events)
      BY <2>1, <2>2
    <3> QED
      BY <2>3, <3>1, <3>2, <3>3
  <2>6. \A i \in 1..(n + 1) : i \in 1..n \/ i = n + 1
    OBVIOUS
  <2> QED
    BY <2>3, <2>4, <2>5, <2>6 DEF DecidedInOrder
<1> QED
  BY <1>1, <1>2, <1>5, <1>6, <1>7, <1>8 DEF WholeLog

-----------------------------------------------------------------------------
(* Tables and readers.                                                     *)

\* A table is as the log replays, or was damaged.
TablesOK ==
  \A s \in Streams : \/ db.projection[s] = Replayed(db.events)[s]
                     \/ s \in Fragile /\ db.projection[s] = {}

LogShape ==
  /\ TransactionInv
  /\ WholeLog(db.events)
  /\ TablesOK
  /\ ReadersGoForward

\* The lengths after a commit remain such, and readers saw what the log still has.
LEMMA ReadersStay ==
  ASSUME db.events \in Seq(Events), NEW r \in Requests \ Accepted(db.events),
         db'.events = Appended(db.events, r), view' = view, ReadersGoForward
  PROVE  ReadersGoForward'
<1>1. PICK events \in Seq(Events) : events = db.events
  OBVIOUS
<1>2. PICK all : all = db'.events /\ all = Appended(events, r)
  BY <1>1
<1>3. PICK m \in Nat : m = Len(events) /\ DOMAIN events = 1..m
  BY AppendedEvents
<1>4. PICK n \in Nat \ {0} : Len(all) = m + n
  <2>1. Len(Writes[r]) \in Nat \ {0} /\ Len(Appended(events, r)) = Len(events) + Len(Writes[r])
    BY AppendedEvents
  <2> QED
    BY <1>2, <1>3, <2>1
<1>5. \A i \in 1..m : all[i] = events[i]
  BY <1>1, <1>2, <1>3, AppendedEvents
<1>6. all[m + 1].by = r
  <2>1. 1 \in 1..Len(Writes[r])
    BY <1>1, AppendedEvents
  <2>2. all[m + 1] =
          [stream |-> Writes[r][1], by |-> r,
           version |-> VersionOf(events, Writes[r][1])
                         + Cardinality({j \in 1..1 : Writes[r][j] = Writes[r][1]})]
    <3>1. \A i \in 1..Len(Writes[r]) :
            Appended(events, r)[Len(events) + i] =
              [stream |-> Writes[r][i], by |-> r,
               version |-> VersionOf(events, Writes[r][i])
                             + Cardinality({j \in 1..i : Writes[r][j] = Writes[r][i]})]
      BY AppendedEvents
    <3> QED
      BY <1>2, <1>3, <2>1, <3>1
  <2> QED
    BY <2>2
<1>7. \A i \in 1..m : events[i].by # r
  BY <1>1, <1>3 DEF Accepted
<1>8. /\ Commits = {k \in 0..m : k \in 1..(m - 1) => events[k].by # events[k + 1].by}
      /\ Commits' = {k \in 0..(m + n) : k \in 1..(m + n - 1) => all[k].by # all[k + 1].by}
  BY <1>1, <1>2, <1>3, <1>4 DEF Commits
<1>9. ASSUME NEW k \in Commits
      PROVE  k \in Commits' /\ k \in 0..m
  <2>1. k \in 0..m /\ (k \in 1..(m - 1) => events[k].by # events[k + 1].by)
    BY <1>8
  <2>2. CASE k = m
    <3>1. k \in 1..(m + n - 1) => all[k].by # all[k + 1].by
      BY <1>5, <1>6, <1>7, <2>2
    <3> QED
      BY <1>8, <2>2, <3>1
  <2>3. CASE k # m
    <3>1. k \in 1..(m + n - 1) => k \in 1..(m - 1) /\ k + 1 \in 1..m /\ k \in 1..m
      BY <2>1, <2>3
    <3>2. k \in 1..(m + n - 1) => all[k].by # all[k + 1].by
      BY <1>5, <2>1, <3>1
    <3>3. k \in 0..(m + n)
      BY <2>1
    <3> QED
      BY <1>8, <2>1, <3>2, <3>3
  <2> QED
    BY <2>2, <2>3
<1>10. ASSUME NEW v \in Readers
       PROVE  \E at \in [DOMAIN view'[v] -> Commits'] :
                ReadAt(v, at)' /\ \A i, k \in DOMAIN at : i < k => at[i] <= at[k]
  <2>1. PICK at \in [DOMAIN view[v] -> Commits] :
          ReadAt(v, at) /\ \A i, k \in DOMAIN at : i < k => at[i] <= at[k]
    BY DEF ReadersGoForward
  <2>2. at \in [DOMAIN view'[v] -> Commits']
    BY <1>9, <2>1
  <2>3. ASSUME NEW i \in DOMAIN view[v]
        PROVE  SubSeq(all, 1, at[i]) = SubSeq(events, 1, at[i])
    BY <1>1, <1>2, <1>3, <1>9, <2>1, PrefixStays
  <2>4. ReadAt(v, at)'
    <3>1. ASSUME NEW i \in DOMAIN view[v]
          PROVE  \/ view[v][i] = Replayed(SubSeq(all, 1, at[i]))[Tables[i]]
                 \/ Tables[i] \in Fragile /\ view[v][i] = {}
      BY <1>1, <2>1, <2>3 DEF ReadAt
    <3> QED
      BY <1>2, <3>1 DEF ReadAt
  <2> QED
    BY <2>1, <2>2, <2>4
<1> QED
  BY <1>10 DEF ReadersGoForward

\* The table that is read next is one of the log as it is now, or damaged.
LEMMA ReadersAdvance ==
  ASSUME TypeOK, TablesOK, ReadersGoForward, NEW v \in Readers, ReadTable(v)
  PROVE  ReadersGoForward'
<1>1. PICK m \in Nat : m = Len(db.events)
  BY AppendedEvents, DatabaseParts DEF TypeOK
<1>2. db' = db /\ Commits' = Commits /\ m \in Commits /\ Commits \subseteq 0..m
  BY <1>1 DEF ReadTable, Commits
<1>3. view \in [Readers -> Seq(SUBSET Events)] /\ Tables \in Seq(Streams)
  BY CommandLogAssumption DEF TypeOK
<1>4. PICK n \in Nat : n = Len(view[v]) /\ DOMAIN view[v] = 1..n
  BY <1>3, LenProperties
<1>5. Tables[n + 1] \in Streams
  <2>1. n + 1 \in 1..Len(Tables)
    BY <1>3, <1>4, LenProperties DEF ReadTable
  <2> QED
    BY <1>3, <2>1, ElementOfSeq
<1>6. PICK table : table = db.projection[Tables[n + 1]]
  OBVIOUS
<1>7. table \in SUBSET Events
  <2>1. db.projection \in [Streams -> SUBSET Events]
    BY DatabaseParts DEF TypeOK
  <2> QED
    BY <1>5, <1>6, <2>1
<1>8. view' = [view EXCEPT ![v] = Append(view[v], table)]
  BY <1>4, <1>6 DEF ReadTable
<1>9. view'[v] = Append(view[v], table) /\ \A u \in Readers \ {v} : view'[u] = view[u]
  BY <1>3, <1>8
<1>10. /\ DOMAIN view'[v] = 1..(n + 1)
       /\ \A i \in 1..n : view'[v][i] = view[v][i]
       /\ view'[v][n + 1] = table
  <2>1. view[v] \in Seq(SUBSET Events)
    BY <1>3
  <2>2. Append(view[v], table) \in Seq(SUBSET Events) /\ Len(Append(view[v], table)) = n + 1
    BY <1>4, <1>7, <2>1, AppendProperties
  <2> QED
    BY <1>4, <1>7, <1>9, <2>1, <2>2, AppendProperties, LenProperties
<1>11. \/ table = Replayed(SubSeq(db.events, 1, m))[Tables[n + 1]]
       \/ Tables[n + 1] \in Fragile /\ table = {}
  <2>1. db.events \in Seq(Events)
    BY DatabaseParts DEF TypeOK
  <2>2. SubSeq(db.events, 1, m) = db.events
    BY <1>1, <2>1
  <2> QED
    BY <1>5, <1>6, <2>2 DEF TablesOK
<1>12. ASSUME NEW u \in Readers \ {v}
       PROVE  \E at \in [DOMAIN view'[u] -> Commits'] :
                ReadAt(u, at)' /\ \A i, k \in DOMAIN at : i < k => at[i] <= at[k]
  <2>1. PICK at \in [DOMAIN view[u] -> Commits] :
          ReadAt(u, at) /\ \A i, k \in DOMAIN at : i < k => at[i] <= at[k]
    BY DEF ReadersGoForward
  <2>2. ReadAt(u, at)'
    BY <1>2, <1>9, <2>1 DEF ReadAt
  <2> QED
    BY <1>2, <1>9, <2>1, <2>2
<1>13. \E at \in [DOMAIN view'[v] -> Commits'] :
         ReadAt(v, at)' /\ \A i, k \in DOMAIN at : i < k => at[i] <= at[k]
  <2>1. PICK at \in [1..n -> Commits] :
          ReadAt(v, at) /\ \A i, k \in 1..n : i < k => at[i] <= at[k]
    BY <1>4 DEF ReadersGoForward
  <2> DEFINE after == [i \in 1..(n + 1) |-> IF i = n + 1 THEN m ELSE at[i]]
  <2>2. \A i \in 1..(n + 1) : i = n + 1 \/ (i \in 1..n /\ i # n + 1)
    OBVIOUS
  <2>3. after[n + 1] = m /\ \A i \in 1..n : after[i] = at[i]
    OBVIOUS
  <2>4. after \in [1..(n + 1) -> Commits]
    BY <1>2, <2>1, <2>2
  <2> HIDE DEF after
  <2>5. ASSUME NEW i \in 1..(n + 1)
        PROVE  \/ view'[v][i] = Replayed(SubSeq(db'.events, 1, after[i]))[Tables[i]]
               \/ Tables[i] \in Fragile /\ view'[v][i] = {}
    <3>1. CASE i = n + 1
      BY <1>2, <1>10, <1>11, <2>3, <3>1
    <3>2. CASE i \in 1..n
      BY <1>2, <1>4, <1>10, <2>1, <2>3, <3>2 DEF ReadAt
    <3> QED
      BY <2>2, <3>1, <3>2
  <2>6. ReadAt(v, after)'
    BY <1>10, <2>5 DEF ReadAt
  <2>7. ASSUME NEW i \in 1..(n + 1), NEW k \in 1..(n + 1), i < k
        PROVE  after[i] <= after[k]
    <3>1. i \in 1..n
      BY <2>7
    <3>4. at[i] \in 0..m
      BY <1>2, <2>1, <3>1
    <3>2. CASE k = n + 1
      BY <2>3, <3>1, <3>2, <3>4
    <3>3. CASE k \in 1..n
      BY <2>1, <2>3, <2>7, <3>1, <3>3
    <3> QED
      BY <2>2, <3>2, <3>3
  <2>8. DOMAIN after = 1..(n + 1)
    BY <2>4
  <2>9. \A i, k \in DOMAIN after : i < k => after[i] <= after[k]
    BY <2>7, <2>8
  <2> QED
    BY <1>2, <1>10, <2>4, <2>6, <2>9
<1> QED
  BY <1>12, <1>13 DEF ReadersGoForward

LEMMA LogShapeInit == Init => LogShape
<1> SUFFICES ASSUME Init PROVE LogShape
  OBVIOUS
<1>1. db.events = <<>> /\ \A s \in Streams : db.projection[s] = {}
  BY DEF Init, Empty
<1>2. TablesOK
  BY <1>1 DEF TablesOK, Replayed
<1>3. ReadersGoForward
  <2>1. ASSUME NEW v \in Readers
        PROVE  \E at \in [DOMAIN view[v] -> Commits] :
                 ReadAt(v, at) /\ \A i, k \in DOMAIN at : i < k => at[i] <= at[k]
    <3>1. DOMAIN view[v] = {}
      BY DEF Init
    <3>2. PICK at : at = [i \in {} |-> 0]
      OBVIOUS
    <3>3. at \in [DOMAIN view[v] -> Commits] /\ DOMAIN at = {}
      BY <3>1, <3>2
    <3>4. ReadAt(v, at)
      BY <3>1 DEF ReadAt
    <3> QED
      BY <3>3, <3>4
  <2> QED
    BY <2>1 DEF ReadersGoForward
<1> QED
  BY <1>1, <1>2, <1>3, WholeLogEmpty, TransactionInvInit DEF LogShape

LEMMA LogShapeStep == LogShape /\ [Next]_vars => LogShape'
<1> SUFFICES ASSUME LogShape, [Next]_vars PROVE LogShape'
  OBVIOUS
<1>1. TransactionInv' /\ Effect
  BY TransactionInvStep, Effects DEF LogShape
<1>2. TypeOK /\ TypeOK' /\ Consistent(db) /\ db \in Databases
  BY <1>1 DEF LogShape, TransactionInv, RepairInv, AnswerInv, TypeInv, TypeOK
<1>3. db.events \in Seq(Events) /\ db.projection \in [Streams -> SUBSET Events]
  BY <1>2, DatabaseParts
<1>4. ASSUME db'.events = db.events, view' = view
      PROVE  WholeLog(db.events)' /\ ReadersGoForward'
  <2>1. Commits' = Commits
    BY <1>4 DEF Commits
  <2>2. ReadersGoForward'
    BY <1>4, <2>1 DEF LogShape, ReadersGoForward, ReadAt
  <2>3. WholeLog(db'.events)
    BY <1>4 DEF LogShape
  <2> QED
    BY <2>2, <2>3
<1>5. ASSUME NEW r \in Requests, Adds(r)
      PROVE  LogShape'
  <2>1. r \notin Accepted(db.events)
    BY <1>2, <1>5, ReceiptsDiffer DEF Adds, Consistent
  <2>2. WholeLog(db'.events)
    BY <1>3, <1>5, <2>1, WholeLogAfter DEF Adds, LogShape
  <2>3. ReadersGoForward'
    BY <1>3, <1>5, <2>1, ReadersStay DEF Adds, LogShape
  <2>4. TablesOK'
    BY <1>5 DEF Adds, TablesOK
  <2> QED
    BY <1>1, <2>2, <2>3, <2>4 DEF LogShape
<1>6. ASSUME NEW r \in Requests, Declines(r)
      PROVE  LogShape'
  <2>1. TablesOK'
    BY <1>6 DEF Declines, TablesOK, LogShape
  <2> QED
    BY <1>1, <1>4, <1>6, <2>1 DEF Declines, LogShape
<1>7. ASSUME NEW r \in Requests, Tells(r)
      PROVE  LogShape'
  <2>1. TablesOK'
    BY <1>7 DEF Tells, TablesOK, LogShape
  <2> QED
    BY <1>1, <1>4, <1>7, <2>1 DEF Tells, LogShape
<1>8. CASE Mends
  <2>1. TablesOK'
    BY <1>8 DEF Mends, TablesOK
  <2> QED
    BY <1>1, <1>4, <1>8, <2>1 DEF Mends, SameLog, LogShape
<1>9. ASSUME NEW s \in Streams, Breaks(s)
      PROVE  LogShape'
  <2>1. TablesOK'
    BY <1>3, <1>9 DEF Breaks, SameLog, TablesOK, LogShape
  <2> QED
    BY <1>1, <1>4, <1>9, <2>1 DEF Breaks, SameLog, LogShape
<1>10. ASSUME NEW v \in Readers, ReadTable(v)
       PROVE  LogShape'
  <2>1. ReadersGoForward'
    BY <1>2, <1>10, ReadersAdvance DEF LogShape
  <2>2. db' = db
    BY <1>10 DEF ReadTable
  <2>3. TablesOK' /\ WholeLog(db'.events)
    BY <2>2 DEF TablesOK, LogShape
  <2> QED
    BY <1>1, <2>1, <2>3 DEF LogShape
<1>11. CASE UNCHANGED <<db, answers, view>>
  <2>1. TablesOK'
    BY <1>11 DEF TablesOK, LogShape
  <2> QED
    BY <1>1, <1>4, <1>11, <2>1 DEF LogShape
<1> QED
  BY <1>1, <1>5, <1>6, <1>7, <1>8, <1>9, <1>10, <1>11 DEF Effect

LEMMA LogShapeWhole == LogShape => LogInv
<1> SUFFICES ASSUME LogShape PROVE LogInv
  OBVIOUS
<1>1. Consistent(db) /\ WholeLog(db.events) /\ ReadersGoForward
  BY DEF LogShape, TransactionInv, RepairInv, AnswerInv
<1>2. ASSUME NEW r \in Requests
      PROVE  IF db.receipts[KeyOf[r]] = Receipt("accepted", r)
             THEN \E n \in 0..Len(db.events) : Together(db.events, r, n)
             ELSE EventsOf(db.events, r) = {}
  <2>1. CASE r \in Accepted(db.events)
    BY <1>1, <2>1 DEF Consistent, WholeLog
  <2>2. CASE r \notin Accepted(db.events)
    <3>1. EventsOf(db.events, r) = {}
      BY <2>2 DEF Accepted, EventsOf
    <3> QED
      BY <1>1, <2>2, <3>1 DEF Consistent
  <2> QED
    BY <2>1, <2>2
<1>3. EventsAreWhole
  BY <1>1, <1>2 DEF EventsAreWhole, WholeLog, VersionsCount
<1>4. DecidedOnTheLog
  BY <1>1 DEF DecidedOnTheLog, WholeLog, DecidedInOrder
<1> QED
  BY <1>1, <1>3, <1>4 DEF LogInv

\* Whatever processes, failures and crashes interleave, the committed log holds
\* the events of a request all together or not at all, exactly for the accepting
\* receipts; every request in it was allowed by just the requests before it; and
\* a reader never sees a table that was never committed, nor an older after a newer.
THEOREM LogInvHolds == Spec => []LogInv
  BY LogShapeInit, LogShapeStep, LogShapeWhole, PTL DEF Spec

-----------------------------------------------------------------------------
(* Execute is one atomic step.                                             *)

LEMMA AtomicInit == Init => Atomic!Init
<1> SUFFICES ASSUME Init PROVE Atomic!Init
  OBVIOUS
<1>1. db.events = <<>> /\ db.receipts = [k \in Keys |-> NoReceipt] /\ answers = {}
  BY DEF Init, Empty
<1>2. Order(db.events) = <<>>
  BY <1>1, WholeLogEmpty
<1> QED
  BY <1>1, <1>2 DEF Atomic!Init, Atomic!Unused, NoReceipt

LEMMA AtomicStep == LogShape /\ [Next]_vars => [Atomic!Next]_(Atomic!vars)
<1> SUFFICES ASSUME LogShape, [Next]_vars PROVE [Atomic!Next]_(Atomic!vars)
  OBVIOUS
<1>1. Effect
  BY Effects DEF LogShape
<1>2. db.events \in Seq(Events) /\ Consistent(db)
  BY DatabaseParts DEF LogShape, TransactionInv, RepairInv, AnswerInv, TypeInv, TypeOK
<1>3. \A r : PermitsAfter(r, Order(db.events)) <=> Permits(r, Accepted(db.events))
  BY DEF LogShape, WholeLog, OrderOK, PermitsAfter
<1>4. ASSUME NEW r \in Requests, Adds(r)
      PROVE  Atomic!Execute(r)
  <2>1. r \notin Accepted(db.events)
    BY <1>2, <1>4, ReceiptsDiffer DEF Adds, Consistent
  <2>2. Order(db'.events) = Append(Order(db.events), r)
    BY <1>2, <1>4, <2>1, WholeLogAfter DEF Adds, LogShape
  <2> QED
    BY <1>3, <1>4, <2>2 DEF Adds, Atomic!Execute, Atomic!Unused, NoReceipt, Receipt
<1>5. ASSUME NEW r \in Requests, Declines(r)
      PROVE  Atomic!Execute(r)
  <2>1. Order(db'.events) = Order(db.events)
    BY <1>5 DEF Declines
  <2> QED
    BY <1>3, <1>5, <2>1 DEF Declines, Atomic!Execute, Atomic!Unused, NoReceipt, Receipt
<1>6. ASSUME NEW r \in Requests, Tells(r)
      PROVE  Atomic!Tell(r)
  BY <1>6 DEF Tells, StoredAnswer, Atomic!Tell, Atomic!Answer, Atomic!Unused, NoReceipt
<1>7. ASSUME db'.events = db.events, db'.receipts = db.receipts, answers' = answers
      PROVE  UNCHANGED Atomic!vars
  BY <1>7 DEF Atomic!vars
<1>8. CASE Mends
  BY <1>7, <1>8 DEF Mends, SameLog
<1>9. ASSUME NEW s \in Streams, Breaks(s)
      PROVE  UNCHANGED Atomic!vars
  BY <1>7, <1>9 DEF Breaks, SameLog
<1>10. ASSUME NEW v \in Readers, ReadTable(v)
       PROVE  UNCHANGED Atomic!vars
  BY <1>7, <1>10 DEF ReadTable
<1>11. CASE UNCHANGED <<db, answers, view>>
  BY <1>7, <1>11
<1> QED
  BY <1>1, <1>4, <1>5, <1>6, <1>8, <1>9, <1>10, <1>11 DEF Effect, Atomic!Next

\* However the statements of processes interleave, fail and are cut off, execute
\* and its answers are those of a log on which each command acts in one step.
THEOREM ExecuteIsAtomic == Spec => ImplementsAtomicLog
  BY LogShapeInit, LogShapeStep, AtomicInit, AtomicStep, PTL
     DEF Spec, ImplementsAtomicLog, Atomic!Spec
=============================================================================
