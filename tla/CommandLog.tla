----------------------------- MODULE CommandLog -----------------------------
(***************************************************************************)
(* SqliteKernel.execute and rebuildProjections of                          *)
(* packages/kernel/src/sqlite-kernel.ts, run by several processes on one   *)
(* database in WAL mode, and readProjectionState of projections.ts, which  *)
(* every query is built on.                                                *)
(*                                                                         *)
(* A writer takes the write lock with BEGIN IMMEDIATE, works on its own    *)
(* copy of the database (`draft') and publishes it with COMMIT; readers    *)
(* see what was committed last, at each of their statements anew.          *)
(*                                                                         *)
(* Of the domain the log only knows that a request is decided on the       *)
(* requests accepted before it: it needs some of them and is barred by     *)
(* others.  It appends one event to each of the streams it writes, and a   *)
(* stream has one projection table.                                        *)
(***************************************************************************)
EXTENDS Integers, Sequences, FiniteSets

CONSTANTS
  Clients,   \* processes that call execute and rebuildProjections
  Readers,   \* processes that read the projection
  Nobody,    \* no process, no request
  Requests,  \* the commands that are sent; the request hash is the request
  Valid,     \* requests that the schema accepts
  Keys,      \* idempotency keys
  KeyOf,     \* request -> its key
  Needs,     \* request -> requests that must have been accepted before it
  Bars,      \* request -> requests that must not have been
  Streams,   \* event streams
  Tables,    \* the streams in the order in which readProjectionState reads them
  Writes,    \* request -> the streams of its events, derived events included
  Faulty,    \* processes in which a statement may fail
  Mortal,    \* processes that may die
  Fragile    \* streams whose projection may be damaged from outside

ASSUME CommandLogAssumption ==
  /\ Nobody \notin Clients \cup Requests
  /\ Valid \subseteq Requests
  /\ KeyOf \in [Requests -> Keys]
  /\ Needs \in [Requests -> SUBSET Requests] /\ Bars \in [Requests -> SUBSET Requests]
  /\ Tables \in Seq(Streams) /\ \A s \in Streams : \E i \in DOMAIN Tables : Tables[i] = s
  /\ Writes \in [Requests -> Seq(Streams)] /\ \A r \in Requests : Writes[r] # <<>>
  /\ Faulty \subseteq Clients /\ Mortal \subseteq Clients
  /\ Fragile \subseteq Streams

VARIABLES
  db,       \* what is committed: events, receipts, projection
  lock,     \* the process whose transaction is open
  draft,    \* what that transaction has written
  call,     \* client -> the call it is in
  answers,  \* what clients were answered
  view      \* reader -> the tables it has read so far

vars == <<db, lock, draft, call, answers, view>>

-----------------------------------------------------------------------------
NoReceipt == [status |-> "none"]
Receipt(status, r) == [status |-> status, by |-> r]

NotCalling == [step |-> "idle", request |-> Nobody, answer |-> "none"]

Accepted(events) == {events[i].by : i \in DOMAIN events}

\* decide: on the state that the log replays to.
Permits(r, accepted) == Needs[r] \subseteq accepted /\ Bars[r] \cap accepted = {}

VersionOf(events, s) == Cardinality({i \in DOMAIN events : events[i].stream = s})

\* The events with those of r after them, each with the next version of its stream.
Appended(events, r) ==
  events \o [i \in DOMAIN Writes[r] |->
               [stream |-> Writes[r][i], by |-> r,
                version |-> VersionOf(events, Writes[r][i])
                              + Cardinality({k \in 1..i : Writes[r][k] = Writes[r][i]})]]

\* What the projection tables hold when they were written from these events.
Replayed(events) ==
  [s \in Streams |-> {events[i] : i \in {k \in DOMAIN events : events[k].stream = s}}]

Steps == {"idle", "called", "begun", "appended", "projected", "recorded", "rebuilding",
          "rebuilt", "decided"}

Events == [stream : Streams, by : Requests, version : Nat]

Databases ==
  [events : Seq(Events),
   receipts : [Keys -> {NoReceipt} \cup {Receipt(s, r) : s \in {"accepted", "rejected"}, r \in Requests}],
   projection : [Streams -> SUBSET Events]]

\* What every reachable state looks like.
TypeOK ==
  /\ db \in Databases /\ draft \in Databases
  /\ lock \in Clients \cup {Nobody}
  /\ call \in [Clients ->
       [step : Steps, request : Requests \cup {Nobody},
        answer : {"none", "accepted", "rejected", "conflict"}]]
  /\ answers \subseteq Requests \X {"accepted", "rejected", "conflict", "invalid"}
  /\ view \in [Readers -> Seq(SUBSET Events)]

Empty ==
  [events |-> <<>>, receipts |-> [k \in Keys |-> NoReceipt], projection |-> [s \in Streams |-> {}]]

Init ==
  /\ db = Empty /\ draft = Empty
  /\ lock = Nobody
  /\ call = [c \in Clients |-> NotCalling]
  /\ answers = {}
  /\ view = [v \in Readers |-> <<>>]

-----------------------------------------------------------------------------
At(c, step) == call[c].step = step
Goes(c, step) == call' = [call EXCEPT ![c].step = step]
Returns(c) == call' = [call EXCEPT ![c] = NotCalling]

\* BEGIN IMMEDIATE: waits for the lock; after busy_timeout it throws (Busy).
Locks(c) == lock = Nobody /\ lock' = c /\ draft' = db
\* ROLLBACK, by the process or by SQLite when the process is gone.
Unlocks(c) ==
  /\ IF lock = c THEN lock' = Nobody /\ draft' = Empty ELSE UNCHANGED <<lock, draft>>
  /\ UNCHANGED db
\* COMMIT
Publishes(what) == db' = what /\ lock' = Nobody /\ draft' = Empty

(* execute                                                                 *)

\* An input the schema refuses is answered without a transaction.
Refuse(r) ==
  /\ r \notin Valid
  /\ answers' = answers \cup {<<r, "invalid">>}
  /\ UNCHANGED <<db, lock, draft, call, view>>

Call(c, r) ==
  /\ At(c, "idle") /\ r \in Valid
  /\ call' = [call EXCEPT ![c].step = "called", ![c].request = r]
  /\ UNCHANGED <<db, lock, draft, answers, view>>

Begin(c) ==
  /\ At(c, "called") /\ Locks(c)
  /\ Goes(c, "begun")
  /\ UNCHANGED <<db, answers, view>>

Busy(c) ==
  /\ At(c, "called") /\ lock # Nobody
  /\ Returns(c)
  /\ UNCHANGED <<db, lock, draft, answers, view>>

Decides(c, status) ==
  call' = [call EXCEPT ![c].step = "decided", ![c].answer = status]

\* Fault (AnswersAreKept): any request with the key is given the stored result.
ReplayAnyway(c) ==
  LET r == call[c].request stored == db.receipts[KeyOf[r]] IN
  /\ At(c, "begun") /\ stored # NoReceipt
  /\ Unlocks(c)
  /\ Decides(c, stored.status)
  /\ UNCHANGED <<answers, view>>

\* The key has a receipt: its result again, or a conflict; nothing is written.
Replay(c) ==
  LET r == call[c].request stored == draft.receipts[KeyOf[r]] IN
  /\ At(c, "begun") /\ stored # NoReceipt
  /\ Unlocks(c)
  /\ Decides(c, IF stored.by = r THEN stored.status ELSE "conflict")
  /\ UNCHANGED <<answers, view>>

\* A rejection is stored as well, and committed.
Reject(c) ==
  LET r == call[c].request IN
  /\ At(c, "begun") /\ draft.receipts[KeyOf[r]] = NoReceipt
  /\ ~ Permits(r, Accepted(draft.events))
  /\ Publishes([draft EXCEPT !.receipts[KeyOf[r]] = Receipt("rejected", r)])
  /\ Decides(c, "rejected")
  /\ UNCHANGED <<answers, view>>

AppendEvents(c) ==
  LET r == call[c].request IN
  /\ At(c, "begun") /\ draft.receipts[KeyOf[r]] = NoReceipt
  /\ Permits(r, Accepted(draft.events))
  /\ draft' = [draft EXCEPT !.events = Appended(draft.events, r)]
  /\ Goes(c, "appended")
  /\ UNCHANGED <<db, lock, answers, view>>

\* Fault (CommitsRepair): only the tables the command writes are brought up to date.
ProjectDelta(c) ==
  LET r == call[c].request IN
  /\ At(c, "appended")
  /\ draft' = [draft EXCEPT !.projection =
       [s \in Streams |-> draft.projection[s] \cup {e \in Replayed(draft.events)[s] : e.by = r}]]
  /\ Goes(c, "projected")
  /\ UNCHANGED <<db, lock, answers, view>>

\* writeProjectionState empties and refills all tables.
Project(c) ==
  /\ At(c, "appended")
  /\ draft' = [draft EXCEPT !.projection = Replayed(draft.events)]
  /\ Goes(c, "projected")
  /\ UNCHANGED <<db, lock, answers, view>>

\* Fault (ImplementsAtomicLog): the receipt is stored after the commit.
CommitEarly(c) ==
  /\ At(c, "projected")
  /\ db' = draft
  /\ draft' = [draft EXCEPT !.receipts[KeyOf[call[c].request]] = Receipt("accepted", call[c].request)]
  /\ Goes(c, "recorded")
  /\ UNCHANGED <<lock, answers, view>>

StoreReceipt(c) ==
  /\ At(c, "projected")
  /\ draft' = [draft EXCEPT !.receipts[KeyOf[call[c].request]] = Receipt("accepted", call[c].request)]
  /\ Goes(c, "recorded")
  /\ UNCHANGED <<db, lock, answers, view>>

Commit(c) ==
  /\ At(c, "recorded")
  /\ Publishes(draft)
  /\ Decides(c, "accepted")
  /\ UNCHANGED <<answers, view>>

\* Fault (TypeOK): the answer is sent before the transaction is committed.
AnswerEarly(c) ==
  /\ At(c, "decided") \/ At(c, "recorded")
  /\ answers' = answers \cup {<<call[c].request, call[c].answer>>}
  /\ Returns(c)
  /\ UNCHANGED <<db, lock, draft, view>>

Answer(c) ==
  /\ At(c, "decided")
  /\ answers' = answers \cup {<<call[c].request, call[c].answer>>}
  /\ Returns(c)
  /\ UNCHANGED <<db, lock, draft, view>>

(* rebuildProjections                                                      *)

BeginRebuild(c) ==
  /\ At(c, "idle") /\ Locks(c)
  /\ Goes(c, "rebuilding")
  /\ UNCHANGED <<db, answers, view>>

Rebuild(c) ==
  /\ At(c, "rebuilding")
  /\ draft' = [draft EXCEPT !.projection = Replayed(draft.events)]
  /\ Goes(c, "rebuilt")
  /\ UNCHANGED <<db, lock, answers, view>>

CommitRebuild(c) ==
  /\ At(c, "rebuilt")
  /\ Publishes(draft)
  /\ Returns(c)
  /\ UNCHANGED <<answers, view>>

-----------------------------------------------------------------------------
(* Failures.                                                               *)

InTransaction(c) == call[c].step \notin {"idle", "called", "decided"}

\* Fault (LockIsFreed): a failure after the decision leaves the transaction open.
FailOpen(c) ==
  /\ c \in Faulty /\ InTransaction(c)
  /\ Returns(c)
  /\ UNCHANGED <<db, lock, draft, answers, view>>

\* A statement throws: the transaction is rolled back and so does the call.
Fail(c) ==
  /\ c \in Faulty /\ InTransaction(c)
  /\ Unlocks(c)
  /\ Returns(c)
  /\ UNCHANGED <<answers, view>>

\* The process ends, perhaps between its COMMIT and the answer, and starts again.
Die(c) ==
  /\ c \in Mortal /\ ~ At(c, "idle")
  /\ Unlocks(c)
  /\ Returns(c)
  /\ UNCHANGED <<answers, view>>

\* A projection table is changed from outside the kernel.
Damage(s) ==
  /\ s \in Fragile /\ lock = Nobody /\ db.projection[s] # {}
  /\ db' = [db EXCEPT !.projection[s] = {}]
  /\ UNCHANGED <<lock, draft, call, answers, view>>

-----------------------------------------------------------------------------
(* Readers.                                                                *)

\* Fault (LogInv): tables are read from the open transaction.
ReadDirty(v) ==
  /\ Len(view[v]) < Len(Tables)
  /\ LET seen == IF lock = Nobody THEN db ELSE draft IN
     view' = [view EXCEPT ![v] = Append(view[v], seen.projection[Tables[Len(view[v]) + 1]])]
  /\ UNCHANGED <<db, lock, draft, call, answers>>

\* readProjectionState: one statement for each table, no transaction around them.
ReadTable(v) ==
  /\ Len(view[v]) < Len(Tables)
  /\ view' = [view EXCEPT ![v] = Append(view[v], db.projection[Tables[Len(view[v]) + 1]])]
  /\ UNCHANGED <<db, lock, draft, call, answers>>

Complete(v) == Len(view[v]) = Len(Tables)

Step(c) ==
  \/ Begin(c) \/ Busy(c) \/ Replay(c) \/ Reject(c) \/ AppendEvents(c)
  \/ Project(c) \/ StoreReceipt(c) \/ Commit(c) \/ Answer(c)
  \/ Rebuild(c) \/ CommitRebuild(c)

Next ==
  \/ \E c \in Clients : Step(c) \/ BeginRebuild(c) \/ Fail(c) \/ Die(c)
  \/ \E c \in Clients, r \in Requests : Call(c, r)
  \/ \E r \in Requests : Refuse(r)
  \/ \E s \in Streams : Damage(s)
  \/ \E v \in Readers : ReadTable(v)

Spec == Init /\ [][Next]_vars

-----------------------------------------------------------------------------
(* What must hold.                                                         *)

EventsOf(events, r) == {i \in DOMAIN events : events[i].by = r}

\* The requests of the log, the first of them being those whose events come first.
NoLater(events, q, r) ==
  \E i \in EventsOf(events, q) : \A k \in EventsOf(events, r) : i <= k
InPlace(events, n) ==
  {r \in Accepted(events) : Cardinality({q \in Accepted(events) : NoLater(events, q, r)}) = n}
Order(events) ==
  [n \in 1..Cardinality(Accepted(events)) |-> CHOOSE r \in Requests : r \in InPlace(events, n)]

\* The events of r stand together, after the first n, in the order in which it writes them.
Together(events, r, n) ==
  /\ EventsOf(events, r) = (n + 1)..(n + Len(Writes[r]))
  /\ \A i \in DOMAIN Writes[r] : events[n + i].stream = Writes[r][i]

\* The committed log holds all events of a request or none, once, in order and
\* next to each other, exactly for the accepted receipts, and each stream counts
\* its versions without a gap, whoever failed or died in the middle.
EventsAreWhole ==
  /\ \A r \in Requests :
       IF db.receipts[KeyOf[r]] = Receipt("accepted", r)
       THEN \E n \in 0..Len(db.events) : Together(db.events, r, n)
       ELSE EventsOf(db.events, r) = {}
  /\ \A i \in DOMAIN db.events :
       db.events[i].version = VersionOf(SubSeq(db.events, 1, i), db.events[i].stream)

\* Every request in the log was allowed by exactly the requests before it:
\* decisions are serial, and a damaged projection does not mislead them.
DecidedOnTheLog ==
  LET order == Order(db.events) IN
  \A i \in DOMAIN order : Permits(order[i], {order[k] : k \in 1..(i - 1)})

Kept(r, answer) ==
  LET stored == db.receipts[KeyOf[r]] IN
  CASE answer = "accepted" -> r \in Accepted(db.events)
    [] answer = "rejected" -> r \notin Accepted(db.events) /\ stored = Receipt("rejected", r)
    [] answer = "conflict" -> stored # NoReceipt /\ stored.by # r
    [] OTHER -> r \notin Accepted(db.events)

\* What a client was told of a request stays true: an accepted request is in the
\* log whatever crashes, a rejected one never gets there, and a key that was
\* refused as taken is another request's.
AnswersAreKept == \A told \in answers : Kept(told[1], told[2])

\* A commit that adds events, and any rebuild, leaves all tables as the log
\* replays, however they were damaged before; any other commit leaves them alone.
CommitsRepair ==
  [][\/ \E s \in Streams : Damage(s)
     \/ db'.projection = Replayed(db'.events)
     \/ /\ db'.events = db.events
        /\ db'.projection = db.projection]_vars

\* No way out of a call, by an answer, a failure or a death, keeps the lock.
LockIsFreed == \A c \in Clients : lock = c ~> lock # c

FairSpec == Spec /\ \A c \in Clients : WF_vars(Step(c))

\* The lengths the log had after a commit.
Commits == {n \in 0..Len(db.events) :
              n \in 1..(Len(db.events) - 1) => db.events[n].by # db.events[n + 1].by}

\* The i-th table of a view is as the first at[i] events left it, or damaged.
ReadAt(v, at) ==
  \A i \in DOMAIN view[v] :
    \/ view[v][i] = Replayed(SubSeq(db.events, 1, at[i]))[Tables[i]]
    \/ Tables[i] \in Fragile /\ view[v][i] = {}

\* A query never sees a table in the middle of its rewriting or one that was
\* rolled back, and never an older table after a newer one.
ReadersGoForward ==
  \A v \in Readers : \E at \in [DOMAIN view[v] -> Commits] :
    ReadAt(v, at) /\ \A i, k \in DOMAIN at : i < k => at[i] <= at[k]

\* The transaction of execute: what is committed is whole and decided on the log
\* as it was, and what is read of it by others is some committed state.
LogInv == EventsAreWhole /\ DecidedOnTheLog /\ ReadersGoForward

PermitsAfter(r, log) == Permits(r, {log[i] : i \in DOMAIN log})

Atomic == INSTANCE AtomicLog
  WITH log <- Order(db.events), outcome <- db.receipts, told <- answers, Permits <- PermitsAfter

\* However its steps interleave and fail, execute is one atomic step.
ImplementsAtomicLog == Atomic!Spec
=============================================================================
