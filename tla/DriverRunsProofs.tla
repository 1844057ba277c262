-------------------------- MODULE DriverRunsProofs --------------------------
(***************************************************************************)
(* Proofs about DriverRuns, for any number of supervisors, faults and      *)
(* events.                                                                 *)
(***************************************************************************)
EXTENDS DriverRuns, TLAPS

-----------------------------------------------------------------------------
(* The invariant.  A run can count as a success only because its start is  *)
(* over when it is inspected: a supervisor that still starts it has lost   *)
(* the lease of the effect, so its attempt is overdue and is not inspected *)
(* any more.  Then an exited container stays as it is, and its log, too.   *)

Begun == attempt.status \notin {"absent", "starting"}
NoStarts == Begun /\ \A s \in Supervisors : sup[s].for # "start"
Launched == container.status \notin {"none", "created"}
Gone == container.status \in {"exited", "removed"}

\* A success of n events, if nothing is started any more.
Earned(n) ==
  /\ log.verdict = "succeeded" /\ log.flaw = "none" /\ log.count = n
  /\ Gone /\ container.code = "zero" /\ container.launches = 1

\* Each step belongs to an errand.
PosedAs(x) ==
  /\ x.at = "idle" <=> x.for = "none"
  /\ x.at \in Starting => x.for = "start"
  /\ x.at \in Stopping => x.for = "cancel"
  /\ x.at \in Reading => x.for = "job"
  /\ x.at \in Collecting => x.for \in {"cancel", "job"}
  /\ x.at \in {"tell", "fail"} => x.for \in {"start", "cancel"}
  /\ x.at = "keep" => x.outcome \in Outcomes
  /\ x.log.verdict # "none" => x.log.count > 0

\* What the delivery of a cancellation relies on.
CancelSeen(x) ==
  x.for = "cancel" =>
    /\ message["cancel"].status # "absent"
    /\ x.at = "stop" \/ x.at \in Collecting => intent.reason # "none"
    /\ x.at = "judge" => x.reason # "none"
    /\ x.at = "keep" => x.outcome # "succeeded"

\* What the inspection of a job relies on: it goes on to the evidence when the
\* run broke a rule, was cancelled, or is at its end.
JobSeen(x) ==
  x.for = "job" =>
    /\ attempt.external /\ NoStarts /\ container.launches <= 1
    /\ x.at = "collect" /\ bundle = NoBundle => intent.reason # "none" \/ log.flaw # "none" \/ Gone
    /\ x.at = "judge" => x.reason # "none" \/ x.log.flaw # "none" \/ (Gone /\ x.log = log)
    /\ x.at = "keep" /\ x.outcome = "succeeded" => Earned(x.log.count) /\ x.log = log

Seen(x) ==
  /\ x.reason # "none" => intent.reason # "none"
  /\ x.log.flaw # "none" => log.flaw # "none"
  /\ x.at \in {"sweep", "record"} => bundle # NoBundle
  /\ x.for = "start" /\ x.at = "tell" => Launched
  /\ CancelSeen(x) /\ JobSeen(x)

SupsOK == \A s \in Supervisors : PosedAs(sup[s]) /\ Seen(sup[s])

\* An attempt in time has one supervisor that starts it.
Prompt == ~attempt.overdue /\ attempt.status \in {"absent", "starting", "running"}
StartsOK ==
  Prompt =>
    /\ container.launches <= 1
    /\ message["start"].status = "leased" => message["start"].live
    /\ \A s \in Supervisors : sup[s].for = "start" =>
         /\ attempt.status = "starting"
         /\ message["start"].status = "leased" /\ message["start"].holder = s
         /\ sup[s].at = "run" => container.status = "created"

DeliveriesOK ==
  \A m \in {"start", "cancel"} :
    /\ message[m].live => message[m].status = "leased"
    /\ message[m].status = "pending" => message[m].deliveries < MaxDeliveries
    /\ message[m].deliveries <= MaxDeliveries + faults
    /\ message[m].status = "leased" /\ ~message[m].live =>
         message[m].deliveries < MaxDeliveries + faults

KernelOK ==
  /\ message["start"].status \in Open => attempt.status = "starting"
  /\ message["cancel"].status # "absent" =>
       attempt.external /\ attempt.status = "ended" /\ attempt.reason # "none"
  /\ attempt.receipt # "none" => attempt.status \in {"verifying", "ended"}
  /\ attempt.status \in {"running", "verifying"} => attempt.external
  /\ attempt.external => Begun /\ Launched
  /\ attempt.overdue => attempt.status \in Live

DockerOK ==
  /\ ~Launched => container.launches = 0
  /\ container.status \in {"running", "exited"} => container.launches > 0
  /\ container.launches = 0 => log = NoLog
  /\ container.status = "removed" => workspace = "removed"
  /\ log.verdict # "none" => log.count > 0

BundleOK ==
  /\ bundle # NoBundle => bundle.outcome \in Outcomes
  /\ bundle.outcome = "succeeded" => NoStarts /\ Earned(bundle.count)

Inv ==
  /\ TypeOK /\ SupsOK /\ StartsOK /\ DeliveriesOK /\ KernelOK /\ DockerOK /\ BundleOK
  /\ EvidenceIsDurable

-----------------------------------------------------------------------------
(* Types, and what no step takes back.                                     *)

AttemptType ==
  [status : Live \cup {"absent", "ended"}, external : BOOLEAN, overdue : BOOLEAN,
   cursor : Counts, receipt : Outcomes \cup {"none"}, reason : Reasons \cup {"none"}]
MessageType ==
  [status : Open \cup {"absent", "delivered", "dead_letter", "obsolete"},
   deliveries : 0..MaxDeliveries + MaxFaults + 1, holder : Supervisors \cup {NoOne},
   live : BOOLEAN, due : BOOLEAN]
SupType ==
  [at : Steps, for : {"none", "start", "cancel", "job"}, cursor : Counts, log : Logs,
   reason : Reasons \cup {"none"}, outcome : Outcomes \cup {"none", "running"}]

KernelType ==
  /\ attempt \in AttemptType
  /\ lease \in [holder : Supervisors \cup {NoOne}, live : BOOLEAN]
  /\ message \in [{"start", "cancel"} -> MessageType]
  /\ faults \in 0..MaxFaults
StoreType ==
  /\ intent \in [made : BOOLEAN, reason : Reasons \cup {"none"}]
  /\ workspace \in {"empty", "filled", "removed"}
  /\ bundle \in [outcome : Outcomes \cup {"none"}, count : Counts]
DockerType ==
  /\ container \in [status : {"none", "created", "running", "exited", "removed"},
                    code : {"zero", "other"}, launches : 0..2, refused : BOOLEAN]
  /\ log \in Logs

LEMMA TypeShown ==
  /\ TypeOK <=> KernelType /\ StoreType /\ DockerType /\ sup \in [Supervisors -> SupType]
  /\ TypeOK' <=> KernelType' /\ StoreType' /\ DockerType' /\ sup' \in [Supervisors -> SupType]
BY DEF TypeOK, KernelType, StoreType, DockerType, AttemptType, MessageType, SupType

Forward ==
  /\ intent.reason # "none" => intent'.reason # "none"
  /\ log.flaw # "none" => log'.flaw # "none"
  /\ bundle # NoBundle => bundle' = bundle
  /\ message["cancel"].status # "absent" => message'["cancel"].status # "absent"
  /\ Launched => Launched'
  /\ attempt.external => attempt'.external
  /\ NoStarts =>
       /\ NoStarts' /\ container'.launches = container.launches
       /\ Gone => Gone' /\ container'.code = container.code /\ log' = log

LEMMA SeenKept ==
  ASSUME Forward, NEW x, Seen(x)
  PROVE  Seen(x)'
<1>1. CancelSeen(x)'
  BY DEF Forward, Seen, CancelSeen
<1>2. JobSeen(x)'
  <2>1. CASE x.for # "job"
    BY <2>1 DEF JobSeen
  <2>2. CASE x.for = "job"
    <3>1. NoStarts /\ NoStarts' /\ attempt'.external /\ container'.launches <= 1
      BY <2>2 DEF Forward, Seen, JobSeen
    <3>2. \A n : Earned(n) => Earned(n)'
      BY <3>1 DEF Forward, Earned
    <3>3. /\ intent.reason # "none" => intent'.reason # "none"
          /\ log.flaw # "none" => log'.flaw # "none"
          /\ bundle # NoBundle => bundle' = bundle
          /\ Gone => Gone' /\ log' = log
      BY <3>1 DEF Forward
    <3>4. x.at = "keep" /\ x.outcome = "succeeded" => Earned(x.log.count)' /\ x.log = log'
      <4>1. x.at = "keep" /\ x.outcome = "succeeded" => Earned(x.log.count) /\ x.log = log
        BY <2>2 DEF Seen, JobSeen
      <4>2. PICK n : n = x.log.count
        OBVIOUS
      <4> QED
        BY <4>1, <4>2, <3>2, <3>3 DEF Earned
    <3>5. x.at = "collect" /\ bundle' = NoBundle => intent'.reason # "none" \/ log'.flaw # "none" \/ Gone'
      BY <2>2, <3>3 DEF Seen, JobSeen
    <3>6. x.at = "judge" => x.reason # "none" \/ x.log.flaw # "none" \/ (Gone' /\ x.log = log')
      BY <2>2, <3>3 DEF Seen, JobSeen
    <3> QED
      BY <3>1, <3>4, <3>5, <3>6 DEF JobSeen
  <2> QED
    BY <2>1, <2>2
<1> QED
  BY <1>1, <1>2 DEF Forward, Seen

LEMMA SupsKept ==
  ASSUME SupsOK, Forward, sup \in [Supervisors -> SupType],
         NEW s \in Supervisors, NEW y, sup' = [sup EXCEPT ![s] = y], PosedAs(y), Seen(y)'
  PROVE  SupsOK'
<1> SUFFICES ASSUME NEW r \in Supervisors
             PROVE  PosedAs(sup'[r]) /\ Seen(sup[r])'
  BY DEF SupsOK
<1>1. CASE r = s
  <2>1. sup'[r] = y
    BY <1>1
  <2> QED
    BY <2>1 DEF Seen, CancelSeen, JobSeen, Earned
<1>2. CASE r # s
  <2>1. PICK x : x = sup[r]
    OBVIOUS
  <2>2. sup'[r] = x
    BY <1>2, <2>1
  <2>3. PosedAs(x) /\ Seen(x)
    BY <2>1 DEF SupsOK
  <2>4. Seen(x)'
    BY <2>3, SeenKept
  <2> QED
    BY <2>2, <2>3, <2>4 DEF Seen, CancelSeen, JobSeen, Earned
<1> QED
  BY <1>1, <1>2

LEMMA SupsStay ==
  ASSUME SupsOK, Forward, UNCHANGED sup
  PROVE  SupsOK'
<1> SUFFICES ASSUME NEW r \in Supervisors
             PROVE  PosedAs(sup'[r]) /\ Seen(sup[r])'
  BY DEF SupsOK
<1>1. PICK x : x = sup[r]
  OBVIOUS
<1>2. sup'[r] = x
  BY <1>1
<1>3. PosedAs(x) /\ Seen(x)
  BY <1>1 DEF SupsOK
<1>4. Seen(x)'
  BY <1>3, SeenKept
<1> QED
  BY <1>2, <1>3, <1>4 DEF Seen, CancelSeen, JobSeen, Earned

LEMMA BundleStays ==
  ASSUME BundleOK, Forward, UNCHANGED bundle
  PROVE  BundleOK'
BY DEF BundleOK, Forward, Earned

-----------------------------------------------------------------------------
(* Steps of a supervisor that change no more than itself, the intent and   *)
(* the workspace.                                                          *)

\* It may go on as y: nothing is started that was not to be started.
MayBe(s, y) ==
  /\ PosedAs(y) /\ (y.for = "start" => sup[s].for = "start" \/ ~Begun)
  /\ Prompt /\ y.for = "start" =>
       /\ attempt.status = "starting"
       /\ message["start"].status = "leased" /\ message["start"].holder = s
       /\ y.at = "run" => container.status = "created"

LEMMA SupStep ==
  ASSUME Inv, NEW s \in Supervisors, NEW y \in SupType, sup' = [sup EXCEPT ![s] = y],
         MayBe(s, y), Seen(y) \/ Seen(y)',
         UNCHANGED <<kernel, docker, bundle>>, faults' \in 0..MaxFaults, faults <= faults',
         intent' \in [made : BOOLEAN, reason : Reasons \cup {"none"}],
         intent.reason # "none" => intent'.reason # "none",
         workspace' \in {"empty", "filled", "removed"},
         container.status = "removed" => workspace' = "removed"
  PROVE  Inv'
<1>1. UNCHANGED <<attempt, lease, message, container, log, bundle>>
  BY DEF kernel, docker
<1>2. KernelType /\ StoreType /\ DockerType /\ sup \in [Supervisors -> SupType]
  BY TypeShown DEF Inv
<1>3. sup' \in [Supervisors -> SupType] /\ \A r \in Supervisors : sup'[r] = IF r = s THEN y ELSE sup[r]
  BY <1>2
<1>4. TypeOK'
  <2>1. KernelType' /\ StoreType' /\ DockerType'
    BY <1>1, <1>2 DEF KernelType, StoreType, DockerType
  <2> QED
    BY <2>1, <1>3, TypeShown
<1>5. Forward
  <2>1. NoStarts => NoStarts'
    BY <1>1, <1>3 DEF NoStarts, Begun, MayBe
  <2> QED
    BY <2>1, <1>1 DEF Forward, Launched, Gone
<1>6. SupsOK'
  <2>1. Seen(y)'
    BY <1>5, SeenKept
  <2> QED
    BY <2>1, <1>2, <1>5, SupsKept DEF Inv, MayBe
<1>7. StartsOK'
  <2> SUFFICES ASSUME Prompt
               PROVE  /\ container.launches <= 1
                      /\ message["start"].status = "leased" => message["start"].live
                      /\ \A r \in Supervisors : sup'[r].for = "start" =>
                           /\ attempt.status = "starting"
                           /\ message["start"].status = "leased" /\ message["start"].holder = r
                           /\ sup'[r].at = "run" => container.status = "created"
    BY <1>1 DEF StartsOK, Prompt
  <2> QED
    BY <1>3 DEF Inv, StartsOK, MayBe
<1>8. DeliveriesOK'
  <2>1. faults \in Nat /\ faults' \in Nat /\ \A m \in {"start", "cancel"} : message[m].deliveries \in Nat
    BY <1>2, DriverRunsAssumption DEF KernelType, MessageType
  <2> QED
    BY <2>1, <1>1, DriverRunsAssumption DEF Inv, DeliveriesOK
<1>9. KernelOK' /\ DockerOK' /\ EvidenceIsDurable'
  BY <1>1 DEF Inv, KernelOK, DockerOK, EvidenceIsDurable, Begun, Launched
<1>10. BundleOK'
  BY <1>1, <1>5, BundleStays DEF Inv
<1> QED
  BY <1>4, <1>6, <1>7, <1>8, <1>9, <1>10 DEF Inv

\* A step that changes nothing else.
LEMMA SupGoes ==
  ASSUME Inv, NEW s \in Supervisors, NEW y \in SupType, sup' = [sup EXCEPT ![s] = y],
         MayBe(s, y), Seen(y), UNCHANGED <<kernel, store, docker, faults>>
  PROVE  Inv'
<1>1. UNCHANGED <<intent, workspace, bundle>>
  BY DEF store
<1>2. KernelType /\ StoreType
  BY TypeShown DEF Inv
<1>3. faults \in Nat
  BY <1>2, DriverRunsAssumption DEF KernelType
<1>4. /\ faults' \in 0..MaxFaults /\ faults <= faults'
      /\ intent' \in [made : BOOLEAN, reason : Reasons \cup {"none"}]
      /\ intent.reason # "none" => intent'.reason # "none"
      /\ workspace' \in {"empty", "filled", "removed"}
      /\ container.status = "removed" => workspace' = "removed"
  BY <1>1, <1>2, <1>3 DEF Inv, DockerOK, KernelType, StoreType
<1> QED
  BY <1>1, <1>4, SupStep

LEMMA SupShown ==
  ASSUME Inv, NEW s \in Supervisors
  PROVE  /\ sup \in [Supervisors -> SupType] /\ sup[s] \in SupType
         /\ PosedAs(sup[s]) /\ Seen(sup[s]) /\ sup[s].log \in Logs
BY TypeShown DEF Inv, SupsOK, SupType

LEMMA IdleShown ==
  /\ Idle \in SupType /\ PosedAs(Idle) /\ Idle.for = "none" /\ Idle.at = "idle"
  /\ NoLog \in Logs /\ NoLog.flaw = "none" /\ NoLog.verdict = "none" /\ NoLog.count = 0
  /\ Seen(Idle) /\ \A s \in Supervisors : MayBe(s, Idle)
<1>1. 0 \in Counts
  BY DriverRunsAssumption DEF Counts
<1>2. /\ NoLog \in Logs /\ NoLog.flaw = "none" /\ NoLog.verdict = "none" /\ NoLog.count = 0
  BY <1>1 DEF NoLog, Logs
<1>3. Idle \in SupType
  BY <1>1, <1>2 DEF Idle, SupType, Steps
<1>4. PosedAs(Idle)
  BY <1>2 DEF Idle, PosedAs, Starting, Stopping, Reading, Collecting
<1>5. Seen(Idle)
  BY <1>2 DEF Idle, Seen, CancelSeen, JobSeen
<1> QED
  BY <1>2, <1>3, <1>4, <1>5 DEF Idle, MayBe

\* The end of what a supervisor was at.
LEMMA DoneKeeps ==
  ASSUME Inv, NEW s \in Supervisors, Done(s), UNCHANGED <<kernel, store, docker, faults>>
  PROVE  Inv'
<1>1. PICK y : y = Idle
  OBVIOUS
<1> QED
  BY <1>1, IdleShown, SupGoes DEF Done, Does

LEMMA CrashKeeps ==
  ASSUME Inv, NEW s \in Supervisors, Crash(s)
  PROVE  Inv'
<1>1. PICK y : y = Idle
  OBVIOUS
<1>2. KernelType /\ StoreType
  BY TypeShown DEF Inv
<1>3. faults \in Nat /\ faults + 1 \in 0..MaxFaults /\ faults' = faults + 1
  BY <1>2, DriverRunsAssumption DEF KernelType, Crash
<1>4. sup' = [sup EXCEPT ![s] = y] /\ UNCHANGED <<kernel, intent, workspace, bundle, docker>>
  BY <1>1 DEF Crash, store
<1>5. /\ faults <= faults'
      /\ intent' \in [made : BOOLEAN, reason : Reasons \cup {"none"}]
      /\ intent.reason # "none" => intent'.reason # "none"
      /\ workspace' \in {"empty", "filled", "removed"}
      /\ container.status = "removed" => workspace' = "removed"
  BY <1>2, <1>3, <1>4 DEF Inv, DockerOK, StoreType
<1>6. y \in SupType /\ MayBe(s, y) /\ Seen(y)
  BY <1>1, IdleShown
<1> QED
  BY <1>3, <1>4, <1>5, <1>6, SupStep

\* Where it is next, with what it has read, and without.
LEMMA NextShown ==
  ASSUME NEW x \in SupType, NEW a \in Steps, NEW y, y = [x EXCEPT !.at = a]
  PROVE  /\ y \in SupType /\ y.at = a /\ y.for = x.for /\ y.cursor = x.cursor /\ y.log = x.log
         /\ y.reason = x.reason /\ y.outcome = x.outcome
BY DEF SupType

LEMMA AfreshShown ==
  ASSUME Inv, NEW s \in Supervisors, NEW a \in Steps, Afresh(s, a)
  PROVE  \E y \in SupType :
           /\ sup' = [sup EXCEPT ![s] = y]
           /\ y.at = a /\ y.for = sup[s].for /\ y.log = NoLog /\ y.reason = "none" /\ y.outcome = "none"
<1>1. Idle \in SupType /\ Idle.log = NoLog /\ Idle.reason = "none" /\ Idle.outcome = "none"
  BY IdleShown DEF Idle
<1>2. PICK f, y : f = sup[s].for /\ y = [Idle EXCEPT !.for = f, !.at = a]
  OBVIOUS
<1>3. f \in {"none", "start", "cancel", "job"}
  BY <1>2, SupShown DEF SupType
<1>4. /\ y \in SupType /\ y.at = a /\ y.for = f /\ y.log = NoLog /\ y.reason = "none"
      /\ y.outcome = "none"
  BY <1>1, <1>2, <1>3 DEF SupType
<1>5. sup' = [sup EXCEPT ![s] = y]
  BY <1>2 DEF Afresh, Does
<1> QED
  BY <1>2, <1>4, <1>5

\* A start goes on.
LEMMA StarterGoes ==
  ASSUME Inv, NEW s \in Supervisors, sup[s].for = "start",
         NEW a \in Starting \cup {"tell", "fail"}, Goes(s, a),
         a = "run" => container.status = "created", a = "tell" => Launched,
         UNCHANGED <<kernel, docker, bundle, faults>>,
         intent' \in [made : BOOLEAN, reason : Reasons \cup {"none"}],
         intent.reason # "none" => intent'.reason # "none",
         workspace' \in {"empty", "filled", "removed"},
         container.status = "removed" => workspace' = "removed"
  PROVE  Inv'
<1>1. PICK x, y : x = sup[s] /\ y = [x EXCEPT !.at = a]
  OBVIOUS
<1>2. a \in Steps /\ a \notin Stopping \cup Reading \cup Collecting \cup {"idle"}
  BY DEF Steps, Starting, Stopping, Reading, Collecting
<1>3. x \in SupType /\ PosedAs(x) /\ Seen(x) /\ x.for = "start"
  BY <1>1, SupShown
<1>4. /\ y \in SupType /\ y.at = a /\ y.for = x.for /\ y.log = x.log /\ y.reason = x.reason
  BY <1>1, <1>2, <1>3, NextShown
<1>5. sup' = [sup EXCEPT ![s] = y]
  BY <1>1, <1>3, SupShown DEF Goes
<1>6. PosedAs(y)
  BY <1>2, <1>3, <1>4 DEF PosedAs, Collecting
<1>7. Seen(y)
  BY <1>3, <1>4, <1>2 DEF Seen, CancelSeen, JobSeen, Collecting
<1>8. MayBe(s, y)
  <2>1. Prompt => /\ attempt.status = "starting"
                  /\ message["start"].status = "leased" /\ message["start"].holder = s
    BY DEF Inv, StartsOK
  <2> QED
    BY <2>1, <1>4, <1>6 DEF MayBe
<1>9. faults' \in 0..MaxFaults /\ faults <= faults'
  BY TypeShown, DriverRunsAssumption DEF Inv, KernelType
<1> QED
  BY <1>4, <1>5, <1>7, <1>8, <1>9, SupStep

LEMMA StarterShown ==
  ASSUME Inv, NEW s \in Supervisors, sup[s].at \in Starting
  PROVE  sup[s].for = "start"
BY SupShown DEF PosedAs

LEMMA LaunchKeeps ==
  ASSUME Inv, NEW s \in Supervisors, Launch(s) \/ Intend(s) \/ LookForContainer(s)
  PROVE  Inv'
<1>1. StoreType /\ (container.status = "removed" => workspace = "removed")
  BY TypeShown DEF Inv, DockerOK
<1>2. CASE Launch(s)
  <2>1. sup[s].for = "start"
    BY <1>2, StarterShown DEF Launch, Starting
  <2>2. UNCHANGED <<kernel, docker, intent, bundle, faults>>
    BY <1>2 DEF Launch
  <2>3. PICK a \in {"look", "intend", "fail"} :
          /\ Goes(s, a)
          /\ \/ workspace' = workspace
             \/ workspace = "empty" /\ workspace' = "filled"
    BY <1>2 DEF Launch
  <2>4. /\ a \in Starting \cup {"tell", "fail"} /\ a # "run" /\ a # "tell"
        /\ workspace' \in {"empty", "filled", "removed"}
        /\ container.status = "removed" => workspace' = "removed"
        /\ intent' \in [made : BOOLEAN, reason : Reasons \cup {"none"}]
        /\ intent.reason # "none" => intent'.reason # "none"
    BY <1>1, <2>2, <2>3 DEF StoreType, Starting
  <2> QED
    BY <2>1, <2>2, <2>3, <2>4, StarterGoes
<1>3. CASE Intend(s)
  <2>1. sup[s].for = "start"
    BY <1>3, StarterShown DEF Intend, Starting
  <2>2. UNCHANGED <<kernel, docker, workspace, bundle, faults>> /\ Goes(s, "look")
    BY <1>3 DEF Intend
  <2>3. /\ "look" \in Starting \cup {"tell", "fail"}
        /\ workspace' \in {"empty", "filled", "removed"}
        /\ container.status = "removed" => workspace' = "removed"
        /\ intent' \in [made : BOOLEAN, reason : Reasons \cup {"none"}]
        /\ intent.reason # "none" => intent'.reason # "none"
    BY <1>1, <1>3, <2>2 DEF StoreType, Starting, Intend
  <2> QED
    BY <2>1, <2>2, <2>3, StarterGoes
<1>4. CASE LookForContainer(s)
  <2>1. sup[s].for = "start"
    BY <1>4, StarterShown DEF LookForContainer, Starting
  <2>2. UNCHANGED <<kernel, docker, intent, workspace, bundle, faults>>
    BY <1>4 DEF LookForContainer, store
  <2>3. PICK a \in {"create", "run", "tell"} :
          /\ Goes(s, a) /\ (a = "run" => container.status = "created") /\ (a = "tell" => Launched)
    <3>1. CASE ~HasContainer
      BY <3>1, <1>4 DEF LookForContainer
    <3>2. CASE HasContainer /\ container.status = "created"
      BY <3>2, <1>4 DEF LookForContainer
    <3>3. CASE HasContainer /\ container.status # "created"
      <4>1. Launched
        BY <3>3 DEF HasContainer, Launched
      <4> QED
        BY <4>1, <3>3, <1>4 DEF LookForContainer
    <3> QED
      BY <3>1, <3>2, <3>3
  <2>4. /\ a \in Starting \cup {"tell", "fail"}
        /\ workspace' \in {"empty", "filled", "removed"}
        /\ container.status = "removed" => workspace' = "removed"
        /\ intent' \in [made : BOOLEAN, reason : Reasons \cup {"none"}]
        /\ intent.reason # "none" => intent'.reason # "none"
    BY <1>1, <2>2, <2>3 DEF StoreType, Starting
  <2> QED
    BY <2>1, <2>2, <2>3, <2>4, StarterGoes
<1> QED
  BY <1>2, <1>3, <1>4

-----------------------------------------------------------------------------
(* Steps that create, start or end the container.                          *)

ContainerType ==
  [status : {"none", "created", "running", "exited", "removed"}, code : {"zero", "other"},
   launches : 0..2, refused : BOOLEAN]

\* The container is as it was, but for what Docker has refused, or it has exited.
Same ==
  /\ container'.status = container.status /\ container'.code = container.code
  /\ container'.launches = container.launches
Ends ==
  /\ container.status = "running" /\ container'.status = "exited"
  /\ container'.launches = container.launches

Looked ==
  /\ container' \in ContainerType /\ (Same \/ Ends)
  /\ faults' \in 0..MaxFaults /\ faults' \in Nat /\ faults \in Nat /\ faults <= faults'

LEMMA StarterMoves ==
  ASSUME Inv, NEW s \in Supervisors, sup[s].for = "start", NEW a \in {"look", "tell"}, Goes(s, a),
         a = "tell" => Launched', UNCHANGED <<kernel, store, log, faults>>,
         container' \in ContainerType, Launched => Launched', DockerOK', Prompt => container'.launches <= 1
  PROVE  Inv'
<1>1. PICK x, y : x = sup[s] /\ y = [x EXCEPT !.at = a]
  OBVIOUS
<1>2. a \in Steps /\ a \notin Stopping \cup Reading \cup Collecting \cup {"idle", "run"}
  BY DEF Steps, Starting, Stopping, Reading, Collecting
<1>3. x \in SupType /\ PosedAs(x) /\ Seen(x) /\ x.for = "start" /\ sup \in [Supervisors -> SupType]
  BY <1>1, SupShown
<1>4. /\ y \in SupType /\ y.at = a /\ y.for = x.for /\ y.log = x.log /\ y.reason = x.reason
  BY <1>1, <1>2, <1>3, NextShown
<1>5. sup' = [sup EXCEPT ![s] = y] /\ sup' \in [Supervisors -> SupType]
      /\ \A r \in Supervisors : sup'[r] = IF r = s THEN y ELSE sup[r]
  BY <1>1, <1>3, <1>4 DEF Goes
<1>6. UNCHANGED <<attempt, lease, message, intent, workspace, bundle, log, faults>>
  BY DEF kernel, store
<1>7. ~NoStarts
  BY DEF NoStarts
<1>8. Forward
  BY <1>6, <1>7 DEF Forward
<1>9. PosedAs(y)
  BY <1>2, <1>3, <1>4, IdleShown DEF PosedAs, Starting, Collecting
<1>10. Seen(y)'
  BY <1>2, <1>3, <1>4, <1>6 DEF Seen, CancelSeen, JobSeen, Collecting
<1>11. SupsOK'
  BY <1>3, <1>5, <1>8, <1>9, <1>10, SupsKept DEF Inv
<1>12. StartsOK'
  <2> SUFFICES ASSUME Prompt
               PROVE  /\ container'.launches <= 1
                      /\ message["start"].status = "leased" => message["start"].live
                      /\ \A r \in Supervisors : sup'[r].for = "start" =>
                           /\ attempt.status = "starting"
                           /\ message["start"].status = "leased" /\ message["start"].holder = r
                           /\ sup'[r].at = "run" => container'.status = "created"
    BY <1>6 DEF StartsOK, Prompt
  <2>1. message["start"].holder = s
    BY DEF Inv, StartsOK
  <2> QED
    BY <2>1, <1>1, <1>2, <1>3, <1>4, <1>5 DEF Inv, StartsOK
<1>13. TypeOK'
  <2>1. KernelType' /\ StoreType' /\ DockerType'
    BY <1>6, TypeShown DEF Inv, KernelType, StoreType, DockerType, ContainerType
  <2> QED
    BY <2>1, <1>5, TypeShown
<1>14. DeliveriesOK' /\ EvidenceIsDurable'
  BY <1>6 DEF Inv, DeliveriesOK, EvidenceIsDurable
<1>15. KernelOK'
  BY <1>6 DEF Inv, KernelOK, Begun
<1>16. BundleOK'
  BY <1>6, <1>7 DEF Inv, BundleOK
<1> QED
  BY <1>11, <1>12, <1>13, <1>14, <1>15, <1>16 DEF Inv

LEMMA ContainerShown ==
  ASSUME Inv
  PROVE  container \in ContainerType /\ log \in Logs
BY TypeShown DEF Inv, DockerType, ContainerType

LEMMA LookedShown ==
  ASSUME Inv, UNCHANGED <<container, faults>> \/ (container.status = "running" /\ Stopped) \/ Refused
  PROVE  Looked
<1>1. container \in ContainerType /\ faults \in 0..MaxFaults /\ MaxFaults \in Nat
  BY ContainerShown, TypeShown, DriverRunsAssumption DEF Inv, KernelType
<1>2. CASE UNCHANGED <<container, faults>>
  BY <1>1, <1>2 DEF Looked, Same
<1>3. CASE Refused
  <2>1. container' \in ContainerType /\ Same
    BY <1>1, <1>3 DEF Refused, ContainerType, Same
  <2> QED
    BY <1>1, <1>3, <2>1 DEF Refused, Looked
<1>4. CASE container.status = "running" /\ ~Refused /\ Stopped
  <2>1. PICK code \in {"zero", "other"} : container' = Exited(code)
    BY <1>4 DEF Stopped
  <2>2. container' \in ContainerType /\ Ends
    BY <1>1, <1>4, <2>1 DEF Exited, ContainerType, Ends
  <2> QED
    BY <1>1, <1>4, <2>2 DEF Stopped, Looked
<1> QED
  BY <1>2, <1>3, <1>4

LEMMA CreateKeeps ==
  ASSUME Inv, NEW s \in Supervisors, Create(s)
  PROVE  Inv'
<1>1. sup[s].for = "start" /\ UNCHANGED <<kernel, store, log, faults>>
  BY StarterShown DEF Create, Starting
<1>2. StoreType /\ container \in ContainerType
  BY TypeShown, ContainerShown DEF Inv
<1>3. CASE ~HasContainer /\ workspace = "filled"
  <2>1. container' = [container EXCEPT !.status = "created"] /\ Goes(s, "look")
    BY <1>3 DEF Create
  <2>2. container.status = "none"
    BY <1>3 DEF HasContainer, Inv, DockerOK
  <2>3. ~Launched /\ container.launches = 0
    BY <2>2 DEF Launched, Inv, DockerOK
  <2>4. container' \in ContainerType /\ container'.launches = 0 /\ container'.status = "created"
    BY <1>2, <2>1, <2>3 DEF ContainerType
  <2>5. UNCHANGED <<log, workspace>>
    BY <1>1 DEF store
  <2>6. DockerOK'
    BY <2>3, <2>4, <2>5 DEF Inv, DockerOK
  <2> QED
    BY <1>1, <2>1, <2>3, <2>4, <2>6, StarterMoves
<1>4. CASE ~ (~HasContainer /\ workspace = "filled")
  <2>1. UNCHANGED <<container, kernel, docker, intent, workspace, bundle, faults>> /\ Goes(s, "fail")
    BY <1>1, <1>4 DEF Create, docker, store
  <2>2. /\ "fail" \in Starting \cup {"tell", "fail"}
        /\ workspace' \in {"empty", "filled", "removed"}
        /\ container.status = "removed" => workspace' = "removed"
        /\ intent' \in [made : BOOLEAN, reason : Reasons \cup {"none"}]
        /\ intent.reason # "none" => intent'.reason # "none"
    BY <1>2, <2>1 DEF StoreType, Inv, DockerOK
  <2> QED
    BY <1>1, <2>1, <2>2, StarterGoes
<1> QED
  BY <1>3, <1>4

LEMMA RunKeeps ==
  ASSUME Inv, NEW s \in Supervisors, Run(s)
  PROVE  Inv'
<1>1. sup[s].for = "start" /\ sup[s].at = "run" /\ UNCHANGED <<kernel, store, log, faults>>
  BY StarterShown DEF Run, Starting
<1>2. StoreType /\ container \in ContainerType
  BY TypeShown, ContainerShown DEF Inv
<1>3. UNCHANGED <<log, workspace, intent, bundle>>
  BY <1>1 DEF store
<1>4. CASE /\ container.status \in {"created", "exited"} /\ workspace = "filled" /\ container.launches < 2
           /\ container' = [container EXCEPT !.status = "running", !.code = "zero", !.launches = @ + 1]
           /\ Goes(s, "tell")
  <2>1. container' \in ContainerType /\ container'.launches = container.launches + 1
        /\ container'.status = "running" /\ container.launches \in Nat
    <3>1. container.launches \in 0..2 /\ container.launches + 1 \in 0..2 /\ container.launches \in Nat
      BY <1>2, <1>4 DEF ContainerType
    <3>2. PICK k \in 0..2 : k = container.launches + 1
      BY <3>1
    <3>3. container' = [container EXCEPT !.status = "running", !.code = "zero", !.launches = k]
      BY <1>4, <3>2
    <3> QED
      BY <1>2, <3>1, <3>2, <3>3 DEF ContainerType
  <2>2. Launched'
    BY <2>1 DEF Launched
  <2>3. DockerOK'
    BY <1>3, <2>1, <2>2 DEF Inv, DockerOK
  <2>4. Prompt => container.launches = 0
    BY <1>1 DEF Inv, StartsOK, DockerOK, Launched
  <2>5. Prompt => container'.launches <= 1
    BY <2>1, <2>4
  <2> QED
    BY <1>1, <1>4, <2>1, <2>2, <2>3, <2>5, StarterMoves
<1>5. ASSUME NEW a \in {"tell", "fail"}, UNCHANGED container, Goes(s, a), a = "tell" => Launched
      PROVE  Inv'
  <2>1. UNCHANGED <<kernel, docker, bundle, faults>>
    BY <1>1, <1>3, <1>5 DEF docker
  <2>2. /\ a \in Starting \cup {"tell", "fail"} /\ a # "run"
        /\ workspace' \in {"empty", "filled", "removed"}
        /\ container.status = "removed" => workspace' = "removed"
        /\ intent' \in [made : BOOLEAN, reason : Reasons \cup {"none"}]
        /\ intent.reason # "none" => intent'.reason # "none"
    BY <1>2, <1>3 DEF StoreType, Inv, DockerOK
  <2> QED
    BY <1>1, <1>5, <2>1, <2>2, StarterGoes
<1>6. container.status = "running" => Launched
  BY DEF Launched
<1> QED
  BY <1>4, <1>5, <1>6 DEF Run

\* The container exits, or is left as it is, while nothing is started.
LEMMA ExitForward ==
  ASSUME Inv, container' \in ContainerType, Same \/ Ends, UNCHANGED <<kernel, store, log>>,
         \A r \in Supervisors : sup'[r].for = "start" =>
           sup[r].for = "start" /\ (sup'[r].at = "run" => sup[r].at = "run")
  PROVE  /\ Forward /\ container' \in ContainerType /\ container'.launches = container.launches
         /\ BundleOK' /\ KernelOK' /\ DockerOK' /\ EvidenceIsDurable' /\ StartsOK'
<1>1. UNCHANGED <<attempt, message, intent, workspace, bundle, log>>
  BY DEF kernel, store
<1>2. container'.launches = container.launches
  BY DEF Same, Ends
<1>3. /\ container'.launches = container.launches
      /\ \/ container'.status = container.status /\ container'.code = container.code
         \/ container.status = "running" /\ container'.status = "exited"
  BY DEF Same, Ends
<1>4. NoStarts => NoStarts'
  BY <1>1 DEF NoStarts, Begun
<1>5. Forward
  BY <1>1, <1>3, <1>4 DEF Forward, Launched, Gone
<1>6. BundleOK'
  BY <1>1, <1>5, BundleStays DEF Inv
<1>7. KernelOK'
  BY <1>1, <1>3 DEF Inv, KernelOK, Begun, Launched
<1>8. DockerOK'
  BY <1>1, <1>3 DEF Inv, DockerOK, Launched
<1>9. EvidenceIsDurable'
  BY <1>1 DEF Inv, EvidenceIsDurable
<1>10. StartsOK'
  <2> SUFFICES ASSUME Prompt
               PROVE  /\ container'.launches <= 1
                      /\ message["start"].status = "leased" => message["start"].live
                      /\ \A r \in Supervisors : sup'[r].for = "start" =>
                           /\ attempt.status = "starting"
                           /\ message["start"].status = "leased" /\ message["start"].holder = r
                           /\ sup'[r].at = "run" => container'.status = "created"
    BY <1>1 DEF StartsOK, Prompt
  <2> QED
    BY <1>3 DEF Inv, StartsOK
<1> QED
  BY <1>3, <1>5, <1>6, <1>7, <1>8, <1>9, <1>10

LEMMA AgentExitsKeeps ==
  ASSUME Inv, NEW code \in {"zero", "other"}, AgentExits(code)
  PROVE  Inv'
<1>1. /\ container.status = "running" /\ container' = Exited(code)
      /\ UNCHANGED <<kernel, store, log, sup, faults>>
  BY DEF AgentExits
<1>2. /\ Forward /\ container' \in ContainerType
      /\ BundleOK' /\ KernelOK' /\ DockerOK' /\ EvidenceIsDurable' /\ StartsOK'
  <2>1. container' \in ContainerType /\ Ends
    BY <1>1, ContainerShown DEF Exited, ContainerType, Ends
  <2> QED
    BY <1>1, <2>1, ExitForward
<1>3. UNCHANGED <<attempt, lease, message, intent, workspace, bundle>>
  BY <1>1 DEF kernel, store
<1>4. TypeOK'
  BY <1>1, <1>2, <1>3, TypeShown DEF Inv, KernelType, StoreType, DockerType, ContainerType
<1>5. SupsOK'
  BY <1>1, <1>2, SupsStay DEF Inv
<1>6. DeliveriesOK'
  BY <1>1, <1>3 DEF Inv, DeliveriesOK
<1> QED
  BY <1>2, <1>4, <1>5, <1>6 DEF Inv

LEMMA AgentWritesKeeps ==
  ASSUME Inv, NEW kind \in Kinds, AgentWrites(kind)
  PROVE  Inv'
<1>1. /\ container.status = "running" /\ log.count < EventLimit
      /\ UNCHANGED <<kernel, store, container, sup, faults>>
  BY DEF AgentWrites
<1>2. UNCHANGED <<attempt, lease, message, intent, workspace, bundle>>
  BY <1>1 DEF kernel, store
<1>3. log \in Logs /\ log.count \in Nat /\ log.count + 1 \in Counts /\ kind \in {"event", "malformed", "violation", "approval", "succeeded", "failed"}
  BY ContainerShown, <1>1, DriverRunsAssumption DEF Logs, Counts, Kinds, Verdicts
<1>4. PICK f \in Flaws \cup {"none"} :
        /\ log' = [count |-> log.count + 1,
                   verdict |-> IF kind \in Verdicts /\ log.verdict = "none" THEN kind ELSE log.verdict,
                   flaw |-> f]
        /\ log.flaw # "none" => f # "none"
  <2> DEFINE f == IF log.flaw = "malformed" \/ Breaks(kind) THEN "malformed"
                  ELSE IF kind = "violation" \/ (kind = "approval" /\ log.flaw = "none") THEN kind
                  ELSE log.flaw
  <2>1. f \in Flaws \cup {"none"} /\ (log.flaw # "none" => f # "none")
    <3>1. log.flaw \in Flaws \cup {"none"}
      BY <1>3 DEF Logs
    <3> QED
      BY <3>1 DEF Flaws
  <2>2. log' = [count |-> log.count + 1,
                verdict |-> IF kind \in Verdicts /\ log.verdict = "none" THEN kind ELSE log.verdict,
                flaw |-> f]
    BY DEF AgentWrites
  <2> HIDE DEF f
  <2> QED
    BY <2>1, <2>2
<1>5. log' \in Logs /\ log'.count = log.count + 1 /\ log'.flaw = f
  BY <1>3, <1>4 DEF Logs
<1>6. Forward
  <2>1. ~Gone
    BY <1>1 DEF Gone
  <2>2. NoStarts => NoStarts'
    BY <1>1, <1>2 DEF NoStarts, Begun
  <2> QED
    BY <1>1, <1>2, <1>4, <1>5, <2>1, <2>2 DEF Forward, Launched
<1>7. TypeOK'
  BY <1>1, <1>2, <1>5, TypeShown DEF Inv, KernelType, StoreType, DockerType
<1>8. SupsOK' /\ BundleOK'
  BY <1>1, <1>2, <1>6, SupsStay, BundleStays DEF Inv
<1>9. StartsOK' /\ DeliveriesOK' /\ KernelOK' /\ EvidenceIsDurable'
  BY <1>1, <1>2 DEF Inv, StartsOK, Prompt, DeliveriesOK, KernelOK, EvidenceIsDurable, Begun, Launched
<1>10. DockerOK'
  <2>1. container.launches # 0
    BY <1>1 DEF Inv, DockerOK
  <2> QED
    BY <1>1, <1>2, <1>3, <1>5, <2>1 DEF Inv, DockerOK, Launched
<1> QED
  BY <1>7, <1>8, <1>9, <1>10 DEF Inv

-----------------------------------------------------------------------------
(* Steps of cancellations and inspections.                                 *)

LEMMA CancelShown ==
  ASSUME Inv, NEW s \in Supervisors, sup[s].for = "cancel"
  PROVE  /\ message["cancel"].status # "absent"
         /\ attempt.external /\ attempt.status = "ended" /\ attempt.reason # "none"
<1>1. message["cancel"].status # "absent"
  BY SupShown DEF Seen, CancelSeen
<1> QED
  BY <1>1 DEF Inv, KernelOK

LEMMA ThrowsKeeps ==
  ASSUME Inv, NEW s \in Supervisors, sup[s].for \in {"cancel", "job"}, Throws(s),
         UNCHANGED <<kernel, store, docker, faults>>
  PROVE  Inv'
<1>1. CASE sup[s].for = "job"
  BY <1>1, DoneKeeps DEF Throws
<1>2. CASE sup[s].for = "cancel"
  <2>1. Afresh(s, "fail") /\ "fail" \in Steps
    BY <1>2 DEF Throws, Steps
  <2>2. PICK y \in SupType :
          /\ sup' = [sup EXCEPT ![s] = y]
          /\ y.at = "fail" /\ y.for = sup[s].for /\ y.log = NoLog /\ y.reason = "none"
    BY <2>1, AfreshShown
  <2>3. y.at = "fail" /\ y.for = "cancel" /\ y.log = NoLog /\ y.reason = "none"
    BY <1>2, <2>2
  <2>5. PosedAs(y)
    BY <2>3, IdleShown DEF PosedAs, Starting, Stopping, Reading, Collecting
  <2>6. Seen(y)
    BY <2>3, <1>2, CancelShown, IdleShown DEF Seen, CancelSeen, JobSeen, Collecting
  <2> QED
    BY <2>2, <2>3, <2>5, <2>6, SupGoes DEF MayBe
<1> QED
  BY <1>1, <1>2

LEMMA MarkCancelledKeeps ==
  ASSUME Inv, NEW s \in Supervisors, MarkCancelled(s)
  PROVE  Inv'
<1>1. /\ sup[s].at = "mark" /\ Goes(s, "stop")
      /\ intent' = [intent EXCEPT !.reason = IF @ = "none" THEN attempt.reason ELSE @]
      /\ UNCHANGED <<kernel, workspace, bundle, docker, faults>>
  BY DEF MarkCancelled
<1>2. PICK x, y : x = sup[s] /\ y = [x EXCEPT !.at = "stop"]
  OBVIOUS
<1>3. x \in SupType /\ PosedAs(x) /\ Seen(x) /\ x.for = "cancel" /\ "stop" \in Steps
  BY <1>1, <1>2, SupShown DEF PosedAs, Stopping, Steps
<1>4. /\ y \in SupType /\ y.at = "stop" /\ y.for = "cancel" /\ y.log = x.log /\ y.reason = x.reason
  BY <1>2, <1>3, NextShown
<1>5. sup' = [sup EXCEPT ![s] = y]
  BY <1>1, <1>2, <1>3, SupShown DEF Goes
<1>6. message["cancel"].status # "absent" /\ attempt.reason # "none"
  BY <1>2, <1>3, CancelShown
<1>7. StoreType /\ KernelType
  BY TypeShown DEF Inv
<1>8. /\ intent' \in [made : BOOLEAN, reason : Reasons \cup {"none"}] /\ intent'.reason # "none"
  <2>1. PICK why \in Reasons : intent' = [intent EXCEPT !.reason = why]
    <3>1. CASE intent.reason = "none"
      BY <3>1, <1>1, <1>6, <1>7 DEF KernelType, AttemptType, StoreType
    <3>2. CASE intent.reason # "none"
      BY <3>2, <1>1, <1>7 DEF StoreType
    <3> QED
      BY <3>1, <3>2
  <2> QED
    BY <2>1, <1>7 DEF StoreType, Reasons
<1>9. PosedAs(y)
  BY <1>3, <1>4 DEF PosedAs, Starting, Stopping, Reading, Collecting
<1>10. Seen(y)'
  <2>1. UNCHANGED <<message, log, bundle>>
    BY <1>1 DEF kernel, docker
  <2> QED
    BY <1>3, <1>4, <1>6, <1>8, <2>1 DEF Seen, CancelSeen, JobSeen
<1>11. faults' \in 0..MaxFaults /\ faults <= faults' /\ workspace' \in {"empty", "filled", "removed"}
       /\ (container.status = "removed" => workspace' = "removed")
  BY <1>1, <1>7, DriverRunsAssumption DEF KernelType, StoreType, Inv, DockerOK
<1>12. MayBe(s, y)
  BY <1>4, <1>9 DEF MayBe
<1> QED
  BY <1>1, <1>4, <1>5, <1>8, <1>10, <1>11, <1>12, SupStep

\* The container may be stopped, or Docker refuse that.
LEMMA LookStep ==
  ASSUME Inv, NEW s \in Supervisors, NEW y \in SupType, y.for = "start" => sup[s].for = "start" /\ y.at # "run",
         sup' = [sup EXCEPT ![s] = y], Looked, UNCHANGED <<kernel, store, log>>
  PROVE  /\ Forward /\ container'.launches = container.launches
         /\ Same \/ Ends
         /\ PosedAs(y) /\ Seen(y)' => Inv'
<1>1. container' \in ContainerType /\ (Same \/ Ends)
  BY DEF Looked
<1>2. KernelType
  BY TypeShown DEF Inv
<1>3. faults \in Nat /\ faults' \in 0..MaxFaults /\ faults' \in Nat /\ faults <= faults'
  BY DEF Looked
<1>4. sup \in [Supervisors -> SupType]
  BY SupShown
<1>5. \A r \in Supervisors : sup'[r] = IF r = s THEN y ELSE sup[r]
  BY <1>4
<1>6. /\ Forward /\ container' \in ContainerType /\ container'.launches = container.launches
      /\ BundleOK' /\ KernelOK' /\ DockerOK' /\ EvidenceIsDurable' /\ StartsOK'
  <2>1. \A r \in Supervisors : sup'[r].for = "start" =>
          sup[r].for = "start" /\ (sup'[r].at = "run" => sup[r].at = "run")
    <3> SUFFICES ASSUME NEW r \in Supervisors, sup'[r].for = "start"
                 PROVE  sup[r].for = "start" /\ (sup'[r].at = "run" => sup[r].at = "run")
      OBVIOUS
    <3>1. CASE r = s
      BY <1>5, <3>1
    <3>2. CASE r # s
      BY <1>5, <3>2
    <3> QED
      BY <3>1, <3>2
  <2> QED
    BY <1>1, <2>1, ExitForward
<1>8. ASSUME PosedAs(y), Seen(y)'
      PROVE  Inv'
  <2>1. UNCHANGED <<attempt, lease, message, intent, workspace, bundle, log>>
    BY DEF kernel, store
  <2>2. TypeOK'
    <3>1. KernelType' /\ StoreType' /\ DockerType'
      BY <2>1, <1>3, <1>6, TypeShown DEF Inv, KernelType, StoreType, DockerType, ContainerType
    <3> QED
      BY <3>1, <1>4, TypeShown
  <2>3. SupsOK'
    BY <1>4, <1>6, <1>8, SupsKept DEF Inv
  <2>4. DeliveriesOK'
    <3>1. \A m \in {"start", "cancel"} : message[m].deliveries \in Nat
      BY <1>2, DriverRunsAssumption DEF KernelType, MessageType
    <3> QED
      BY <3>1, <2>1, <1>3, DriverRunsAssumption DEF Inv, DeliveriesOK
  <2> QED
    BY <1>6, <2>2, <2>3, <2>4 DEF Inv
<1> QED
  BY <1>1, <1>6, <1>8

LEMMA StopContainerKeeps ==
  ASSUME Inv, NEW s \in Supervisors, StopContainer(s)
  PROVE  Inv'
<1>1. /\ sup[s].at = "stop" /\ Goes(s, "collect") /\ UNCHANGED <<kernel, store, log>>
      /\ Looked
  BY LookedShown DEF StopContainer
<1>2. PICK x, y : x = sup[s] /\ y = [x EXCEPT !.at = "collect"]
  OBVIOUS
<1>3. x \in SupType /\ PosedAs(x) /\ Seen(x) /\ x.for = "cancel" /\ x.at = "stop" /\ "collect" \in Steps
  BY <1>1, <1>2, SupShown DEF PosedAs, Stopping, Steps, Collecting
<1>4. /\ y \in SupType /\ y.at = "collect" /\ y.for = "cancel" /\ y.log = x.log /\ y.reason = x.reason
  BY <1>2, <1>3, NextShown
<1>5. sup' = [sup EXCEPT ![s] = y]
  BY <1>1, <1>2, <1>3, SupShown DEF Goes
<1>6. PosedAs(y)
  BY <1>3, <1>4 DEF PosedAs, Starting, Stopping, Reading, Collecting
<1>7. Seen(y)'
  <2>1. UNCHANGED <<message, log, bundle, intent>>
    BY <1>1 DEF kernel, store
  <2> QED
    BY <1>3, <1>4, <2>1 DEF Seen, CancelSeen, JobSeen
<1> QED
  BY <1>1, <1>4, <1>5, <1>6, <1>7, LookStep

LEMMA VerdictShown ==
  ASSUME NEW seen \in Logs, NEW why \in Reasons \cup {"none"}
  PROVE  /\ Verdict(seen, why) \in Outcomes \cup {"running"}
         /\ Verdict(seen, why) \in Verdicts \cup {"running"} =>
              why = "none" /\ seen.flaw = "none"
         /\ Verdict(seen, why) \in Verdicts => seen.verdict = Verdict(seen, why)
<1>1. seen.flaw \in Flaws \cup {"none"} /\ seen.verdict \in Verdicts \cup {"none"}
  BY DEF Logs
<1>2. CASE why # "none"
  BY <1>2 DEF Verdict, Outcomes, Reasons, Verdicts
<1>3. CASE why = "none" /\ seen.flaw # "none"
  <2>1. CASE seen.flaw = "malformed"
    BY <1>3, <2>1 DEF Verdict, Outcomes, Reasons, Verdicts
  <2>2. CASE seen.flaw = "violation"
    BY <1>3, <2>2 DEF Verdict, Outcomes, Reasons, Verdicts
  <2>3. CASE seen.flaw = "approval"
    BY <1>3, <2>3 DEF Verdict, Outcomes, Reasons, Verdicts
  <2> QED
    BY <1>1, <1>3, <2>1, <2>2, <2>3 DEF Flaws
<1>4. CASE why = "none" /\ seen.flaw = "none" /\ seen.verdict # "none"
  BY <1>1, <1>4 DEF Verdict, Outcomes, Reasons, Verdicts
<1>5. CASE why = "none" /\ seen.flaw = "none" /\ seen.verdict = "none"
  BY <1>5 DEF Verdict, Verdicts
<1> QED
  BY <1>2, <1>3, <1>4, <1>5

\* What an inspection makes of the container it looked at.
LEMMA OutcomeShown ==
  ASSUME Inv, NEW s \in Supervisors,
         Same \/ Ends
  PROVE  LET x == sup[s] IN
         /\ OutcomeSeen(s) \in Outcomes \cup {"running"}
         /\ OutcomeSeen(s) = "succeeded" =>
              /\ x.reason = "none" /\ x.log.flaw = "none" /\ x.log.verdict = "succeeded"
              /\ Same /\ container.status # "running" /\ container.code = "zero"
         /\ OutcomeSeen(s) \notin {"running", "protocol_invalid"} \cup Verdicts =>
              x.reason # "none" \/ x.log.flaw # "none"
         /\ OutcomeSeen(s) # "running" =>
              container'.status # "running" \/ x.reason # "none" \/ x.log.flaw # "none"
         /\ x.reason # "none" => OutcomeSeen(s) # "succeeded"
<1> DEFINE x == sup[s]
           v == Verdict(x.log, x.reason)
           u == StatusSeen(s)
<1>1. x.log \in Logs /\ x.reason \in Reasons \cup {"none"}
  BY SupShown DEF SupType
<1>2. /\ v \in Outcomes \cup {"running"}
      /\ v \in Verdicts \cup {"running"} => x.reason = "none" /\ x.log.flaw = "none"
      /\ v \in Verdicts => x.log.verdict = v
  BY <1>1, VerdictShown
<1>3. u = IF v \in Verdicts /\ container.status = "running" THEN "running" ELSE v
  BY DEF StatusSeen
<1>4. /\ container'.status # "running" /\ u = "running" => OutcomeSeen(s) = "protocol_invalid"
      /\ ~ (container'.status # "running" /\ u = "running") /\ u = "succeeded" /\ container'.code # "zero" =>
           OutcomeSeen(s) = "protocol_invalid"
      /\ ~ (container'.status # "running" /\ u = "running") /\ ~ (u = "succeeded" /\ container'.code # "zero") =>
           OutcomeSeen(s) = u
  <2> HIDE DEF u
  <2>1. OutcomeSeen(s) = CASE container'.status # "running" /\ u = "running" -> "protocol_invalid"
                           [] u = "succeeded" /\ container'.code # "zero" -> "protocol_invalid"
                           [] OTHER -> u
    BY Zenon DEF OutcomeSeen, u
  <2>2. ~ (container'.status # "running" /\ u = "running" /\ u = "succeeded")
    OBVIOUS
  <2> QED
    BY <2>1, <2>2
<1> HIDE DEF u, v, x
<1>5. OutcomeSeen(s) \in {"protocol_invalid", u}
  BY <1>4
<1>6. "protocol_invalid" \in Outcomes /\ "protocol_invalid" \notin Verdicts
  BY DEF Outcomes, Verdicts
<1>7. "succeeded" \in Verdicts /\ "running" \notin Verdicts
  BY DEF Verdicts
<1>8. OutcomeSeen(s) = "succeeded" => u = "succeeded" /\ container'.code = "zero"
  BY <1>4, <1>5
<1>9. OutcomeSeen(s) = "succeeded" =>
              /\ x.reason = "none" /\ x.log.flaw = "none" /\ x.log.verdict = "succeeded"
              /\ Same /\ container.status # "running" /\ container.code = "zero"
  <2>1. Ends => ~Same /\ container.status = "running" /\ container'.status # "running"
    BY DEF Same, Ends
  <2>2. Same => container'.status = container.status /\ container'.code = container.code
    BY DEF Same
  <2> QED
    BY <1>2, <1>3, <1>7, <1>8, <2>1, <2>2
<1>10. OutcomeSeen(s) # "running" =>
              container'.status # "running" \/ x.reason # "none" \/ x.log.flaw # "none"
  <2> SUFFICES ASSUME OutcomeSeen(s) # "running", container'.status = "running"
               PROVE  x.reason # "none" \/ x.log.flaw # "none"
    OBVIOUS
  <2>1. container.status = "running" /\ u # "running"
    BY <1>4 DEF Same, Ends
  <2>2. v \notin Verdicts /\ v # "running"
    BY <2>1, <1>3
  <2>3. x.reason = "none" /\ x.log.flaw = "none" => v \in Verdicts \cup {"running"}
    <3>1. x.log.verdict \in Verdicts \cup {"none"}
      BY <1>1 DEF Logs
    <3> QED
      BY <3>1, <1>7 DEF v, Verdict
  <2> QED
    BY <2>2, <2>3
<1>11. OutcomeSeen(s) \notin {"running", "protocol_invalid"} \cup Verdicts =>
              x.reason # "none" \/ x.log.flaw # "none"
  <2> SUFFICES ASSUME OutcomeSeen(s) \notin {"running", "protocol_invalid"} \cup Verdicts
               PROVE  x.reason # "none" \/ x.log.flaw # "none"
    OBVIOUS
  <2>1. v \notin Verdicts \cup {"running"}
    BY <1>3, <1>5
  <2>3. x.reason = "none" /\ x.log.flaw = "none" => v \in Verdicts \cup {"running"}
    <3>1. x.log.verdict \in Verdicts \cup {"none"}
      BY <1>1 DEF Logs
    <3> QED
      BY <3>1, <1>7 DEF v, Verdict
  <2> QED
    BY <2>1, <2>3
<1>12. OutcomeSeen(s) \in Outcomes \cup {"running"}
  BY <1>2, <1>3, <1>5, <1>6
<1> QED
  BY <1>9, <1>10, <1>11, <1>12 DEF x

\* The log and the intent are read.
LEMMA ReadLogKeeps ==
  ASSUME Inv, NEW s \in Supervisors, NEW next \in {"examine", "judge"}, ReadLog(s, next), bundle = NoBundle,
         \/ sup[s].for = "job" /\ sup[s].at = "inspect" /\ next = "examine"
         \/ sup[s].for \in {"cancel", "job"} /\ sup[s].at = "collect" /\ next = "judge",
         UNCHANGED <<kernel, store, docker, faults>>
  PROVE  Inv'
<1>1. CASE ~HasContainer
  BY <1>1, ThrowsKeeps DEF ReadLog
<1>2. CASE HasContainer
  <2>1. PICK x, y : x = sup[s] /\ y = [x EXCEPT !.at = next, !.log = log, !.reason = intent.reason]
    OBVIOUS
  <2>2. sup' = [sup EXCEPT ![s] = y]
    BY <1>2, <2>1 DEF ReadLog, Does
  <2>3. x \in SupType /\ PosedAs(x) /\ Seen(x)
    BY <2>1, SupShown
  <2>4. log \in Logs /\ intent.reason \in Reasons \cup {"none"} /\ next \in Steps
    BY ContainerShown, TypeShown DEF Inv, StoreType, Steps, Reading, Collecting
  <2>5. /\ y \in SupType /\ y.at = next /\ y.for = x.for /\ y.log = log /\ y.reason = intent.reason
    BY <2>1, <2>3, <2>4 DEF SupType
  <2>6. x.for = "job" \/ (x.for = "cancel" /\ next = "judge")
    BY <2>1
  <2>7. PosedAs(y)
    BY <2>5, <2>6 DEF PosedAs, Starting, Stopping, Reading, Collecting, Inv, DockerOK
  <2>8. CancelSeen(y)
    BY <2>1, <2>3, <2>5, <2>6 DEF Seen, CancelSeen, Collecting
  <2>9. JobSeen(y)
    BY <2>1, <2>3, <2>5, <2>6 DEF Seen, JobSeen
  <2>10. Seen(y)
    BY <2>5, <2>6, <2>8, <2>9 DEF Seen
  <2>11. MayBe(s, y)
    BY <2>5, <2>6, <2>7 DEF MayBe
  <2> QED
    BY <2>2, <2>5, <2>10, <2>11, SupGoes
<1> QED
  BY <1>1, <1>2

\* The bundle is there: it is next to collect it.
LEMMA CollectNext ==
  ASSUME Inv, NEW s \in Supervisors, sup[s].for = "job", Afresh(s, "collect"), bundle # NoBundle,
         UNCHANGED <<kernel, store, docker, faults>>
  PROVE  Inv'
<1>1. "collect" \in Steps
  BY DEF Steps, Collecting
<1>2. PICK y \in SupType :
        /\ sup' = [sup EXCEPT ![s] = y]
        /\ y.at = "collect" /\ y.for = sup[s].for /\ y.log = NoLog /\ y.reason = "none"
  BY <1>1, AfreshShown
<1>3. PosedAs(y)
  BY <1>2, IdleShown DEF PosedAs, Starting, Stopping, Reading, Collecting
<1>4. Seen(sup[s])
  BY SupShown
<1>5. Seen(y)
  BY <1>2, <1>4, IdleShown DEF Seen, CancelSeen, JobSeen
<1> QED
  BY <1>2, <1>3, <1>5, SupGoes DEF MayBe

LEMMA InspectKeeps ==
  ASSUME Inv, NEW s \in Supervisors, Inspect(s)
  PROVE  Inv'
<1>1. sup[s].at = "inspect" /\ UNCHANGED <<kernel, store, docker, faults>>
  BY DEF Inspect
<1>2. sup[s].for = "job"
  BY <1>1, SupShown DEF PosedAs, Reading
<1>3. CASE bundle = NoBundle
  BY <1>1, <1>2, <1>3, ReadLogKeeps DEF Inspect
<1>4. CASE bundle # NoBundle
  BY <1>1, <1>2, <1>4, ThrowsKeeps, CollectNext DEF Inspect
<1> QED
  BY <1>3, <1>4

LEMMA CollectKeeps ==
  ASSUME Inv, NEW s \in Supervisors, Collect(s)
  PROVE  Inv'
<1>1. sup[s].at = "collect" /\ UNCHANGED <<kernel, store, docker, faults>>
  BY DEF Collect
<1>2. sup[s].for \in {"cancel", "job"}
  BY <1>1, SupShown DEF PosedAs, Collecting
<1>3. CASE bundle = NoBundle
  BY <1>1, <1>2, <1>3, ReadLogKeeps DEF Collect
<1>4. CASE bundle # NoBundle
  <2>1. PICK x, y : x = sup[s] /\ y = [x EXCEPT !.at = "sweep"]
    OBVIOUS
  <2>2. x \in SupType /\ PosedAs(x) /\ Seen(x) /\ "sweep" \in Steps
    BY <2>1, SupShown DEF Steps, Collecting
  <2>3. /\ y \in SupType /\ y.at = "sweep" /\ y.for = x.for /\ y.log = x.log /\ y.reason = x.reason
    BY <2>1, <2>2, NextShown
  <2>4. sup' = [sup EXCEPT ![s] = y]
    BY <1>4, <2>1, SupShown DEF Collect, Goes
  <2>5. PosedAs(y)
    BY <1>2, <2>1, <2>2, <2>3 DEF PosedAs, Starting, Stopping, Reading, Collecting
  <2>6. Seen(y)
    BY <1>1, <1>2, <1>4, <2>1, <2>2, <2>3 DEF Seen, CancelSeen, JobSeen, Collecting
  <2> QED
    BY <1>1, <1>2, <2>1, <2>3, <2>4, <2>5, <2>6, SupGoes DEF MayBe
<1> QED
  BY <1>3, <1>4

LEMMA VanishedKeeps ==
  ASSUME Inv, NEW s \in Supervisors, Vanished(s)
  PROVE  Inv'
<1>1. sup[s].for \in {"cancel", "job"}
  BY SupShown DEF PosedAs, Vanished, Reading, Collecting
<1> QED
  BY <1>1, ThrowsKeeps DEF Vanished

\* Docker refuses what the driver asks, and the call ends.
LEMMA DockerFailsKeeps ==
  ASSUME Inv, NEW s \in Supervisors, DockerFails(s)
  PROVE  Inv'
<1>1. AsksDocker(s) /\ Refused /\ Throws(s) /\ UNCHANGED <<kernel, store, log>>
  BY DEF DockerFails
<1>2. Looked
  BY <1>1, LookedShown
<1>3. sup[s].for \in {"start", "cancel", "job"}
  BY <1>1, SupShown DEF AsksDocker, PosedAs, Starting, Reading, Collecting
<1>4. CASE sup[s].for = "job"
  <2>1. PICK y : y = Idle
    OBVIOUS
  <2>2. sup' = [sup EXCEPT ![s] = y]
    BY <1>1, <1>4, <2>1 DEF Throws, Done, Does
  <2>3. y \in SupType /\ PosedAs(y) /\ Seen(y) /\ y.for = "none"
    BY <2>1, IdleShown
  <2>4. Forward /\ (PosedAs(y) /\ Seen(y)' => Inv')
    BY <1>1, <1>2, <2>2, <2>3, LookStep
  <2> QED
    BY <2>3, <2>4, SeenKept
<1>5. CASE sup[s].for \in {"start", "cancel"}
  <2>1. "fail" \in Steps /\ Afresh(s, "fail")
    BY <1>1, <1>5 DEF Throws, Steps
  <2>2. PICK y \in SupType :
          /\ sup' = [sup EXCEPT ![s] = y]
          /\ y.at = "fail" /\ y.for = sup[s].for /\ y.log = NoLog /\ y.reason = "none"
    BY <2>1, AfreshShown
  <2>3. y.for = "cancel" => message["cancel"].status # "absent"
    BY <2>2, CancelShown
  <2>4. PosedAs(y)
    BY <1>5, <2>2, IdleShown DEF PosedAs, Starting, Stopping, Reading, Collecting
  <2>5. Seen(y)
    BY <1>5, <2>2, <2>3, IdleShown DEF Seen, CancelSeen, JobSeen, Collecting
  <2>6. Forward /\ (PosedAs(y) /\ Seen(y)' => Inv')
    BY <1>1, <1>2, <2>2, LookStep
  <2> QED
    BY <2>4, <2>5, <2>6, SeenKept
<1> QED
  BY <1>3, <1>4, <1>5

\* What was looked at is a container that has been started.
LEMMA LookedAt ==
  ASSUME Inv, NEW s \in Supervisors, sup[s].for \in {"cancel", "job"}, HasContainer
  PROVE  container.status \in {"running", "exited"}
<1>1. attempt.external
  BY CancelShown, SupShown DEF Seen, JobSeen
<1>2. Launched
  BY <1>1 DEF Inv, KernelOK
<1> QED
  BY <1>2, ContainerShown DEF Launched, HasContainer, ContainerType

LEMMA ExamineKeeps ==
  ASSUME Inv, NEW s \in Supervisors, Examine(s)
  PROVE  Inv'
<1>1. /\ sup[s].at = "examine" /\ HasContainer /\ UNCHANGED <<kernel, store, log>>
      /\ Looked
  BY LookedShown DEF Examine, Look
<1>2. PICK x : x = sup[s]
  OBVIOUS
<1>3. x \in SupType /\ PosedAs(x) /\ Seen(x) /\ x.for = "job" /\ x.log \in Logs
  BY <1>1, <1>2, SupShown DEF PosedAs, Reading
<1>4. container.status \in {"running", "exited"}
  BY <1>1, <1>2, <1>3, LookedAt
<1>5. UNCHANGED <<attempt, lease, message, intent, workspace, bundle>>
  BY <1>1 DEF kernel, store
<1>6. /\ NoStarts /\ attempt.external /\ container.launches <= 1
  BY <1>3 DEF Seen, JobSeen
<1>7. CASE EventsSeen(s) > sup[s].cursor
  <2>1. PICK n : n = EventsSeen(s)
    OBVIOUS
  <2>2. n \in Counts
    <3>1. x.log.count \in Counts /\ 0 \in Counts
      BY <1>3, DriverRunsAssumption DEF Logs, Counts
    <3>2. Events(x.log) \in Counts
      BY <3>1 DEF Events
    <3>3. Verdict(x.log, x.reason) \in Verdicts => Events(x.log) - 1 \in Counts
      <4> SUFFICES ASSUME Verdict(x.log, x.reason) \in Verdicts
                   PROVE  Events(x.log) - 1 \in Counts
        OBVIOUS
      <4>1. x.reason \in Reasons \cup {"none"}
        BY <1>3 DEF SupType
      <4>2. x.log.flaw = "none" /\ x.log.verdict \in Verdicts
        BY <1>3, <4>1, VerdictShown
      <4>3. x.log.count > 0
        BY <1>3, <4>2 DEF PosedAs, Verdicts
      <4> QED
        BY <3>1, <4>2, <4>3, DriverRunsAssumption DEF Events, Counts
    <3> QED
      BY <1>2, <2>1, <3>2, <3>3 DEF EventsSeen
  <2>3. PICK y : y = [x EXCEPT !.at = "observe", !.reason = "none", !.log = [NoLog EXCEPT !.count = n]]
    OBVIOUS
  <2>4. sup' = [sup EXCEPT ![s] = y]
    BY <1>2, <1>7, <2>1, <2>3 DEF Examine, Does
  <2>5. PICK seen : seen = [NoLog EXCEPT !.count = n]
    OBVIOUS
  <2>6. seen \in Logs /\ seen.flaw = "none" /\ seen.verdict = "none"
    BY <2>2, <2>5 DEF NoLog, Logs
  <2>7. /\ y \in SupType /\ y.at = "observe" /\ y.for = "job" /\ y.log = seen /\ y.reason = "none"
    BY <1>3, <2>3, <2>5, <2>6 DEF SupType, Steps, Reading
  <2>8. PosedAs(y)
    BY <2>6, <2>7 DEF PosedAs, Starting, Stopping, Reading, Collecting
  <2>9. Forward /\ container'.launches = container.launches /\ (PosedAs(y) /\ Seen(y)' => Inv')
    BY <1>1, <2>4, <2>7, LookStep
  <2>10. NoStarts' /\ attempt'.external
    BY <1>5, <1>6, <2>9 DEF Forward
  <2>11. Seen(y)'
    BY <1>6, <2>6, <2>7, <2>9, <2>10 DEF Seen, CancelSeen, JobSeen
  <2> QED
    BY <2>8, <2>9, <2>11
<1>8. CASE ~ (EventsSeen(s) > sup[s].cursor) /\ OutcomeSeen(s) = "running"
  <2>1. PICK y : y = Idle
    OBVIOUS
  <2>2. sup' = [sup EXCEPT ![s] = y]
    BY <1>8, <2>1 DEF Examine, Done, Does
  <2>3. y \in SupType /\ PosedAs(y) /\ Seen(y) /\ y.for # "start"
    BY <2>1, IdleShown
  <2>4. Forward /\ (PosedAs(y) /\ Seen(y)' => Inv')
    BY <1>1, <2>2, <2>3, LookStep
  <2> QED
    BY <2>3, <2>4, SeenKept
<1>9. CASE ~ (EventsSeen(s) > sup[s].cursor) /\ OutcomeSeen(s) # "running"
  <2>1. "collect" \in Steps /\ Afresh(s, "collect")
    BY <1>9 DEF Examine, Steps, Collecting
  <2>2. PICK y \in SupType :
          /\ sup' = [sup EXCEPT ![s] = y]
          /\ y.at = "collect" /\ y.for = sup[s].for /\ y.log = NoLog /\ y.reason = "none"
    BY <2>1, AfreshShown
  <2>3. y.for = "job"
    BY <1>2, <1>3, <2>2
  <2>4. PosedAs(y)
    BY <2>2, <2>3, IdleShown DEF PosedAs, Starting, Stopping, Reading, Collecting
  <2>5. /\ Forward /\ container'.launches = container.launches
        /\ Same \/ Ends
        /\ PosedAs(y) /\ Seen(y)' => Inv'
    BY <1>1, <2>2, <2>3, LookStep
  <2>6. container'.status # "running" \/ x.reason # "none" \/ x.log.flaw # "none"
    BY <1>2, <1>9, <2>5, OutcomeShown
  <2>7. intent'.reason # "none" \/ log'.flaw # "none" \/ Gone'
    <3>1. x.reason # "none" \/ x.log.flaw # "none" => intent'.reason # "none" \/ log'.flaw # "none"
      BY <1>1, <1>3, <1>5 DEF Seen
    <3>2. container'.status # "running" => Gone'
      BY <1>4, <2>5 DEF Gone, Same, Ends
    <3> QED
      BY <2>6, <3>1, <3>2
  <2>8. NoStarts' /\ attempt'.external
    BY <1>5, <1>6, <2>5 DEF Forward
  <2>9. Seen(y)'
    BY <1>6, <2>2, <2>3, <2>5, <2>7, <2>8, IdleShown DEF Seen, CancelSeen, JobSeen
  <2> QED
    BY <2>4, <2>5, <2>9
<1> QED
  BY <1>7, <1>8, <1>9

LEMMA JudgeKeeps ==
  ASSUME Inv, NEW s \in Supervisors, Judge(s)
  PROVE  Inv'
<1>1. /\ sup[s].at = "judge" /\ HasContainer /\ UNCHANGED <<kernel, store, log>>
      /\ Looked
  BY LookedShown DEF Judge, Look
<1>2. PICK x : x = sup[s]
  OBVIOUS
<1>3. x \in SupType /\ PosedAs(x) /\ Seen(x) /\ x.for \in {"cancel", "job"} /\ x.log \in Logs
  BY <1>1, <1>2, SupShown DEF PosedAs, Collecting
<1>4. container.status \in {"running", "exited"}
  BY <1>1, <1>2, <1>3, LookedAt
<1>5. UNCHANGED <<attempt, lease, message, intent, workspace, bundle>>
  BY <1>1 DEF kernel, store
<1>6. CASE OutcomeSeen(s) = "running" /\ x.for = "job"
  <2>1. PICK y : y = Idle
    OBVIOUS
  <2>2. sup' = [sup EXCEPT ![s] = y]
    BY <1>2, <1>6, <2>1 DEF Judge, Throws, Done, Does
  <2>3. y \in SupType /\ PosedAs(y) /\ Seen(y) /\ y.for # "start"
    BY <2>1, IdleShown
  <2>4. Forward /\ (PosedAs(y) /\ Seen(y)' => Inv')
    BY <1>1, <2>2, <2>3, LookStep
  <2> QED
    BY <2>3, <2>4, SeenKept
<1>7. CASE OutcomeSeen(s) = "running" /\ x.for = "cancel"
  <2>1. "fail" \in Steps /\ Afresh(s, "fail")
    BY <1>2, <1>7 DEF Judge, Throws, Steps
  <2>2. PICK y \in SupType :
          /\ sup' = [sup EXCEPT ![s] = y]
          /\ y.at = "fail" /\ y.for = sup[s].for /\ y.log = NoLog /\ y.reason = "none"
    BY <2>1, AfreshShown
  <2>3. y.for = "cancel" /\ message["cancel"].status # "absent"
    BY <1>2, <1>7, <2>2, CancelShown
  <2>4. PosedAs(y)
    BY <2>2, <2>3, IdleShown DEF PosedAs, Starting, Stopping, Reading, Collecting
  <2>5. Seen(y)
    BY <2>2, <2>3, IdleShown DEF Seen, CancelSeen, JobSeen, Collecting
  <2>6. Forward /\ (PosedAs(y) /\ Seen(y)' => Inv')
    BY <1>1, <2>2, <2>3, LookStep
  <2> QED
    BY <2>4, <2>5, <2>6, SeenKept
<1>8. CASE OutcomeSeen(s) # "running"
  <2>1. PICK o, y : /\ o \in {OutcomeSeen(s), "protocol_invalid"} /\ y = [x EXCEPT !.at = "keep", !.outcome = o]
                    /\ sup' = [sup EXCEPT ![s] = y]
    BY <1>2, <1>8 DEF Judge, Does
  <2>2. sup' = [sup EXCEPT ![s] = y]
    BY <2>1
  <2>3. Same \/ Ends
    BY <1>1 DEF Looked
  <2>4. /\ o \in Outcomes
        /\ o = "succeeded" =>
              /\ x.reason = "none" /\ x.log.flaw = "none" /\ x.log.verdict = "succeeded"
              /\ Same /\ container.status # "running" /\ container.code = "zero"
    BY <1>2, <1>8, <2>1, <2>3, OutcomeShown DEF Outcomes
  <2>5. /\ y \in SupType /\ y.at = "keep" /\ y.for = x.for /\ y.log = x.log /\ y.reason = x.reason
        /\ y.outcome = o
    BY <1>3, <2>1, <2>4 DEF SupType, Steps, Collecting
  <2>6. PosedAs(y)
    BY <1>3, <2>4, <2>5 DEF PosedAs, Starting, Stopping, Reading, Collecting
  <2>7. Forward /\ container'.launches = container.launches /\ (PosedAs(y) /\ Seen(y)' => Inv')
    BY <1>1, <1>3, <2>2, <2>5, LookStep
  <2>8. CancelSeen(y)'
    BY <1>1, <1>2, <1>3, <1>5, <2>4, <2>5 DEF Seen, CancelSeen, Collecting
  <2>9. JobSeen(y)'
    <3> SUFFICES ASSUME x.for = "job"
                 PROVE  /\ attempt'.external /\ NoStarts' /\ container'.launches <= 1
                        /\ o = "succeeded" => Earned(x.log.count)' /\ x.log = log'
      BY <2>5 DEF JobSeen, Earned, Gone
    <3>1. /\ attempt'.external /\ NoStarts' /\ container.launches <= 1
      BY <1>3, <1>5, <2>7 DEF Seen, JobSeen, Forward
    <3>2. ASSUME o = "succeeded"
          PROVE  Earned(x.log.count)' /\ x.log = log'
      <4>1. Gone /\ x.log = log
        BY <1>1, <1>2, <1>3, <2>4, <3>2 DEF Seen, JobSeen
      <4>2. container.launches = 1
        <5>1. container.launches # 0
          BY <2>4, <3>2, <4>1, IdleShown DEF Inv, DockerOK
        <5>2. container.launches \in 0..2
          BY ContainerShown DEF ContainerType
        <5> QED
          BY <3>1, <5>1, <5>2
      <4> QED
        BY <1>1, <2>4, <3>2, <4>1, <4>2 DEF Earned, Gone, Same
    <3> QED
      BY <2>7, <3>1, <3>2
  <2>10. Seen(y)'
    BY <1>1, <1>3, <1>5, <2>5, <2>8, <2>9 DEF Seen
  <2> QED
    BY <2>6, <2>7, <2>10
<1> QED
  BY <1>3, <1>6, <1>7, <1>8

\* The first bundle is what has been judged.
LEMMA KeepKeeps ==
  ASSUME Inv, NEW s \in Supervisors, Keep(s)
  PROVE  Inv'
<1>1. /\ sup[s].at = "keep" /\ bundle' = (IF bundle = NoBundle THEN Judged(s) ELSE bundle)
      /\ Afresh(s, "sweep") /\ UNCHANGED <<kernel, intent, workspace, docker, faults>>
  BY DEF Keep
<1>2. PICK x : x = sup[s]
  OBVIOUS
<1>3. /\ x \in SupType /\ PosedAs(x) /\ Seen(x) /\ x.for \in {"cancel", "job"} /\ x.log \in Logs
      /\ x.outcome \in Outcomes
  BY <1>1, <1>2, SupShown DEF PosedAs, Collecting
<1>4. UNCHANGED <<attempt, lease, message, container, log>>
  BY <1>1 DEF kernel, docker
<1>5. PICK y \in SupType :
        /\ sup' = [sup EXCEPT ![s] = y]
        /\ y.at = "sweep" /\ y.for = sup[s].for /\ y.log = NoLog /\ y.reason = "none"
  BY <1>1, AfreshShown DEF Steps, Collecting
<1>6. sup \in [Supervisors -> SupType]
  BY SupShown
<1>7. sup' \in [Supervisors -> SupType] /\ \A r \in Supervisors : sup'[r] = IF r = s THEN y ELSE sup[r]
  BY <1>5, <1>6
<1>8. y.for = x.for
  BY <1>2, <1>5
<1>9. NoStarts => NoStarts'
  BY <1>3, <1>4, <1>7, <1>8 DEF NoStarts, Begun
<1>10. Forward
  BY <1>1, <1>4, <1>9 DEF Forward, Launched, Gone
<1>11. PosedAs(y)
  BY <1>3, <1>5, <1>8, IdleShown DEF PosedAs, Starting, Stopping, Reading, Collecting
<1>12. PICK b : b = Judged(s)
  OBVIOUS
<1>13. b = [outcome |-> x.outcome, count |-> Events(x.log)]
  BY <1>2, <1>12 DEF Judged
<1>14. b \in [outcome : Outcomes \cup {"none"}, count : Counts] /\ b.outcome = x.outcome /\ b.count = Events(x.log)
  <2>1. x.log.count \in Counts /\ 0 \in Counts
    BY <1>3, DriverRunsAssumption DEF Logs, Counts
  <2> QED
    BY <1>3, <1>13, <2>1 DEF Events
<1>15. b # NoBundle /\ "none" \notin Outcomes
  BY <1>3, <1>14 DEF NoBundle, Outcomes, Verdicts, Reasons
<1>16. bundle' # NoBundle
  BY <1>1, <1>12, <1>15
<1>17. Seen(y)'
  <2>1. CancelSeen(y)'
    BY <1>1, <1>3, <1>4, <1>5, <1>2, <1>8 DEF Seen, CancelSeen, Collecting
  <2>2. JobSeen(y)'
    BY <1>1, <1>3, <1>4, <1>5, <1>8, <1>9 DEF Seen, JobSeen
  <2> QED
    BY <1>3, <1>5, <1>8, <1>16, <2>1, <2>2, IdleShown DEF Seen
<1>18. SupsOK'
  BY <1>5, <1>6, <1>10, <1>11, <1>17, SupsKept DEF Inv
<1>19. StartsOK'
  <2> SUFFICES ASSUME Prompt
               PROVE  /\ container.launches <= 1
                      /\ message["start"].status = "leased" => message["start"].live
                      /\ \A r \in Supervisors : sup'[r].for = "start" =>
                           /\ attempt.status = "starting"
                           /\ message["start"].status = "leased" /\ message["start"].holder = r
                           /\ sup'[r].at = "run" => container.status = "created"
    BY <1>4 DEF StartsOK, Prompt
  <2> QED
    BY <1>3, <1>7, <1>8 DEF Inv, StartsOK
<1>20. TypeOK'
  <2>1. bundle \in [outcome : Outcomes \cup {"none"}, count : Counts]
    BY TypeShown DEF Inv, StoreType
  <2>2. bundle' \in [outcome : Outcomes \cup {"none"}, count : Counts]
    BY <1>1, <1>12, <1>14, <2>1
  <2> QED
    BY <2>2, <1>1, <1>4, <1>7, TypeShown DEF Inv, KernelType, StoreType, DockerType
<1>21. BundleOK'
  <2>1. CASE bundle # NoBundle
    <3>1. UNCHANGED bundle
      BY <1>1, <2>1
    <3> QED
      BY <3>1, <1>10, BundleStays DEF Inv
  <2>2. CASE bundle = NoBundle
    <3>1. bundle'.outcome = x.outcome /\ bundle'.count = Events(x.log)
      BY <1>1, <1>12, <1>14, <2>2
    <3>2. ASSUME x.outcome = "succeeded"
          PROVE  NoStarts' /\ Earned(Events(x.log))'
      <4>1. x.for = "job" /\ x.at = "keep"
        BY <1>1, <1>2, <1>3, <3>2 DEF Seen, CancelSeen
      <4>2. NoStarts /\ Earned(x.log.count) /\ x.log = log
        BY <1>3, <3>2, <4>1 DEF Seen, JobSeen
      <4>3. Events(x.log) = log.count
        BY <4>2 DEF Earned, Events
      <4> QED
        BY <1>4, <1>9, <4>2, <4>3 DEF Earned, Gone, Events
    <3>3. bundle'.outcome = "succeeded" => NoStarts' /\ Earned(bundle.count)'
      BY <3>1, <3>2, <1>4 DEF Earned, Gone
    <3> QED
      BY <1>3, <3>1, <3>3 DEF BundleOK
  <2> QED
    BY <2>1, <2>2
<1>22. EvidenceIsDurable'
  <2> SUFFICES ASSUME attempt.receipt # "none"
               PROVE  bundle' = [outcome |-> attempt.receipt, count |-> attempt.cursor]
    BY <1>4 DEF EvidenceIsDurable
  <2>1. bundle = [outcome |-> attempt.receipt, count |-> attempt.cursor]
    BY DEF Inv, EvidenceIsDurable
  <2>2. bundle # NoBundle
    BY <2>1 DEF NoBundle
  <2> QED
    BY <1>1, <2>1, <2>2
<1>23. DeliveriesOK' /\ KernelOK' /\ DockerOK'
  BY <1>1, <1>4 DEF Inv, DeliveriesOK, KernelOK, DockerOK, Begun, Launched
<1> QED
  BY <1>18, <1>19, <1>20, <1>21, <1>22, <1>23 DEF Inv

LEMMA SweepKeeps ==
  ASSUME Inv, NEW s \in Supervisors, Sweep(s)
  PROVE  Inv'
<1>1. /\ sup[s].at = "sweep" /\ workspace' = "removed" /\ Goes(s, "record")
      /\ (container' = Removed /\ UNCHANGED faults) \/ Refused
      /\ UNCHANGED <<kernel, intent, bundle, log>>
  BY DEF Sweep
<1>2. PICK x, y : x = sup[s] /\ y = [x EXCEPT !.at = "record"]
  OBVIOUS
<1>3. x \in SupType /\ PosedAs(x) /\ Seen(x) /\ x.for \in {"cancel", "job"} /\ "record" \in Steps
  BY <1>1, <1>2, SupShown DEF PosedAs, Collecting, Steps
<1>4. /\ y \in SupType /\ y.at = "record" /\ y.for = x.for /\ y.log = x.log /\ y.reason = x.reason
  BY <1>2, <1>3, NextShown
<1>5. sup \in [Supervisors -> SupType]
  BY SupShown
<1>6. sup' = [sup EXCEPT ![s] = y] /\ sup' \in [Supervisors -> SupType]
      /\ \A r \in Supervisors : sup'[r] = IF r = s THEN y ELSE sup[r]
  BY <1>1, <1>2, <1>4, <1>5 DEF Goes
<1>7. UNCHANGED <<attempt, lease, message>>
  BY <1>1 DEF kernel
<1>8. /\ faults' \in 0..MaxFaults /\ faults' \in Nat /\ faults \in Nat /\ faults <= faults'
  BY <1>1, TypeShown, DriverRunsAssumption DEF Inv, KernelType, Refused
<1>9. /\ container' \in ContainerType /\ container'.launches = container.launches
      /\ container'.status = "removed" \/ container'.status = container.status
      /\ container.status # "running" => container'.code = container.code
  <2>1. CASE Refused
    BY <2>1, LookedShown, ContainerShown DEF Refused, ContainerType
  <2>2. CASE container' = Removed
    <3>1. PICK code \in {"zero", "other"} :
            /\ container' = [container EXCEPT !.status = "removed", !.code = code]
            /\ container.status # "running" => code = container.code
      <4>1. container.code \in {"zero", "other"}
        BY ContainerShown DEF ContainerType
      <4> QED
        BY <2>2, <4>1 DEF Removed
    <3> QED
      BY <3>1, ContainerShown DEF ContainerType
  <2> QED
    BY <1>1, <2>1, <2>2
<1>10. NoStarts => NoStarts'
  BY <1>3, <1>4, <1>6, <1>7 DEF NoStarts, Begun
<1>11. Forward
  BY <1>1, <1>7, <1>9, <1>10 DEF Forward, Launched, Gone
<1>12. attempt.external /\ Launched
  <2>1. attempt.external
    BY <1>2, <1>3, CancelShown DEF Seen, JobSeen
  <2> QED
    BY <2>1 DEF Inv, KernelOK
<1>13. PosedAs(y)
  BY <1>3, <1>4, <1>1, <1>2 DEF PosedAs, Starting, Stopping, Reading, Collecting
<1>14. Seen(y)'
  <2>1. bundle' # NoBundle
    BY <1>1, <1>2, <1>3 DEF Seen
  <2>2. CancelSeen(y)'
    BY <1>1, <1>2, <1>3, <1>4, <1>7 DEF Seen, CancelSeen, Collecting
  <2>3. JobSeen(y)'
    BY <1>3, <1>4, <1>7, <1>9, <1>10 DEF Seen, JobSeen
  <2> QED
    BY <1>1, <1>3, <1>4, <2>1, <2>2, <2>3 DEF Seen
<1>15. SupsOK'
  BY <1>5, <1>6, <1>11, <1>13, <1>14, SupsKept DEF Inv
<1>16. StartsOK'
  <2> SUFFICES ASSUME Prompt
               PROVE  /\ container'.launches <= 1
                      /\ message["start"].status = "leased" => message["start"].live
                      /\ \A r \in Supervisors : sup'[r].for = "start" =>
                           /\ attempt.status = "starting"
                           /\ message["start"].status = "leased" /\ message["start"].holder = r
                           /\ sup'[r].at = "run" => container'.status = "created"
    BY <1>7 DEF StartsOK, Prompt
  <2>1. Begun
    BY <1>12 DEF Inv, KernelOK
  <2> QED
    BY <2>1, <1>3, <1>4, <1>6, <1>9 DEF Inv, StartsOK, Begun
<1>17. TypeOK'
  <2>1. workspace' \in {"empty", "filled", "removed"}
    BY <1>1
  <2> QED
    BY <2>1, <1>1, <1>6, <1>7, <1>8, <1>9, TypeShown DEF Inv, KernelType, StoreType, DockerType, ContainerType
<1>18. BundleOK'
  BY <1>1, <1>11, BundleStays DEF Inv
<1>19. DockerOK'
  BY <1>1, <1>9 DEF Inv, DockerOK, Launched
<1>20. KernelOK' /\ EvidenceIsDurable'
  BY <1>1, <1>7, <1>9, <1>12 DEF Inv, KernelOK, EvidenceIsDurable, Begun, Launched
<1>21. DeliveriesOK'
  <2>1. \A m \in {"start", "cancel"} : message[m].deliveries \in Nat
    BY TypeShown, DriverRunsAssumption DEF Inv, KernelType, MessageType
  <2> QED
    BY <2>1, <1>7, <1>8, DriverRunsAssumption DEF Inv, DeliveriesOK
<1> QED
  BY <1>15, <1>16, <1>17, <1>18, <1>19, <1>20, <1>21 DEF Inv

-----------------------------------------------------------------------------
(* Steps of the kernel.                                                    *)

LEMMA KernelKeeps ==
  ASSUME Inv, KernelType', faults <= faults', UNCHANGED <<store, docker>>,
         UNCHANGED sup \/ \E s \in Supervisors : Done(s),
         Begun => Begun', attempt.external => attempt'.external,
         message["cancel"].status # "absent" => message'["cancel"].status # "absent",
         StartsOK', DeliveriesOK', KernelOK', EvidenceIsDurable'
  PROVE  Inv'
<1>1. UNCHANGED <<intent, workspace, bundle, container, log>>
  BY DEF store, docker
<1>2. sup \in [Supervisors -> SupType] /\ sup' \in [Supervisors -> SupType]
      /\ \A r \in Supervisors : sup'[r] = sup[r] \/ sup'[r].for # "start"
  <2>1. sup \in [Supervisors -> SupType]
    BY TypeShown DEF Inv
  <2>2. CASE UNCHANGED sup
    BY <2>1, <2>2
  <2>3. ASSUME NEW s \in Supervisors, Done(s)
        PROVE  sup' \in [Supervisors -> SupType]
               /\ \A r \in Supervisors : sup'[r] = sup[r] \/ sup'[r].for # "start"
    <3>1. PICK y : y = Idle
      OBVIOUS
    <3>2. y \in SupType /\ y.for = "none" /\ sup' = [sup EXCEPT ![s] = y]
      BY <2>3, <3>1, IdleShown DEF Done, Does
    <3> QED
      BY <2>1, <3>2
  <2> QED
    BY <2>1, <2>2, <2>3
<1>3. TypeOK'
  <2>1. StoreType' /\ DockerType'
    BY <1>1, TypeShown DEF Inv, StoreType, DockerType
  <2> QED
    BY <2>1, <1>2, TypeShown
<1>4. Forward
  <2>1. NoStarts => NoStarts'
    BY <1>2 DEF NoStarts
  <2> QED
    BY <2>1, <1>1 DEF Forward, Launched, Gone
<1>5. SupsOK'
  <2>1. CASE UNCHANGED sup
    BY <2>1, <1>4, SupsStay DEF Inv
  <2>2. ASSUME NEW s \in Supervisors, Done(s)
        PROVE  SupsOK'
    <3>1. PICK y : y = Idle
      OBVIOUS
    <3>2. PosedAs(y) /\ Seen(y) /\ sup' = [sup EXCEPT ![s] = y]
      BY <2>2, <3>1, IdleShown DEF Done, Does
    <3>3. Seen(y)'
      BY <3>2, <1>4, SeenKept
    <3> QED
      BY <3>2, <3>3, <1>2, <1>4, SupsKept DEF Inv
  <2> QED
    BY <2>1, <2>2
<1>6. BundleOK'
  BY <1>1, <1>4, BundleStays DEF Inv
<1>7. DockerOK'
  BY <1>1 DEF Inv, DockerOK, Launched
<1> QED
  BY <1>3, <1>5, <1>6, <1>7 DEF Inv

LEMMA KernelShown ==
  ASSUME Inv
  PROVE  /\ attempt \in AttemptType /\ message \in [{"start", "cancel"} -> MessageType]
         /\ lease \in [holder : Supervisors \cup {NoOne}, live : BOOLEAN]
         /\ faults \in 0..MaxFaults /\ faults \in Nat /\ MaxDeliveries \in Nat \ {0} /\ MaxFaults \in Nat
         /\ message["start"] \in MessageType /\ message["cancel"] \in MessageType
         /\ message["start"].deliveries \in Nat /\ message["cancel"].deliveries \in Nat
         /\ lease.live \in BOOLEAN /\ attempt.overdue \in BOOLEAN
<1>1. KernelType
  BY TypeShown DEF Inv
<1>2. MaxDeliveries \in Nat \ {0} /\ MaxFaults \in Nat
  BY DriverRunsAssumption
<1> QED
  BY <1>1, <1>2 DEF KernelType, MessageType, AttemptType

LEMMA SettledShown ==
  ASSUME Inv, NEW m \in {"start", "cancel"},
         NEW status \in Open \cup {"absent", "delivered", "dead_letter", "obsolete"}
  PROVE  /\ Settled(m, status) \in MessageType
         /\ Settled(m, status).status = status /\ ~Settled(m, status).live
         /\ Settled(m, status).deliveries = message[m].deliveries
<1>1. PICK x : x = message[m]
  OBVIOUS
<1>2. x \in MessageType
  BY <1>1, KernelShown
<1> QED
  BY <1>1, <1>2 DEF Settled, MessageType

LEMMA EnqueuedShown ==
  /\ Enqueued \in MessageType /\ Enqueued.status = "pending" /\ ~Enqueued.live
  /\ Enqueued.deliveries = 0
<1>1. 0 \in 0..MaxDeliveries + MaxFaults + 1
  BY DriverRunsAssumption
<1>2. NoMessage \in MessageType /\ ~NoMessage.live /\ NoMessage.deliveries = 0
  BY <1>1 DEF NoMessage, MessageType, Open
<1> QED
  BY <1>2 DEF Enqueued, MessageType, Open

\* The end of an attempt.
LEMMA EndKeeps ==
  ASSUME Inv, attempt.status \in Live, attempt' \in AttemptType, attempt'.status = "ended",
         ~attempt'.overdue, attempt'.external = attempt.external, lease' = NoLease,
         \/ message' = [message EXCEPT !["start"] = StartObsolete]
         \/ message' = [message EXCEPT !["start"] = Settled("start", "dead_letter")]
         \/ /\ message' = [message EXCEPT !["start"] = StartObsolete, !["cancel"] = Enqueued]
            /\ attempt.external /\ attempt'.reason # "none",
         attempt'.receipt # "none" =>
           bundle = [outcome |-> attempt'.receipt, count |-> attempt'.cursor],
         UNCHANGED sup \/ \E s \in Supervisors : Done(s), UNCHANGED <<store, docker, faults>>
  PROVE  Inv'
<1>1. PICK ms, mc :
        /\ ms = message'["start"] /\ mc = message'["cancel"] /\ message' = [message EXCEPT !["start"] = ms, !["cancel"] = mc]
        /\ ms \in {StartObsolete, Settled("start", "dead_letter")}
        /\ mc = message["cancel"] \/ (mc = Enqueued /\ attempt.external /\ attempt'.reason # "none")
  <2>1. message \in [{"start", "cancel"} -> MessageType]
    BY KernelShown
  <2> QED
    BY <2>1
<1>2. ms \in MessageType /\ ms.status \notin Open /\ ~ms.live /\ ms.deliveries = message["start"].deliveries
  BY <1>1, SettledShown, KernelShown DEF StartObsolete, Open, Inv, DeliveriesOK
<1>3. mc \in MessageType
  BY <1>1, KernelShown, EnqueuedShown
<1>4. KernelType'
  <2>1. NoLease \in [holder : Supervisors \cup {NoOne}, live : BOOLEAN]
    BY DEF NoLease
  <2> QED
    BY <2>1, <1>1, <1>2, <1>3, KernelShown DEF KernelType
<1>5. message["cancel"].status = "absent"
  BY DEF Inv, KernelOK, Live
<1>6. DeliveriesOK'
  BY <1>1, <1>2, <1>3, <1>5, KernelShown, EnqueuedShown DEF Inv, DeliveriesOK, Open
<1>7. StartsOK'
  BY DEF StartsOK, Prompt
<1>8. KernelOK'
  <2>1. UNCHANGED container
    BY DEF docker
  <2>2. attempt'.external => Begun' /\ Launched'
    BY <2>1 DEF Inv, KernelOK, Begun, Launched
  <2> QED
    BY <2>2, <1>1, <1>2, <1>3, <1>5 DEF KernelOK
<1>9. EvidenceIsDurable'
  BY DEF EvidenceIsDurable, store
<1>11. Begun => Begun'
  BY DEF Begun
<1> QED
  BY <1>4, <1>5, <1>6, <1>7, <1>8, <1>9, <1>11, KernelShown, KernelKeeps

LEMMA EndAndCancelKeeps ==
  ASSUME Inv, NEW why \in Reasons, attempt.status \in Live, EndAndCancel(why),
         UNCHANGED <<sup, store, docker, faults>>
  PROVE  Inv'
<1>1. /\ attempt' \in AttemptType /\ attempt'.status = "ended" /\ attempt'.reason = why /\ ~attempt'.overdue
      /\ attempt'.external = attempt.external /\ attempt'.receipt = attempt.receipt
      /\ attempt'.cursor = attempt.cursor /\ lease' = NoLease
  BY KernelShown DEF EndAndCancel, AttemptType
<1>2. why # "none"
  BY DEF Reasons
<1>3. \/ message' = [message EXCEPT !["start"] = StartObsolete]
      \/ /\ message' = [message EXCEPT !["start"] = StartObsolete, !["cancel"] = Enqueued]
         /\ attempt.external
  <2>1. PICK ms : ms = StartObsolete
    OBVIOUS
  <2>2. message' = [message EXCEPT
          !["start"] = ms,
          !["cancel"] = IF attempt.external /\ @.status = "absent" THEN Enqueued ELSE @]
    BY <2>1 DEF EndAndCancel
  <2>3. \/ message' = [message EXCEPT !["start"] = ms]
        \/ message' = [message EXCEPT !["start"] = ms, !["cancel"] = Enqueued] /\ attempt.external
    BY <2>2, KernelShown
  <2> QED
    BY <2>1, <2>3
<1>4. attempt'.receipt # "none" => bundle = [outcome |-> attempt'.receipt, count |-> attempt'.cursor]
  BY <1>1 DEF Inv, EvidenceIsDurable
<1> QED
  BY <1>1, <1>2, <1>3, <1>4, EndKeeps

LEMMA CancelRunKeeps ==
  ASSUME Inv, CancelRun
  PROVE  Inv'
BY EndAndCancelKeeps DEF CancelRun, Reasons

LEMMA TimeoutKeeps ==
  ASSUME Inv, NEW s \in Supervisors, Timeout(s)
  PROVE  Inv'
<1>1. attempt.overdue /\ EndAndCancel("timed_out") /\ UNCHANGED <<sup, store, docker, faults>>
  BY DEF Timeout
<1>2. attempt.status \in Live
  BY <1>1 DEF Inv, KernelOK
<1> QED
  BY <1>1, <1>2, EndAndCancelKeeps DEF Reasons

LEMMA VerificationEndsKeeps ==
  ASSUME Inv, VerificationEnds
  PROVE  Inv'
<1>1. /\ attempt' \in AttemptType /\ attempt'.status = "ended" /\ attempt.status \in Live /\ ~attempt'.overdue
      /\ attempt'.external = attempt.external /\ attempt'.receipt = attempt.receipt
      /\ attempt'.cursor = attempt.cursor /\ lease' = NoLease
      /\ message' = [message EXCEPT !["start"] = StartObsolete]
  BY KernelShown DEF VerificationEnds, EndWith, AttemptType, Live
<1>2. attempt'.receipt # "none" => bundle = [outcome |-> attempt'.receipt, count |-> attempt'.cursor]
  BY <1>1 DEF Inv, EvidenceIsDurable
<1> QED
  BY <1>1, <1>2, EndKeeps DEF VerificationEnds

LEMMA DeadlinePassesKeeps ==
  ASSUME Inv, DeadlinePasses
  PROVE  Inv'
<1>1. /\ attempt' \in AttemptType /\ attempt'.overdue /\ attempt'.status = attempt.status
      /\ attempt'.external = attempt.external /\ attempt'.receipt = attempt.receipt
      /\ attempt'.cursor = attempt.cursor /\ attempt'.reason = attempt.reason
      /\ UNCHANGED <<lease, message, store, docker, sup, faults>>
  BY KernelShown DEF DeadlinePasses, AttemptType
<1>2. UNCHANGED <<bundle, container>>
  BY <1>1 DEF store, docker
<1>3. KernelType' /\ StartsOK' /\ DeliveriesOK' /\ KernelOK' /\ EvidenceIsDurable' /\ (Begun => Begun')
  BY <1>1, <1>2, KernelShown
  DEF DeadlinePasses, Inv, KernelType, StartsOK, Prompt, DeliveriesOK, KernelOK, EvidenceIsDurable, Begun, Launched
<1> QED
  BY <1>1, <1>3, KernelShown, KernelKeeps

\* A step that changes no more than one message.
LEMMA MessageKeeps ==
  ASSUME Inv, NEW m \in {"start", "cancel"}, NEW x \in MessageType, message' = [message EXCEPT ![m] = x],
         x.status \in Open \cup {"delivered", "dead_letter"},
         message[m].status \in Open,
         x.status \in Open \/ m = "cancel",
         x.live => x.status = "leased", x.status = "pending" => x.deliveries < MaxDeliveries,
         x.deliveries <= MaxDeliveries + faults',
         x.status = "leased" /\ ~x.live => x.deliveries < MaxDeliveries + faults',
         Prompt /\ m = "start" =>
           /\ x.status = "leased" => x.live
           /\ \A r \in Supervisors : sup'[r].for # "start",
         UNCHANGED sup \/ \E s \in Supervisors : Done(s),
         UNCHANGED <<attempt, lease, store, docker>>, faults' \in 0..MaxFaults, faults <= faults'
  PROVE  Inv'
<1>1. UNCHANGED <<container, bundle>>
  BY DEF docker, store
<1>2. message' \in [{"start", "cancel"} -> MessageType] /\ message'[m] = x
      /\ \A n \in {"start", "cancel"} : n # m => message'[n] = message[n]
  BY KernelShown
<1>3. KernelType'
  BY <1>2, KernelShown DEF KernelType
<1>4. DeliveriesOK'
  <2> SUFFICES ASSUME NEW n \in {"start", "cancel"}
               PROVE  /\ message'[n].live => message'[n].status = "leased"
                      /\ message'[n].status = "pending" => message'[n].deliveries < MaxDeliveries
                      /\ message'[n].deliveries <= MaxDeliveries + faults'
                      /\ message'[n].status = "leased" /\ ~message'[n].live =>
                           message'[n].deliveries < MaxDeliveries + faults'
    BY DEF DeliveriesOK
  <2>1. CASE n = m
    BY <2>1, <1>2
  <2>2. CASE n # m
    <3>1. /\ message[n].live => message[n].status = "leased"
          /\ message[n].status = "pending" => message[n].deliveries < MaxDeliveries
          /\ message[n].deliveries <= MaxDeliveries + faults
          /\ message[n].status = "leased" /\ ~message[n].live =>
               message[n].deliveries < MaxDeliveries + faults
      BY DEF Inv, DeliveriesOK
    <3>2. faults' \in Nat /\ faults \in Nat /\ message[n].deliveries \in Nat
      BY KernelShown
    <3> QED
      BY <2>2, <1>2, <3>1, <3>2, KernelShown
  <2> QED
    BY <2>1, <2>2
<1>5. StartsOK'
  <2> SUFFICES ASSUME Prompt
               PROVE  /\ container.launches <= 1
                      /\ message'["start"].status = "leased" => message'["start"].live
                      /\ \A r \in Supervisors : sup'[r].for = "start" =>
                           /\ attempt.status = "starting"
                           /\ message'["start"].status = "leased" /\ message'["start"].holder = r
                           /\ sup'[r].at = "run" => container.status = "created"
    BY <1>1 DEF StartsOK, Prompt
  <2>1. CASE m = "start"
    BY <2>1, <1>2 DEF Inv, StartsOK
  <2>2. CASE m = "cancel"
    <3>1. \A r \in Supervisors : sup'[r] = sup[r] \/ sup'[r].for = "none"
      <4>1. PICK y : y = Idle
        OBVIOUS
      <4>2. y.for = "none" /\ (UNCHANGED sup \/ \E s \in Supervisors : sup' = [sup EXCEPT ![s] = y])
        BY <4>1, IdleShown DEF Done, Does
      <4>3. sup \in [Supervisors -> SupType]
        BY TypeShown DEF Inv
      <4> QED
        BY <4>2, <4>3
    <3> QED
      BY <2>2, <3>1, <1>2 DEF Inv, StartsOK
  <2> QED
    BY <2>1, <2>2
<1>6. KernelOK'
  BY <1>1, <1>2 DEF Inv, KernelOK, Begun, Launched, Open
<1>7. EvidenceIsDurable' /\ (Begun => Begun')
  BY <1>1 DEF Inv, EvidenceIsDurable, Begun
<1>8. message["cancel"].status # "absent" => message'["cancel"].status # "absent"
  BY <1>2 DEF Open
<1> QED
  BY <1>3, <1>4, <1>5, <1>6, <1>7, <1>8, KernelKeeps

LEMMA MessageBecomesDueKeeps ==
  ASSUME Inv, NEW m \in {"start", "cancel"}, MessageBecomesDue(m)
  PROVE  Inv'
<1>1. PICK x : x = [message[m] EXCEPT !.due = TRUE]
  OBVIOUS
<1>2. message[m] \in MessageType
  BY KernelShown
<1>3. /\ x \in MessageType /\ x.status = message[m].status /\ x.live = message[m].live
      /\ x.deliveries = message[m].deliveries
  BY <1>1, <1>2 DEF MessageType
<1>4. message' = [message EXCEPT ![m] = x] /\ message[m].status = "pending"
      /\ UNCHANGED <<attempt, lease, store, docker, sup, faults>>
  BY <1>1, KernelShown DEF MessageBecomesDue
<1>5. /\ message[m].live => message[m].status = "leased"
      /\ message[m].deliveries < MaxDeliveries /\ message[m].deliveries <= MaxDeliveries + faults
  BY <1>4 DEF Inv, DeliveriesOK
<1>6. Prompt /\ m = "start" => \A r \in Supervisors : sup'[r].for # "start"
  BY <1>4 DEF Inv, StartsOK
<1>7. /\ x.status = "pending" /\ ~x.live /\ x.deliveries < MaxDeliveries
      /\ x.deliveries <= MaxDeliveries + faults' /\ faults' \in 0..MaxFaults /\ faults <= faults'
  BY <1>3, <1>4, <1>5, KernelShown
<1>8. x.status \in Open /\ message[m].status \in Open
  BY <1>4, <1>7 DEF Open
<1> QED
  BY <1>3, <1>4, <1>6, <1>7, <1>8, MessageKeeps

LEMMA JobLeaseExpiresKeeps ==
  ASSUME Inv, JobLeaseExpires
  PROVE  Inv'
<1>1. UNCHANGED <<attempt, message, store, docker, sup>> /\ faults' = faults + 1 /\ faults < MaxFaults
  BY DEF JobLeaseExpires
<1>2. lease' \in [holder : Supervisors \cup {NoOne}, live : BOOLEAN]
  BY KernelShown DEF JobLeaseExpires
<1>3. UNCHANGED <<bundle, container>>
  BY <1>1 DEF store, docker
<1>4. faults' \in 0..MaxFaults /\ faults <= faults'
  BY <1>1, KernelShown
<1>5. KernelType'
  BY <1>1, <1>2, <1>4, KernelShown DEF KernelType
<1>6. DeliveriesOK'
  BY <1>1, KernelShown DEF Inv, DeliveriesOK
<1>7. StartsOK' /\ KernelOK' /\ EvidenceIsDurable' /\ (Begun => Begun')
  BY <1>1, <1>3 DEF Inv, StartsOK, Prompt, KernelOK, EvidenceIsDurable, Begun, Launched
<1> QED
  BY <1>1, <1>4, <1>5, <1>6, <1>7, KernelKeeps

LEMMA MessageLeaseExpiresKeeps ==
  ASSUME Inv, NEW m \in {"start", "cancel"}, MessageLeaseExpires(m)
  PROVE  Inv'
<1>1. PICK x : x = [message[m] EXCEPT !.live = FALSE]
  OBVIOUS
<1>2. message[m] \in MessageType
  BY KernelShown
<1>3. /\ x \in MessageType /\ x.status = message[m].status /\ ~x.live
      /\ x.deliveries = message[m].deliveries
  BY <1>1, <1>2 DEF MessageType
<1>4. /\ message' = [message EXCEPT ![m] = x] /\ message[m].live /\ faults' = faults + 1
      /\ faults < MaxFaults /\ (m = "start" => attempt.overdue)
      /\ UNCHANGED <<attempt, lease, store, docker, sup>>
  BY <1>1, KernelShown DEF MessageLeaseExpires
<1>5. message[m].status = "leased" /\ message[m].deliveries <= MaxDeliveries + faults
  BY <1>4 DEF Inv, DeliveriesOK
<1>6. /\ x.deliveries < MaxDeliveries + faults' /\ x.deliveries <= MaxDeliveries + faults'
      /\ faults' \in 0..MaxFaults /\ faults <= faults'
  BY <1>3, <1>4, <1>5, KernelShown
<1>7. ~(Prompt /\ m = "start")
  BY <1>4 DEF Prompt
<1> QED
  BY <1>3, <1>4, <1>5, <1>6, <1>7, MessageKeeps DEF Open

LEMMA AcquireMessageKeeps ==
  ASSUME Inv, NEW s \in Supervisors, NEW m \in {"start", "cancel"}, AcquireMessage(s, m)
  PROVE  Inv'
<1>1. PICK d, x : /\ d = message[m].deliveries + 1
                  /\ x = [status |-> "leased", deliveries |-> d, holder |-> s, live |-> TRUE, due |-> FALSE]
  OBVIOUS
<1>2. /\ message' = [message EXCEPT ![m] = x]
      /\ Lapsed(m) \/ Due(m)
      /\ UNCHANGED <<attempt, lease, store, docker, sup, faults>>
  BY <1>1, KernelShown DEF AcquireMessage
<1>3. message[m].deliveries < MaxDeliveries + faults /\ message[m].status \in Open
  BY <1>2, KernelShown DEF Lapsed, Due, Open, Inv, DeliveriesOK
<1>4. d <= MaxDeliveries + faults /\ d \in 0..MaxDeliveries + MaxFaults + 1
  BY <1>1, <1>3, KernelShown
<1>5. x \in MessageType /\ x.status = "leased" /\ x.live /\ x.deliveries = d
  BY <1>1, <1>4 DEF MessageType, Open
<1>6. Prompt /\ m = "start" => \A r \in Supervisors : sup'[r].for # "start"
  <2>1. ASSUME Prompt, m = "start"
        PROVE  message["start"].status # "leased"
    BY <1>2, <2>1 DEF Lapsed, Due, Inv, StartsOK
  <2> QED
    BY <1>2, <2>1 DEF Inv, StartsOK
<1>7. x.status \in Open /\ x.deliveries <= MaxDeliveries + faults' /\ faults' \in 0..MaxFaults /\ faults <= faults'
  BY <1>2, <1>4, <1>5, KernelShown DEF Open
<1>8. /\ message' = [message EXCEPT ![m] = x] /\ message[m].status \in Open
      /\ UNCHANGED sup /\ UNCHANGED <<attempt, lease, store, docker>>
  BY <1>2, <1>3
<1>9. ~(x.status = "pending")
  BY <1>5
<1> QED
  BY <1>5, <1>6, <1>7, <1>8, <1>9, MessageKeeps

LEMMA AcquireJobKeeps ==
  ASSUME Inv, NEW s \in Supervisors, AcquireJob(s)
  PROVE  Inv'
<1>1. lease' \in [holder : Supervisors \cup {NoOne}, live : BOOLEAN] /\ UNCHANGED <<store, docker, sup, faults>>
  BY DEF AcquireJob
<1>2. UNCHANGED <<bundle, container>> /\ faults <= faults'
  BY <1>1, KernelShown DEF store, docker
<1>3. CASE UNCHANGED <<attempt, message>>
  <2>1. KernelType'
    BY <1>1, <1>3, KernelShown DEF KernelType
  <2>2. StartsOK' /\ DeliveriesOK' /\ KernelOK' /\ EvidenceIsDurable' /\ (Begun => Begun')
    BY <1>1, <1>2, <1>3
    DEF Inv, StartsOK, Prompt, DeliveriesOK, KernelOK, EvidenceIsDurable, Begun, Launched
  <2> QED
    BY <2>1, <2>2, <1>1, <1>2, <1>3, KernelKeeps
<1>4. CASE /\ attempt.status = "absent"
           /\ attempt' = [attempt EXCEPT !.status = "starting"]
           /\ message' = [message EXCEPT !["start"] = Enqueued]
  <2>1. /\ attempt' \in AttemptType /\ attempt'.status = "starting" /\ attempt'.overdue = attempt.overdue
        /\ attempt'.receipt = attempt.receipt /\ attempt'.external = attempt.external
    BY <1>4, KernelShown DEF AttemptType, Live
  <2>2. PICK x : x = Enqueued /\ message' = [message EXCEPT !["start"] = x]
    BY <1>4
  <2>3. x \in MessageType /\ x.status = "pending" /\ ~x.live /\ x.deliveries = 0
    BY <2>2, EnqueuedShown
  <2>4. KernelType'
    BY <1>1, <2>1, <2>2, <2>3, KernelShown DEF KernelType
  <2>5. ~attempt.external /\ ~attempt.overdue /\ attempt.receipt = "none" /\ message["cancel"].status = "absent"
    BY <1>4 DEF Inv, KernelOK, Begun, Live
  <2>6. DeliveriesOK'
    BY <2>2, <2>3, <1>1, KernelShown DEF Inv, DeliveriesOK
  <2>7. StartsOK'
    BY <1>1, <1>2, <1>4, <2>1, <2>2, <2>3, <2>5, KernelShown DEF Inv, StartsOK, Prompt
  <2>8. KernelOK' /\ EvidenceIsDurable' /\ (Begun => Begun')
    BY <1>4, <2>1, <2>2, <2>5, KernelShown DEF KernelOK, EvidenceIsDurable, Begun
  <2> QED
    BY <1>1, <1>2, <2>4, <2>5, <2>6, <2>7, <2>8, KernelKeeps
<1> QED
  BY <1>3, <1>4 DEF AcquireJob

LEMMA DeliverMessageKeeps ==
  ASSUME Inv, NEW s \in Supervisors, NEW m \in {"start", "cancel"}, DeliverMessage(s, m)
  PROVE  Inv'
<1>1. PICK a, y : /\ a = IF m = "start" THEN "launch" ELSE "mark"
                  /\ y = [Idle EXCEPT !.for = m, !.at = a]
  OBVIOUS
<1>2. a \in Steps
  BY <1>1 DEF Steps, Starting, Stopping
<1>3. /\ y \in SupType /\ y.at = a /\ y.for = m /\ y.log = NoLog /\ y.reason = "none" /\ y.outcome = "none"
  BY <1>1, <1>2, IdleShown DEF SupType, Idle
<1>4. sup' = [sup EXCEPT ![s] = y] /\ UNCHANGED <<kernel, store, docker, faults>>
  BY <1>1 DEF DeliverMessage, Does
<1>5. message[m].status = "leased" /\ message[m].holder = s
  BY DEF DeliverMessage, Owned, HoldsMessage
<1>6. PosedAs(y)
  BY <1>1, <1>3, IdleShown DEF PosedAs, Starting, Stopping, Reading, Collecting
<1>7. MayBe(s, y)
  BY <1>1, <1>3, <1>5, <1>6 DEF MayBe, Inv, KernelOK, Begun, Open
<1>8. Seen(y)
  BY <1>1, <1>3, <1>5, IdleShown DEF Seen, CancelSeen, JobSeen, Collecting
<1> QED
  BY <1>3, <1>4, <1>7, <1>8, SupGoes

LEMMA ReconcileJobKeeps ==
  ASSUME Inv, NEW s \in Supervisors, ReconcileJob(s)
  PROVE  Inv'
<1>1. PICK n, y : n = attempt.cursor /\ y = [Idle EXCEPT !.for = "job", !.at = "inspect", !.cursor = n]
  OBVIOUS
<1>2. n \in Counts /\ "inspect" \in Steps
  BY <1>1, KernelShown DEF Steps, Reading, AttemptType
<1>3. /\ y \in SupType /\ y.at = "inspect" /\ y.for = "job" /\ y.log = NoLog /\ y.reason = "none"
      /\ y.outcome = "none"
  BY <1>1, <1>2, IdleShown DEF SupType, Idle
<1>4. /\ sup' = [sup EXCEPT ![s] = y] /\ UNCHANGED <<kernel, store, docker, faults>>
      /\ attempt.status = "running" /\ ~attempt.overdue
  BY <1>1 DEF ReconcileJob, Does, Quiet, Urgent
<1>5. PosedAs(y)
  BY <1>3, IdleShown DEF PosedAs, Starting, Stopping, Reading, Collecting
<1>6. attempt.external /\ NoStarts /\ container.launches <= 1
  BY <1>4 DEF Inv, KernelOK, StartsOK, Prompt, NoStarts, Begun
<1>7. MayBe(s, y)
  BY <1>3, <1>5 DEF MayBe
<1>8. Seen(y)
  BY <1>3, <1>6, IdleShown DEF Seen, CancelSeen, JobSeen
<1> QED
  BY <1>3, <1>4, <1>7, <1>8, SupGoes

\* A step of a supervisor that is done and changes no more than an attempt that has begun.
LEMMA AttemptKeeps ==
  ASSUME Inv, NEW s \in Supervisors, Done(s), attempt' \in AttemptType, Begun,
         \/ UNCHANGED attempt
         \/ /\ attempt'.status \in {attempt.status, "verifying"} /\ attempt.status \in {"running", "ended"}
            /\ attempt'.status = "verifying" => attempt.status = "running"
            /\ attempt'.external = attempt.external /\ attempt'.overdue = attempt.overdue
            /\ attempt'.reason = attempt.reason
            /\ attempt'.receipt # "none" =>
                 /\ attempt'.status # "running"
                 /\ bundle = [outcome |-> attempt'.receipt, count |-> attempt'.cursor],
         UNCHANGED <<lease, message, store, docker, faults>>
  PROVE  Inv'
<1>1. UNCHANGED <<bundle, container>> /\ faults <= faults'
  BY KernelShown DEF store, docker
<1>2. KernelType'
  BY KernelShown DEF KernelType
<1>3. PICK y : y = Idle
  OBVIOUS
<1>4. y.for = "none" /\ sup' = [sup EXCEPT ![s] = y] /\ sup \in [Supervisors -> SupType]
  BY <1>3, IdleShown, SupShown DEF Done, Does
<1>5. \A r \in Supervisors : sup'[r] = sup[r] \/ sup'[r].for = "none"
  BY <1>4
<1>6. StartsOK'
  BY <1>1, <1>5 DEF Inv, StartsOK, Prompt, Begun
<1>7. DeliveriesOK'
  BY DEF Inv, DeliveriesOK
<1>8. KernelOK'
  BY <1>1 DEF Inv, KernelOK, Begun, Launched, Live
<1>9. EvidenceIsDurable'
  BY <1>1 DEF Inv, EvidenceIsDurable
<1>10. Begun'
  BY DEF Begun
<1>11. attempt'.external = attempt.external
  OBVIOUS
<1> QED
  BY <1>1, <1>2, <1>6, <1>7, <1>8, <1>9, <1>10, <1>11, KernelKeeps

LEMMA ObserveKeeps ==
  ASSUME Inv, NEW s \in Supervisors, Observe(s)
  PROVE  Inv'
<1>1. /\ Done(s) /\ sup[s].for = "job" /\ sup[s].log.count \in Counts
      /\ UNCHANGED <<lease, message, store, docker, faults>>
  BY SupShown DEF Observe, PosedAs, Reading, Logs
<1>2. Begun
  BY <1>1, SupShown DEF Seen, JobSeen, NoStarts
<1>3. CASE UNCHANGED attempt
  BY <1>1, <1>2, <1>3, AttemptKeeps, KernelShown
<1>4. CASE attempt.status = "running" /\ attempt' = [attempt EXCEPT !.cursor = sup[s].log.count]
  <2>1. attempt.receipt = "none"
    BY <1>4 DEF Inv, KernelOK
  <2>2. /\ attempt' \in AttemptType /\ attempt'.status = attempt.status /\ attempt'.receipt = "none"
        /\ attempt'.external = attempt.external /\ attempt'.overdue = attempt.overdue
        /\ attempt'.reason = attempt.reason
    BY <1>1, <1>4, <2>1, KernelShown DEF AttemptType
  <2> QED
    BY <1>1, <1>2, <1>4, <2>2, AttemptKeeps
<1> QED
  BY <1>3, <1>4 DEF Observe

LEMMA RecordReceiptKeeps ==
  ASSUME Inv, NEW s \in Supervisors, RecordReceipt(s)
  PROVE  Inv'
<1>1. /\ Done(s) /\ sup[s].for = "job" /\ sup[s].at = "record" /\ UNCHANGED <<store, docker, faults>>
  BY DEF RecordReceipt
<1>2. Begun /\ bundle # NoBundle
  BY <1>1, SupShown DEF Seen, JobSeen, NoStarts
<1>3. CASE UNCHANGED kernel
  BY <1>1, <1>3, DoneKeeps
<1>4. CASE ~UNCHANGED kernel
  <2> DEFINE recorded == [attempt EXCEPT !.receipt = bundle.outcome]
  <2>1. /\ attempt.status = "running" /\ bundle.count = attempt.cursor
        /\ IF bundle.outcome = "succeeded"
           THEN attempt' = [recorded EXCEPT !.status = "verifying"] /\ UNCHANGED <<lease, message>>
           ELSE EndWith(recorded)
    BY <1>4 DEF RecordReceipt
  <2>2. bundle.outcome \in Outcomes /\ bundle = [outcome |-> bundle.outcome, count |-> bundle.count]
    BY <1>2, TypeShown DEF Inv, BundleOK, StoreType
  <2>3. PICK o, n : o = bundle.outcome /\ n = bundle.count
    OBVIOUS
  <2>4. /\ recorded \in AttemptType /\ recorded.receipt = o /\ recorded.cursor = n
        /\ recorded.external = attempt.external /\ recorded.overdue = attempt.overdue
        /\ recorded.reason = attempt.reason /\ recorded.status = "running"
    BY <2>1, <2>2, <2>3, KernelShown DEF AttemptType
  <2>5. bundle = [outcome |-> o, count |-> n]
    BY <2>2, <2>3
  <2> HIDE DEF recorded
  <2>6. CASE bundle.outcome = "succeeded"
    <3>1. /\ attempt' \in AttemptType /\ attempt'.status = "verifying" /\ attempt'.receipt = o
          /\ attempt'.cursor = n /\ attempt'.external = attempt.external
          /\ attempt'.overdue = attempt.overdue /\ attempt'.reason = attempt.reason
          /\ UNCHANGED <<lease, message>>
      BY <2>1, <2>4, <2>6 DEF AttemptType, Live
    <3> QED
      BY <1>1, <1>2, <2>1, <2>5, <3>1, AttemptKeeps
  <2>7. CASE bundle.outcome # "succeeded"
    <3>1. /\ attempt' \in AttemptType /\ attempt'.status = "ended" /\ attempt'.receipt = o
          /\ attempt'.cursor = n /\ attempt'.external = attempt.external /\ ~attempt'.overdue
          /\ lease' = NoLease /\ message' = [message EXCEPT !["start"] = StartObsolete]
      BY <2>1, <2>4, <2>7 DEF EndWith, AttemptType
    <3>2. attempt.status \in Live
      BY <2>1 DEF Live
    <3> QED
      BY <1>1, <2>5, <3>1, <3>2, EndKeeps
  <2> QED
    BY <2>6, <2>7
<1> QED
  BY <1>3, <1>4

LEMMA RecordTerminalReceiptKeeps ==
  ASSUME Inv, NEW s \in Supervisors, RecordTerminalReceipt(s)
  PROVE  Inv'
<1>1. /\ sup[s].for = "cancel" /\ sup[s].at = "record"
      /\ UNCHANGED <<lease, message, store, docker, faults>>
  BY DEF RecordTerminalReceipt
<1>2. attempt.status = "ended" /\ attempt.reason # "none"
  BY <1>1, CancelShown
<1>3. bundle # NoBundle
  BY <1>1, SupShown DEF Seen
<1>4. CASE attempt.receipt # "none"
  <2>1. PICK x, y : x = sup[s] /\ y = [x EXCEPT !.at = "tell"]
    OBVIOUS
  <2>2. x \in SupType /\ PosedAs(x) /\ Seen(x) /\ "tell" \in Steps
    BY <2>1, SupShown DEF Steps
  <2>3. /\ y \in SupType /\ y.at = "tell" /\ y.for = x.for /\ y.cursor = x.cursor /\ y.log = x.log
        /\ y.reason = x.reason
    BY <2>1, <2>2, NextShown
  <2>4. sup' = [sup EXCEPT ![s] = y] /\ UNCHANGED <<kernel, store, docker, faults>>
    BY <1>1, <1>4, <2>1 DEF RecordTerminalReceipt, Goes, kernel
  <2>5. MayBe(s, y)
    BY <1>1, <2>1, <2>2, <2>3 DEF MayBe, PosedAs, Starting, Stopping, Reading, Collecting
  <2>6. Seen(y)
    BY <1>1, <2>1, <2>2, <2>3 DEF Seen, CancelSeen, JobSeen, Collecting
  <2> QED
    BY <2>3, <2>4, <2>5, <2>6, SupGoes
<1>5. CASE attempt.receipt = "none"
  <2>1. Done(s) /\ Begun
    BY <1>2, <1>5 DEF RecordTerminalReceipt, Begun
  <2>2. CASE UNCHANGED attempt
    BY <1>1, <2>1, <2>2, KernelShown, AttemptKeeps
  <2>3. CASE attempt' = [attempt EXCEPT !.receipt = bundle.outcome, !.cursor = bundle.count]
    <3>1. PICK o, n : o = bundle.outcome /\ n = bundle.count
      OBVIOUS
    <3>2. o \in Outcomes /\ n \in Counts /\ bundle = [outcome |-> o, count |-> n]
      BY <1>3, <3>1, TypeShown DEF Inv, BundleOK, StoreType
    <3>3. /\ attempt' \in AttemptType /\ attempt'.status = attempt.status /\ attempt'.receipt = o
          /\ attempt'.cursor = n /\ attempt'.external = attempt.external
          /\ attempt'.overdue = attempt.overdue /\ attempt'.reason = attempt.reason
      BY <2>3, <3>1, <3>2, KernelShown DEF AttemptType
    <3> QED
      BY <1>1, <1>2, <2>1, <3>2, <3>3, AttemptKeeps
  <2> QED
    BY <1>5, <2>2, <2>3 DEF RecordTerminalReceipt
<1> QED
  BY <1>4, <1>5

LEMMA DoneShown ==
  ASSUME Inv, NEW s \in Supervisors, Done(s)
  PROVE  \A r \in Supervisors : sup'[r].for = IF r = s THEN "none" ELSE sup[r].for
<1>1. PICK y : y = Idle
  OBVIOUS
<1>2. y.for = "none" /\ sup' = [sup EXCEPT ![s] = y] /\ sup \in [Supervisors -> SupType]
  BY <1>1, IdleShown, SupShown DEF Done, Does
<1> QED
  BY <1>2

\* The delivery of a start that tells or fails is the only one, if it is in time.
LEMMA SoleStarter ==
  ASSUME Inv, NEW s \in Supervisors, Done(s), HoldsMessage(s, "start"), Prompt
  PROVE  \A r \in Supervisors : sup'[r].for # "start"
BY DoneShown DEF Inv, StartsOK, HoldsMessage

LEMMA StartToldKeeps ==
  ASSUME Inv, NEW s \in Supervisors, Tell(s), sup[s].for = "start", HoldsMessage(s, "start")
  PROVE  Inv'
<1>1. /\ Done(s) /\ sup[s].at = "tell" /\ UNCHANGED <<lease, store, docker, faults>>
      /\ message' = [message EXCEPT !["start"] = Settled("start", "delivered")]
      /\ attempt' = [attempt EXCEPT !.status = "running", !.external = TRUE]
  BY DEF Tell
<1>2. UNCHANGED <<bundle, container>> /\ faults <= faults'
  BY <1>1, KernelShown DEF store, docker
<1>3. PICK x : x = Settled("start", "delivered")
  OBVIOUS
<1>4. x \in MessageType /\ x.status = "delivered" /\ ~x.live /\ x.deliveries = message["start"].deliveries
  BY <1>3, SettledShown
<1>5. message' = [message EXCEPT !["start"] = x]
  BY <1>1, <1>3
<1>6. /\ attempt' \in AttemptType /\ attempt'.status = "running" /\ attempt'.external
      /\ attempt'.receipt = attempt.receipt /\ attempt'.overdue = attempt.overdue
  BY <1>1, KernelShown DEF AttemptType, Live
<1>7. attempt.status = "starting"
  BY DEF Inv, KernelOK, HoldsMessage, Open
<1>8. attempt.receipt = "none" /\ message["cancel"].status = "absent" /\ Launched
  BY <1>1, <1>7, SupShown DEF Inv, KernelOK, Seen
<1>9. KernelType'
  BY <1>1, <1>4, <1>5, <1>6, KernelShown DEF KernelType
<1>10. DeliveriesOK'
  BY <1>1, <1>4, <1>5, KernelShown DEF Inv, DeliveriesOK
<1>11. KernelOK' /\ EvidenceIsDurable' /\ Begun'
  BY <1>2, <1>4, <1>5, <1>6, <1>8, KernelShown
  DEF KernelOK, EvidenceIsDurable, Begun, Launched, Open, Live
<1>12. StartsOK'
  <2> SUFFICES ASSUME Prompt'
               PROVE  /\ container'.launches <= 1
                      /\ message'["start"].status # "leased"
                      /\ \A r \in Supervisors : sup'[r].for # "start"
    BY DEF StartsOK
  <2>1. Prompt
    BY <1>6, <1>7 DEF Prompt
  <2>2. \A r \in Supervisors : sup'[r].for # "start"
    BY <1>1, <2>1, SoleStarter
  <2> QED
    BY <2>1, <2>2, <1>2, <1>4, <1>5, KernelShown DEF Inv, StartsOK
<1> QED
  BY <1>1, <1>2, <1>6, <1>8, <1>9, <1>10, <1>11, <1>12, KernelKeeps

\* A delivery that ends without an end of the attempt.
LEMMA SettlesKeeps ==
  ASSUME Inv, NEW s \in Supervisors, NEW m \in {"start", "cancel"}, NEW status \in {"pending", "delivered", "dead_letter"},
         HoldsMessage(s, m), Done(s), message' = [message EXCEPT ![m] = Settled(m, status)],
         status = "pending" => message[m].deliveries < MaxDeliveries, m = "start" => status = "pending",
         UNCHANGED <<attempt, lease, store, docker, faults>>
  PROVE  Inv'
<1>1. PICK x : x = Settled(m, status)
  OBVIOUS
<1>2. x \in MessageType /\ x.status = status /\ ~x.live /\ x.deliveries = message[m].deliveries
  BY <1>1, SettledShown DEF Open
<1>3. message' = [message EXCEPT ![m] = x]
  BY <1>1
<1>4. message[m].deliveries <= MaxDeliveries + faults
  BY DEF Inv, DeliveriesOK
<1>5. /\ x.status \in Open \cup {"delivered", "dead_letter"} /\ message[m].status \in Open
      /\ x.status \in Open \/ m = "cancel"
      /\ x.status # "leased" /\ (x.status = "pending" => x.deliveries < MaxDeliveries)
      /\ x.deliveries <= MaxDeliveries + faults' /\ faults' \in 0..MaxFaults /\ faults <= faults'
  BY <1>2, <1>4, KernelShown DEF Open, HoldsMessage
<1>6. Prompt /\ m = "start" => \A r \in Supervisors : sup'[r].for # "start"
  BY SoleStarter
<1> QED
  BY <1>2, <1>3, <1>5, <1>6, MessageKeeps

LEMMA TellKeeps ==
  ASSUME Inv, NEW s \in Supervisors, Tell(s)
  PROVE  Inv'
<1>1. Done(s) /\ sup[s].for \in {"start", "cancel"} /\ UNCHANGED <<store, docker, faults>>
  BY SupShown DEF Tell, PosedAs
<1>2. CASE ~HoldsMessage(s, sup[s].for)
  BY <1>1, <1>2, DoneKeeps DEF Tell
<1>3. CASE HoldsMessage(s, sup[s].for) /\ sup[s].for = "start"
  BY <1>3, StartToldKeeps
<1>4. CASE HoldsMessage(s, sup[s].for) /\ sup[s].for = "cancel"
  <2>1. message' = [message EXCEPT !["cancel"] = Settled("cancel", "delivered")] /\ UNCHANGED <<attempt, lease>>
    BY <1>4 DEF Tell
  <2> QED
    BY <1>1, <1>4, <2>1, SettlesKeeps
<1> QED
  BY <1>1, <1>2, <1>3, <1>4

LEMMA FailKeeps ==
  ASSUME Inv, NEW s \in Supervisors, Fail(s)
  PROVE  Inv'
<1>1. Done(s) /\ sup[s].for \in {"start", "cancel"} /\ UNCHANGED <<store, docker, faults>>
  BY SupShown DEF Fail, PosedAs
<1>2. PICK m \in {"start", "cancel"} : m = sup[s].for
  BY <1>1
<1>3. CASE ~HoldsMessage(s, m)
  <2>1. UNCHANGED kernel
    BY <1>2, <1>3 DEF Fail
  <2> QED
    BY <1>1, <2>1, DoneKeeps
<1>4. CASE HoldsMessage(s, m) /\ message[m].deliveries >= MaxDeliveries /\ m = "start"
  <2>1. /\ attempt' = [attempt EXCEPT !.status = "ended", !.overdue = FALSE] /\ lease' = NoLease
        /\ message' = [message EXCEPT !["start"] = Settled("start", "dead_letter")]
    BY <1>2, <1>4 DEF Fail
  <2>2. attempt.status \in Live /\ attempt.receipt = "none"
    BY <1>4 DEF Inv, KernelOK, HoldsMessage, Open, Live
  <2>3. /\ attempt' \in AttemptType /\ attempt'.status = "ended" /\ ~attempt'.overdue
        /\ attempt'.external = attempt.external /\ attempt'.receipt = "none"
    BY <2>1, <2>2, KernelShown DEF AttemptType
  <2> QED
    BY <1>1, <2>1, <2>2, <2>3, EndKeeps
<1>5. CASE HoldsMessage(s, m) /\ ~(message[m].deliveries >= MaxDeliveries /\ m = "start")
  <2>1. PICK status \in {"pending", "dead_letter"} :
          /\ status = "pending" => ~(message[m].deliveries >= MaxDeliveries)
          /\ message[m].deliveries >= MaxDeliveries <=> status = "dead_letter"
          /\ message' = [message EXCEPT ![m] = Settled(m, status)] /\ UNCHANGED <<attempt, lease>>
    BY <1>2, <1>5 DEF Fail
  <2>2. status = "pending" => message[m].deliveries < MaxDeliveries
    BY <2>1, KernelShown
  <2>3. m = "start" => status = "pending"
    BY <1>5, <2>1
  <2> QED
    BY <1>1, <1>5, <2>1, <2>2, <2>3, SettlesKeeps
<1> QED
  BY <1>3, <1>4, <1>5

-----------------------------------------------------------------------------
(* The invariant holds.                                                    *)

LEMMA InitHolds ==
  ASSUME Init
  PROVE  Inv
<1>1. 0 \in Counts /\ 0 \in 0..MaxFaults /\ 0 \in 0..MaxDeliveries + MaxFaults + 1
      /\ MaxDeliveries \in Nat \ {0} /\ faults = 0
  BY DriverRunsAssumption DEF Counts, Init
<1>2. /\ NoMessage \in MessageType /\ NoMessage.status = "absent" /\ ~NoMessage.live
      /\ NoMessage.deliveries = 0
  BY <1>1 DEF NoMessage, MessageType
<1>3. KernelType
  BY <1>1, <1>2 DEF Init, KernelType, AttemptType, NoLease
<1>4. StoreType
  BY <1>1 DEF Init, StoreType, NoBundle
<1>5. DockerType
  BY IdleShown DEF Init, DockerType
<1>6. sup \in [Supervisors -> SupType] /\ \A s \in Supervisors : sup[s] = Idle
  BY IdleShown DEF Init
<1>7. TypeOK
  BY <1>3, <1>4, <1>5, <1>6, TypeShown
<1>8. SupsOK /\ StartsOK
  <2>1. StartsOK
    <3>1. \A s \in Supervisors : sup[s].for = "none"
      BY <1>6, IdleShown
    <3>2. container.launches = 0 /\ message["start"].status = "absent"
      BY <1>2 DEF Init
    <3> QED
      BY <3>1, <3>2 DEF StartsOK
  <2>2. PICK y : y = Idle
    OBVIOUS
  <2>3. PosedAs(y) /\ Seen(y) /\ \A s \in Supervisors : sup[s] = y
    BY <2>2, <1>6, IdleShown
  <2>4. SupsOK
    BY <2>3 DEF SupsOK, Seen, CancelSeen, JobSeen
  <2> QED
    BY <2>1, <2>4
<1>9. DeliveriesOK
  BY <1>1, <1>2 DEF Init, DeliveriesOK
<1>10. KernelOK
  BY <1>2 DEF Init, KernelOK, Open
<1>11. DockerOK /\ BundleOK /\ EvidenceIsDurable
  BY IdleShown DEF Init, DockerOK, BundleOK, EvidenceIsDurable, Launched, NoBundle
<1> QED
  BY <1>7, <1>8, <1>9, <1>10, <1>11 DEF Inv

LEMMA StutterKeeps ==
  ASSUME Inv, UNCHANGED vars
  PROVE  Inv'
<1>1. /\ UNCHANGED <<store, docker>> /\ UNCHANGED sup /\ UNCHANGED <<attempt, lease, message, faults>>
      /\ UNCHANGED <<bundle, container>>
  BY DEF vars, kernel, store, docker
<1>2. KernelType' /\ faults <= faults'
  BY <1>1, KernelShown DEF KernelType
<1>3. /\ StartsOK' /\ DeliveriesOK' /\ KernelOK' /\ EvidenceIsDurable' /\ (Begun => Begun')
  BY <1>1 DEF Inv, StartsOK, Prompt, DeliveriesOK, KernelOK, EvidenceIsDurable, Begun, Launched
<1> QED
  BY <1>1, <1>2, <1>3, KernelKeeps

LEMMA SupervisorStepKeeps ==
  ASSUME Inv, NEW s \in Supervisors, SupervisorStep(s)
  PROVE  Inv'
<1>1. CASE Tick(s)
  BY <1>1, TimeoutKeeps, AcquireJobKeeps, ReconcileJobKeeps, AcquireMessageKeeps, DeliverMessageKeeps
  DEF Tick
<1>2. CASE StartStep(s)
  BY <1>2, LaunchKeeps, CreateKeeps, RunKeeps DEF StartStep
<1>3. CASE CancelStep(s)
  BY <1>3, MarkCancelledKeeps, StopContainerKeeps DEF CancelStep
<1>4. CASE InspectStep(s)
  BY <1>4, InspectKeeps, ExamineKeeps, ObserveKeeps DEF InspectStep
<1>5. CASE CollectStep(s)
  BY <1>5, CollectKeeps, JudgeKeeps, VanishedKeeps, KeepKeeps, SweepKeeps, RecordReceiptKeeps,
     RecordTerminalReceiptKeeps
  DEF CollectStep
<1> QED
  BY <1>1, <1>2, <1>3, <1>4, <1>5, TellKeeps, FailKeeps DEF SupervisorStep

LEMMA NextHolds ==
  ASSUME Inv, [Next]_vars
  PROVE  Inv'
<1>1. CASE AgentStep
  BY <1>1, AgentWritesKeeps, AgentExitsKeeps DEF AgentStep
<1>2. CASE Clock
  BY <1>2, DeadlinePassesKeeps, MessageBecomesDueKeeps DEF Clock
<1>3. CASE FaultStep
  BY <1>3, JobLeaseExpiresKeeps, MessageLeaseExpiresKeeps, CrashKeeps, DockerFailsKeeps DEF FaultStep
<1> QED
  BY <1>1, <1>2, <1>3, CancelRunKeeps, VerificationEndsKeeps, SupervisorStepKeeps, StutterKeeps
  DEF Next

LEMMA InvHolds == Spec => []Inv
BY InitHolds, NextHolds, PTL DEF Spec

\* Whatever the supervisors, the agent, the operator and the faults do: a bundle
\* says "succeeded" only if the agent was started once, however often its start
\* was delivered (#ensureStarted), wrote a stream without a flaw that ends with
\* that verdict and is as long as the bundle says, and exited with 0, although
\* the log may be older than the container it is judged by (#inspectDetailed).
THEOREM DriverInvHolds == Spec => []DriverInv
<1>1. Inv => DriverInv
  BY DEF Inv, BundleOK, DriverInv, SuccessIsEarned, Earned, Gone
<1> QED
  BY <1>1, InvHolds, PTL

\* The receipt the kernel has recorded (driver.receipt.record for a job that ran,
\* driver.terminal-receipt.record for a cancelled one) stays the bundle that the
\* store keeps, whoever collected it and however often collectReceipt was called.
THEOREM EvidenceIsDurableHolds == Spec => []EvidenceIsDurable
<1>1. Inv => EvidenceIsDurable
  BY DEF Inv
<1> QED
  BY <1>1, InvHolds, PTL

=============================================================================
