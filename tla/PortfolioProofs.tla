--------------------------- MODULE PortfolioProofs ---------------------------
(***************************************************************************)
(* Proofs about Portfolio, for any programs, graphs, claims, issues and    *)
(* capacities.                                                             *)
(***************************************************************************)
EXTENDS Portfolio, FiniteSetTheorems, WellFoundedInduction, SequenceTheorems, TLAPS

-----------------------------------------------------------------------------
(* The invariant.                                                          *)

Statuses == {"approved", "running", "paused", "outcome_ready"}

ProgramType ==
  [phase : Phases, resume : Phases \cup {Nothing}, revision : Nat,
   needs : SUBSET (Programs \X Nat), latest : Results \cup {Nothing}]

MilestoneType ==
  [status : Statuses, generation : Nat, outcomes : Seq(Results \cup {"open"}), packet : Nat,
   validated : Nat, pauseReason : Issues \cup {Nothing}]

Targets == UNION {{TargetOf[p][r] : r \in DOMAIN Nodes[p]} : p \in Programs}

AdmissionType ==
  [program : Programs, target : Targets, milestone : Milestones, slot : 1..2, skillSlot : Nat,
   lease : {"live", "due", "expired"}]

PlanType ==
  [program : Programs, revision : Nat, node : Milestones \cup {Nothing}, generation : Nat,
   packets : SUBSET (Milestones \X Nat)]

Running(rec) == "open" \in Elements(rec.outcomes)

\* A milestone by itself: only its last run may be open, it is paused for a
\* reason, and what was validated was to be merged.
Sound(rec) ==
  /\ rec \in MilestoneType
  /\ rec.generation <= Len(rec.outcomes)
  /\ rec.packet <= Len(rec.outcomes) /\ rec.validated <= Len(rec.outcomes)
  /\ Running(rec) <=> rec.status = "running"
  /\ \A i \in 1..Len(rec.outcomes) - 1 : rec.outcomes[i] # "open"
  /\ rec.pauseReason # Nothing <=> rec.status = "paused"
  /\ rec.validated # 0 => rec.outcomes[rec.validated] = "merge"

ProgramsOK ==
  /\ program \in [Programs -> ProgramType]
  /\ \A p \in Programs :
       /\ program[p].revision \in DOMAIN Nodes[p]
       /\ \A n \in program[p].needs : n[2] \in 1..program[n[1]].revision
       /\ p \in Legacy => program[p].needs = {}

MilestonesOK ==
  /\ DOMAIN milestone = Milestones
  /\ milestone = [m \in Milestones |-> milestone[m]]
  /\ \A m \in Milestones : Sound(milestone[m])

\* What is about to be sent is about packets that there are.
SendingOK ==
  /\ DOMAIN plan = Supervisors /\ plan = [s \in Supervisors |-> plan[s]]
  /\ \A s \in Supervisors : plan[s] # Nothing =>
       /\ plan[s] \in PlanType
       /\ \A x \in plan[s].packets : x[2] \in DOMAIN milestone[x[1]].outcomes
  /\ handover # Nothing => handover.program \in Programs /\ V2(handover.program)
  /\ \A c \in candidates : c.program \in Programs /\ V2(c.program)

OthersOK ==
  /\ queue \in Seq(Programs)
  /\ issue \in [Issues -> {"none", "open", "requires_graph_revision", "resolved"}]
  /\ promoted \subseteq candidates /\ candidates \subseteq receipts

\* An admission is for one open run of its own program.
AdmissionsOK ==
  /\ admissions \subseteq AdmissionType
  /\ \A a \in admissions :
       V2(a.program) /\ a.milestone \in MilestonesOf[a.program] /\ Open(a.milestone)
  /\ \A a, b \in admissions : a.milestone = b.milestone => a = b

\* A graph_v2 program that is running has an admission, and one that is parked
\* knows what to go on with.
PhasesOK ==
  \A p \in Programs : V2(p) =>
    /\ program[p].phase = "running" => \E a \in admissions : a.program = p
    /\ program[p].phase = "parked" => program[p].resume \in {"eligible", "integration_pending"}

\* What is never given up by hand is there for every open run, and what waits
\* has none.
WorkIsAdmitted ==
  \A p \in Programs : V2(p) /\ p \notin Fenceable =>
    /\ \A m \in MilestonesOf[p] : Open(m) => \E a \in admissions : a.milestone = m
    /\ \A a, b \in admissions : a.program = p /\ b.program = p => a = b
    /\ program[p].phase \in {"approved", "eligible", "parked"} => ~ Busy(p)
    /\ OneGraph(p) /\ program[p].phase \in {"integration_pending", "completed"} => ~ Busy(p)

\* A graph_v1 program has at most one run open, while it is running.
LegacyIsSerial ==
  \A p \in Legacy :
    /\ program[p].phase \in {"approved", "running", "parked", "completed"}
    /\ Busy(p) => program[p].phase = "running"
    /\ \A m, n \in MilestonesOf[p] : Open(m) /\ Open(n) => m = n

Past(p) ==
  \/ program[p].phase \in {"integration_pending", "completed"}
  \/ program[p].phase = "parked" /\ program[p].resume = "integration_pending"

\* Without another graph, a program that hands over never goes back to work.
HandedOver ==
  \A p \in Programs : V2(p) /\ OneGraph(p) =>
    /\ handover # Nothing /\ handover.program = p => Past(p)
    /\ \A c \in candidates : c.program = p => Past(p)

Inv ==
  /\ ProgramsOK /\ MilestonesOK /\ SendingOK /\ OthersOK
  /\ AdmissionsOK /\ PhasesOK /\ WorkIsAdmitted /\ LegacyIsSerial /\ HandedOver
  /\ ClaimsAreExclusive /\ RunsOnEvidence /\ IssuesHoldMilestones

-----------------------------------------------------------------------------
(* Sequences, graphs and the programs that milestones belong to.           *)

LEMMA LeastNatural ==
  ASSUME NEW S, S \subseteq Nat, S # {}
  PROVE  \E n \in S : \A m \in S : n <= m
<1> DEFINE R == {pair \in Nat \X Nat : pair[1] < pair[2]}
<1>1. IsWellFoundedOn(R, Nat)
  BY NatLessThanWellFounded, Zenon DEF OpToRel
<1>2. \A m, n \in Nat : m < n => <<m, n>> \in R
  OBVIOUS
<1> HIDE DEF R
<1>3. PICK n \in S : \A m \in S : ~ (<<m, n>> \in R)
  BY <1>1, WFMin
<1>4. \A m \in S : ~ m < n
  BY <1>2, <1>3
<1> QED
  BY <1>3, <1>4

LEMMA LowestShown ==
  ASSUME NEW S, S \subseteq Nat, S # {}
  PROVE  Lowest(S) \in S
BY LeastNatural DEF Lowest

LEMMA ElementsShown ==
  ASSUME NEW T, NEW s \in Seq(T)
  PROVE  /\ DOMAIN s = 1..Len(s) /\ Len(s) \in Nat
         /\ Elements(s) \subseteq T
         /\ \A i \in 1..Len(s) : s[i] \in T /\ s[i] \in Elements(s)
BY LenProperties, ElementOfSeq DEF Elements

LEMMA WithoutType ==
  ASSUME NEW T, NEW s \in Seq(T), NEW e
  PROVE  Without(s, e) \in Seq(T)
<1>1. CASE e \notin Elements(s)
  BY <1>1 DEF Without
<1>2. CASE e \in Elements(s)
  <2> DEFINE i == CHOOSE k \in DOMAIN s : s[k] = e
  <2>1. i \in DOMAIN s
    BY <1>2 DEF Elements
  <2>2. i \in 1..Len(s) /\ Len(s) \in Nat
    BY <2>1, ElementsShown
  <2> HIDE DEF i
  <2>3. SubSeq(s, 1, i - 1) \in Seq(T)
    BY <2>2, ElementsShown, SubSeqProperties
  <2>4. SubSeq(s, i + 1, Len(s)) \in Seq(T)
    BY <2>2, ElementsShown, SubSeqProperties
  <2>5. SubSeq(s, 1, i - 1) \o SubSeq(s, i + 1, Len(s)) \in Seq(T)
    BY <2>3, <2>4, ConcatProperties
  <2> QED
    BY <1>2, <2>5 DEF Without, i
<1> QED
  BY <1>1, <1>2

\* The milestones of two programs are apart, so each has one program.
LEMMA ProgramOfShown ==
  /\ \A p \in Programs : MilestonesOf[p] \subseteq Milestones
  /\ \A p, q \in Programs : p # q => MilestonesOf[p] \cap MilestonesOf[q] = {}
  /\ \A m \in Milestones : ProgramOf[m] \in Programs /\ m \in MilestonesOf[ProgramOf[m]]
  /\ \A p \in Programs : \A m \in MilestonesOf[p] : ProgramOf[m] = p
<1>1. \A p \in Programs : MilestonesOf[p] = UNION {Elements(Nodes[p][r]) : r \in DOMAIN Nodes[p]}
  BY DEF MilestonesOf
<1>2. \A p \in Programs : MilestonesOf[p] \subseteq Milestones
  <2> SUFFICES ASSUME NEW p \in Programs, NEW r \in DOMAIN Nodes[p]
               PROVE  Elements(Nodes[p][r]) \subseteq Milestones
    BY <1>1
  <2>1. Nodes[p] \in Seq(Seq(Milestones))
    BY PortfolioAssumption
  <2>2. Nodes[p][r] \in Seq(Milestones)
    BY <2>1, ElementsShown
  <2> QED
    BY <2>2, ElementsShown
<1>3. \A p, q \in Programs : p # q => MilestonesOf[p] \cap MilestonesOf[q] = {}
  <2>1. \A p, q \in Programs : \A r \in DOMAIN Nodes[p] : \A k \in DOMAIN Nodes[q] :
          p # q => Elements(Nodes[p][r]) \cap Elements(Nodes[q][k]) = {}
    BY PortfolioAssumption
  <2> QED
    BY <1>1, <2>1
<1>4. \A m \in Milestones : \E p \in Programs : m \in MilestonesOf[p]
  <2>1. \A m \in Milestones : \E p \in Programs : \E r \in DOMAIN Nodes[p] : m \in Elements(Nodes[p][r])
    BY PortfolioAssumption
  <2> QED
    BY <1>1, <2>1
<1>5. \A m \in Milestones : ProgramOf[m] \in Programs /\ m \in MilestonesOf[ProgramOf[m]]
  BY <1>4 DEF ProgramOf
<1>6. \A p \in Programs : \A m \in MilestonesOf[p] : ProgramOf[m] = p
  BY <1>2, <1>3, <1>5
<1> QED
  BY <1>2, <1>3, <1>5, <1>6

LEMMA RaisedForShown ==
  ASSUME NEW i \in Issues
  PROVE  RaisedFor[i] \in Programs /\ Affects[i] \subseteq MilestonesOf[RaisedFor[i]]
<1>1. \E p \in Programs : Affects[i] \subseteq UNION {Elements(Nodes[p][r]) : r \in DOMAIN Nodes[p]}
  BY PortfolioAssumption
<1>2. \E p \in Programs : Affects[i] \subseteq MilestonesOf[p]
  BY <1>1 DEF MilestonesOf
<1> QED
  BY <1>2 DEF RaisedFor

LEMMA GraphShown ==
  ASSUME ProgramsOK, NEW p \in Programs
  PROVE  /\ Graph(p) \in Seq(Milestones) /\ Len(Graph(p)) > 0 /\ ValidGraph(Graph(p))
         /\ Elements(Graph(p)) \subseteq MilestonesOf[p]
         /\ Graph(p)[1] \in Elements(Graph(p)) /\ Deps[Graph(p)[1]] = {}
<1>1. program[p].revision \in DOMAIN Nodes[p] /\ Nodes[p] \in Seq(Seq(Milestones))
  BY PortfolioAssumption DEF ProgramsOK
<1>2. Graph(p) \in Seq(Milestones)
  BY <1>1, ElementsShown DEF Graph
<1>3. Len(Graph(p)) > 0 /\ ValidGraph(Graph(p))
  BY <1>1, PortfolioAssumption DEF Graph
<1>4. Elements(Graph(p)) \subseteq MilestonesOf[p]
  BY <1>1 DEF Graph, MilestonesOf
<1>5. Graph(p)[1] \in Elements(Graph(p))
  BY <1>2, <1>3, ElementsShown
<1>6. Deps[Graph(p)[1]] = {}
  BY <1>3, <1>5 DEF ValidGraph
<1> QED
  BY <1>2, <1>3, <1>4, <1>5, <1>6

LEMMA NextNodeShown ==
  ASSUME ProgramsOK, NEW p \in Programs, NextNode(p) # Nothing
  PROVE  /\ NextNode(p) \in Elements(Graph(p)) /\ NextNode(p) \in MilestonesOf[p]
         /\ NextNode(p) \in Milestones
         /\ milestone[NextNode(p)].status = "approved"
<1> DEFINE fit == {i \in DOMAIN Graph(p) : /\ milestone[Graph(p)[i]].status = "approved"
                                            /\ \A d \in Deps[Graph(p)[i]] : milestone[d].status = "outcome_ready"}
<1>1. NextNode(p) = IF fit = {} THEN Nothing ELSE Graph(p)[Lowest(fit)]
  BY Zenon DEF NextNode, First
<1>2. DOMAIN Graph(p) = 1..Len(Graph(p)) /\ Len(Graph(p)) \in Nat
  BY GraphShown, ElementsShown
<1>3. fit # {} /\ fit \subseteq Nat
  BY <1>1, <1>2
<1>4. Lowest(fit) \in fit
  <2> HIDE DEF fit
  <2> QED
    BY <1>3, LowestShown
<1>5. NextNode(p) \in Elements(Graph(p)) /\ milestone[NextNode(p)].status = "approved"
  BY <1>1, <1>3, <1>4 DEF Elements
<1> QED
  BY <1>5, GraphShown, ProgramOfShown

-----------------------------------------------------------------------------
(* The records of milestones.                                              *)

\* Runs are only added, and what is validated stays so.
Grows(old, new) ==
  /\ Len(old.outcomes) <= Len(new.outcomes)
  /\ old.validated # 0 => new.validated # 0

LEMMA SoundShown ==
  ASSUME NEW rec, Sound(rec)
  PROVE  /\ rec \in MilestoneType
         /\ DOMAIN rec.outcomes = 1..Len(rec.outcomes) /\ Len(rec.outcomes) \in Nat
         /\ \A i \in 1..Len(rec.outcomes) : rec.outcomes[i] \in Results \cup {"open"}
         /\ Running(rec) => Len(rec.outcomes) > 0 /\ rec.outcomes[Len(rec.outcomes)] = "open"
         /\ rec.outcomes # <<>> <=> Len(rec.outcomes) > 0
         /\ Grows(rec, rec)
<1>1. rec \in MilestoneType /\ rec.outcomes \in Seq(Results \cup {"open"})
  BY DEF Sound, MilestoneType
<1>2. /\ DOMAIN rec.outcomes = 1..Len(rec.outcomes) /\ Len(rec.outcomes) \in Nat
      /\ \A i \in 1..Len(rec.outcomes) : rec.outcomes[i] \in Results \cup {"open"}
  BY <1>1, ElementsShown
<1>3. Running(rec) => Len(rec.outcomes) > 0 /\ rec.outcomes[Len(rec.outcomes)] = "open"
  <2> SUFFICES ASSUME NEW i \in 1..Len(rec.outcomes), rec.outcomes[i] = "open"
               PROVE  Len(rec.outcomes) > 0 /\ rec.outcomes[Len(rec.outcomes)] = "open"
    BY <1>2 DEF Running, Elements
  <2> QED
    BY <1>2 DEF Sound
<1>4. rec.outcomes # <<>> <=> Len(rec.outcomes) > 0
  BY <1>1, <1>2, EmptySeq
<1> QED
  BY <1>1, <1>2, <1>3, <1>4 DEF Grows

LEMMA StartedSound ==
  ASSUME NEW rec, Sound(rec), rec.status # "running", NEW g \in Nat, g <= Len(rec.outcomes) + 1
  PROVE  /\ Sound(Started(rec, g)) /\ Running(Started(rec, g)) /\ Grows(rec, Started(rec, g))
         /\ Started(rec, g).validated = rec.validated
<1> DEFINE new == Append(rec.outcomes, "open")
<1>1. rec \in MilestoneType /\ rec.outcomes \in Seq(Results \cup {"open"}) /\ Len(rec.outcomes) \in Nat
  BY SoundShown DEF MilestoneType
<1>2. /\ new \in Seq(Results \cup {"open"}) /\ Len(new) = Len(rec.outcomes) + 1
      /\ (\A i \in 1..Len(rec.outcomes) : new[i] = rec.outcomes[i]) /\ new[Len(rec.outcomes) + 1] = "open"
  BY <1>1, AppendProperties
<1> HIDE DEF new
<1>3. PICK r : r = Started(rec, g)
  OBVIOUS
<1>4. r \in MilestoneType
  BY <1>1, <1>2, <1>3 DEF Started, MilestoneType, Statuses, new
<1>5. /\ r.status = "running" /\ r.generation = g /\ r.packet = 0 /\ r.pauseReason = Nothing
      /\ r.outcomes = new /\ r.validated = rec.validated
  BY <1>1, <1>3 DEF Started, MilestoneType, new
<1>6. rec.validated \in Nat /\ rec.validated <= Len(rec.outcomes)
      /\ (rec.validated # 0 => rec.outcomes[rec.validated] = "merge")
  BY <1>1 DEF Sound, MilestoneType
<1>7. \A i \in 1..Len(rec.outcomes) : rec.outcomes[i] # "open"
  BY <1>1, ElementsShown DEF Sound, Running
<1>8. Running(r)
  <2>1. Len(rec.outcomes) + 1 \in DOMAIN new
    BY <1>1, <1>2, ElementsShown
  <2> QED
    BY <1>2, <1>5, <2>1 DEF Running, Elements
<1>9. Sound(r)
  <2>1. /\ r.generation <= Len(r.outcomes) /\ r.packet <= Len(r.outcomes)
        /\ r.validated <= Len(r.outcomes)
    BY <1>1, <1>2, <1>5, <1>6
  <2>2. \A i \in 1..Len(r.outcomes) - 1 : r.outcomes[i] # "open"
    BY <1>1, <1>2, <1>5, <1>7
  <2>3. r.validated # 0 => r.outcomes[r.validated] = "merge"
    BY <1>1, <1>2, <1>5, <1>6
  <2> QED
    BY <1>4, <1>5, <1>8, <2>1, <2>2, <2>3 DEF Sound
<1>10. Grows(rec, r)
  BY <1>1, <1>2, <1>5 DEF Grows
<1> QED
  BY <1>3, <1>5, <1>8, <1>9, <1>10

\* The end of a run, in a milestone that is as it was or has just been paused.
LEMMA EndedSound ==
  ASSUME NEW rec, Sound(rec), Running(rec), NEW status \in Statuses \ {"running"},
         NEW reason \in Issues \cup {Nothing}, reason # Nothing <=> status = "paused",
         NEW result \in Results, NEW r \in MilestoneType,
         r.status = status, r.pauseReason = reason, r.generation = rec.generation,
         r.packet = Len(rec.outcomes), r.validated = rec.validated,
         r.outcomes = [rec.outcomes EXCEPT ![Len(rec.outcomes)] = result]
  PROVE  Sound(r) /\ ~ Running(r) /\ Grows(rec, r) /\ rec.outcomes # <<>>
<1> DEFINE n == Len(rec.outcomes)
           new == r.outcomes
<1>1. /\ n \in Nat /\ n > 0 /\ DOMAIN rec.outcomes = 1..n /\ rec.outcomes[n] = "open"
      /\ rec.outcomes # <<>>
  BY SoundShown
<1>2. /\ new \in Seq(Results \cup {"open"}) /\ DOMAIN new = 1..n
  BY <1>1 DEF MilestoneType
<1>3. Len(new) = n
  <2>1. DOMAIN new = 1..Len(new) /\ Len(new) \in Nat
    BY <1>2, ElementsShown
  <2> QED
    BY <1>1, <1>2, <2>1
<1>4. \A i \in 1..n : new[i] = IF i = n THEN result ELSE rec.outcomes[i]
  BY <1>1
<1>5. \A i \in 1..n : new[i] # "open"
  BY <1>1, <1>4 DEF Sound, Results
<1>6. ~ Running(r)
  BY <1>2, <1>5 DEF Running, Elements
<1>7. /\ rec.validated \in Nat /\ rec.validated <= n /\ rec.generation <= n
      /\ (rec.validated # 0 => rec.outcomes[rec.validated] = "merge")
  BY DEF Sound, MilestoneType
<1>8. r.validated # 0 => new[r.validated] = "merge"
  BY <1>1, <1>4, <1>7
<1> HIDE DEF n, new
<1>9. Sound(r)
  BY <1>1, <1>3, <1>5, <1>6, <1>7, <1>8 DEF Sound, n, new
<1> QED
  BY <1>1, <1>3, <1>6, <1>9 DEF Grows, n, new

LEMMA FinishedType ==
  ASSUME NEW rec \in MilestoneType, NEW result \in Results, rec.outcomes # <<>>
  PROVE  /\ Finished(rec, result) \in MilestoneType
         /\ Finished(rec, result).status = IF rec.pauseReason = Nothing THEN "outcome_ready" ELSE "paused"
         /\ Finished(rec, result).packet = Len(rec.outcomes)
         /\ Finished(rec, result).outcomes = [rec.outcomes EXCEPT ![Len(rec.outcomes)] = result]
         /\ Finished(rec, result).generation = rec.generation
         /\ Finished(rec, result).validated = rec.validated
         /\ Finished(rec, result).pauseReason = rec.pauseReason
<1>1. /\ rec.outcomes \in Seq(Results \cup {"open"}) /\ Len(rec.outcomes) \in Nat
      /\ DOMAIN rec.outcomes = 1..Len(rec.outcomes)
  BY ElementsShown DEF MilestoneType
<1>2. PICK new : new = [rec.outcomes EXCEPT ![Len(rec.outcomes)] = result]
  OBVIOUS
<1>3. new \in Seq(Results \cup {"open"})
  BY <1>1, <1>2, ExceptSeq
<1>4. Finished(rec, result) =
        [rec EXCEPT !.status = IF rec.pauseReason = Nothing THEN "outcome_ready" ELSE "paused",
                    !.packet = Len(rec.outcomes), !.outcomes = new]
  BY <1>2 DEF Finished
<1> QED
  BY <1>1, <1>2, <1>3, <1>4 DEF MilestoneType, Statuses

LEMMA FinishedSound ==
  ASSUME NEW rec, Sound(rec), Running(rec), NEW result \in Results
  PROVE  /\ Sound(Finished(rec, result)) /\ ~ Running(Finished(rec, result))
         /\ Grows(rec, Finished(rec, result)) /\ rec.outcomes # <<>>
         /\ Finished(rec, result).validated = rec.validated
<1>1. rec \in MilestoneType /\ rec.outcomes # <<>> /\ rec.pauseReason = Nothing
  BY SoundShown DEF Sound
<1>2. PICK r : r = Finished(rec, result)
  OBVIOUS
<1>3. /\ r \in MilestoneType /\ r.status = "outcome_ready" /\ r.packet = Len(rec.outcomes)
      /\ r.outcomes = [rec.outcomes EXCEPT ![Len(rec.outcomes)] = result]
      /\ r.generation = rec.generation /\ r.validated = rec.validated /\ r.pauseReason = Nothing
  BY <1>1, <1>2, FinishedType
<1>4. Sound(r) /\ ~ Running(r) /\ Grows(rec, r)
  BY <1>3, EndedSound DEF Statuses
<1> QED
  BY <1>1, <1>2, <1>3, <1>4

PausedFor(rec, i) == [rec EXCEPT !.status = "paused", !.pauseReason = i]

LEMMA StoppedSound ==
  ASSUME NEW rec, Sound(rec), Running(rec), NEW i \in Issues
  PROVE  LET r == Finished(PausedFor(rec, i), "other")
         IN Sound(r) /\ ~ Running(r) /\ Grows(rec, r) /\ rec.outcomes # <<>>
            /\ r.status = "paused" /\ r.validated = rec.validated
<1>1. rec \in MilestoneType /\ rec.outcomes # <<>> /\ i # Nothing
  BY SoundShown, PortfolioAssumption
<1>2. PICK old : old = PausedFor(rec, i)
  OBVIOUS
<1>3. /\ old \in MilestoneType /\ old.outcomes = rec.outcomes /\ old.generation = rec.generation
      /\ old.validated = rec.validated /\ old.pauseReason = i
  BY <1>1, <1>2 DEF PausedFor, MilestoneType, Statuses
<1>4. PICK r : r = Finished(old, "other")
  OBVIOUS
<1>5. /\ r \in MilestoneType /\ r.status = "paused" /\ r.packet = Len(rec.outcomes)
      /\ r.outcomes = [rec.outcomes EXCEPT ![Len(rec.outcomes)] = "other"]
      /\ r.generation = rec.generation /\ r.validated = rec.validated /\ r.pauseReason = i
  BY <1>1, <1>3, <1>4, FinishedType DEF Results
<1>6. Sound(r) /\ ~ Running(r) /\ Grows(rec, r)
  BY <1>1, <1>5, EndedSound DEF Statuses, Results
<1> QED
  BY <1>1, <1>2, <1>4, <1>5, <1>6

LEMMA PausedSound ==
  ASSUME NEW rec, Sound(rec), ~ Running(rec), NEW i \in Issues
  PROVE  /\ Sound(PausedFor(rec, i)) /\ ~ Running(PausedFor(rec, i)) /\ Grows(rec, PausedFor(rec, i))
         /\ PausedFor(rec, i).outcomes = rec.outcomes /\ PausedFor(rec, i).status = "paused"
         /\ PausedFor(rec, i).validated = rec.validated
<1>1. PICK r : r = PausedFor(rec, i)
  OBVIOUS
<1>2. /\ r \in MilestoneType /\ r.status = "paused" /\ r.pauseReason = i /\ r.generation = rec.generation
      /\ r.outcomes = rec.outcomes /\ r.packet = rec.packet /\ r.validated = rec.validated
  BY <1>1 DEF PausedFor, Sound, MilestoneType, Statuses
<1>3. i # Nothing
  BY PortfolioAssumption
<1> QED
  BY <1>1, <1>2, <1>3, SoundShown DEF Sound, Running, Grows

LEMMA ResumedSound ==
  ASSUME NEW rec, Sound(rec), rec.pauseReason # Nothing,
         NEW r, r = [rec EXCEPT !.status = "approved", !.pauseReason = Nothing]
  PROVE  Sound(r) /\ ~ Running(r) /\ ~ Running(rec) /\ Grows(rec, r) /\ r.outcomes = rec.outcomes
         /\ r.validated = rec.validated
<1>1. /\ r \in MilestoneType /\ r.status = "approved" /\ r.pauseReason = Nothing
      /\ r.generation = rec.generation
      /\ r.outcomes = rec.outcomes /\ r.packet = rec.packet /\ r.validated = rec.validated
  BY DEF Sound, MilestoneType, Statuses
<1> QED
  BY <1>1, SoundShown DEF Sound, Running, Grows

LEMMA ValidatedSound ==
  ASSUME NEW rec, Sound(rec), NEW k \in DOMAIN rec.outcomes, rec.outcomes[k] = "merge",
         NEW r, r = [rec EXCEPT !.validated = k]
  PROVE  /\ Sound(r) /\ Grows(rec, r) /\ r.outcomes = rec.outcomes /\ r.status = rec.status
         /\ r.generation = rec.generation /\ r.validated # 0
<1>1. rec \in MilestoneType /\ k \in 1..Len(rec.outcomes) /\ Len(rec.outcomes) \in Nat
  BY SoundShown
<1>2. /\ r \in MilestoneType /\ r.status = rec.status /\ r.pauseReason = rec.pauseReason
      /\ r.generation = rec.generation
      /\ r.outcomes = rec.outcomes /\ r.packet = rec.packet /\ r.validated = k
  BY <1>1 DEF MilestoneType
<1> QED
  BY <1>1, <1>2 DEF Sound, Running, Grows

-----------------------------------------------------------------------------
(* What each part of the invariant asks of a step.                         *)

MilestonesGrow == \A m \in Milestones : Grows(milestone[m], milestone'[m])
SameRuns == \A m \in Milestones : Open(m)' <=> Open(m)
SamePrograms(S) == \A p \in S : program'[p] = program[p]
SameGraphs ==
  \A p \in Programs : /\ program'[p].revision = program[p].revision
                      /\ program'[p].needs = program[p].needs

LEMMA MilestoneShown ==
  ASSUME MilestonesOK, NEW m \in Milestones
  PROVE  /\ Sound(milestone[m]) /\ milestone[m] \in MilestoneType
         /\ DOMAIN milestone[m].outcomes = 1..Len(milestone[m].outcomes)
         /\ Len(milestone[m].outcomes) \in Nat
         /\ Open(m) <=> Running(milestone[m])
         /\ Open(m) <=> milestone[m].status = "running"
         /\ milestone[m].outcomes # <<>> <=> Len(milestone[m].outcomes) > 0
<1>1. PICK r : r = milestone[m]
  OBVIOUS
<1>2. Sound(r)
  BY <1>1 DEF MilestonesOK
<1>3. /\ r \in MilestoneType /\ DOMAIN r.outcomes = 1..Len(r.outcomes) /\ Len(r.outcomes) \in Nat
      /\ (Running(r) <=> r.status = "running")
      /\ r.outcomes # <<>> <=> Len(r.outcomes) > 0
  BY <1>2, SoundShown DEF Sound
<1> QED
  BY <1>1, <1>2, <1>3 DEF Open, Running

\* The milestones, one by one.
LEMMA MilestonesReplaced ==
  ASSUME MilestonesOK, DOMAIN milestone' = Milestones, milestone' = [m \in Milestones |-> milestone'[m]],
         \A m \in Milestones : Sound(milestone'[m]) /\ Grows(milestone[m], milestone'[m])
  PROVE  /\ MilestonesOK' /\ MilestonesGrow
         /\ \A m \in Milestones : Open(m)' <=> Running(milestone'[m])
BY DEF MilestonesOK, MilestonesGrow, Open, Running

LEMMA MilestonesKept ==
  ASSUME MilestonesOK, UNCHANGED milestone
  PROVE  MilestonesOK' /\ MilestonesGrow /\ SameRuns
<1>1. \A m \in Milestones : Grows(milestone[m], milestone'[m])
  <2> SUFFICES ASSUME NEW m \in Milestones
               PROVE  Grows(milestone[m], milestone'[m])
    OBVIOUS
  <2>1. PICK r : r = milestone[m] /\ r = milestone'[m]
    OBVIOUS
  <2>2. Sound(r)
    BY <2>1, MilestoneShown
  <2> QED
    BY <2>1, <2>2, SoundShown
<1> QED
  BY <1>1 DEF MilestonesOK, MilestonesGrow, SameRuns, Open

LEMMA ProgramsKept ==
  ASSUME ProgramsOK, program' \in [Programs -> ProgramType], SameGraphs
  PROVE  ProgramsOK'
<1>1. \A p \in Programs : \A n \in program[p].needs : n[1] \in Programs
  BY DEF ProgramsOK, ProgramType
<1> QED
  BY <1>1 DEF ProgramsOK, SameGraphs

LEMMA PacketsKept ==
  ASSUME Inv, MilestonesOK', MilestonesGrow, NEW s \in Supervisors, plan[s] # Nothing,
         NEW x \in plan[s].packets
  PROVE  x[2] \in DOMAIN milestone'[x[1]].outcomes
<1>1. x[1] \in Milestones /\ x[2] \in DOMAIN milestone[x[1]].outcomes
  BY DEF Inv, SendingOK, PlanType
<1>2. PICK m \in Milestones : m = x[1]
  BY <1>1
<1>3. PICK old, new : old = milestone[m] /\ new = milestone'[m]
  OBVIOUS
<1>4. Sound(old) /\ Sound(new) /\ Grows(old, new)
  BY <1>3 DEF Inv, MilestonesOK, MilestonesGrow
<1>5. /\ DOMAIN old.outcomes = 1..Len(old.outcomes) /\ DOMAIN new.outcomes = 1..Len(new.outcomes)
      /\ Len(old.outcomes) \in Nat /\ Len(new.outcomes) \in Nat
  BY <1>4, SoundShown
<1> QED
  BY <1>1, <1>2, <1>3, <1>4, <1>5 DEF Grows

LEMMA SendingKept ==
  ASSUME Inv, MilestonesOK', MilestonesGrow, UNCHANGED <<plan, handover, candidates>>
  PROVE  SendingOK'
BY PacketsKept DEF Inv, SendingOK

\* What is answered is not sent again.
LEMMA AnsweredKeeps ==
  ASSUME Inv, NEW s \in Supervisors, Answered(s), MilestonesOK', MilestonesGrow
  PROVE  SendingOK' /\ OthersOK'
<1>1. /\ plan' = [plan EXCEPT ![s] = Nothing] /\ receipts' = receipts \cup {plan[s]}
      /\ UNCHANGED <<queue, issue, candidates, promoted, handover>>
  BY DEF Answered, integration
<1>2. \A u \in Supervisors : plan'[u] # Nothing => plan[u] # Nothing /\ plan'[u] = plan[u]
  BY <1>1 DEF Inv, SendingOK
<1>3. \A u \in Supervisors : plan'[u] # Nothing =>
        \A x \in plan'[u].packets : x[2] \in DOMAIN milestone'[x[1]].outcomes
  BY <1>2, PacketsKept
<1>4. SendingOK'
  BY <1>1, <1>2, <1>3 DEF Inv, SendingOK
<1>5. OthersOK'
  BY <1>1 DEF Inv, OthersOK
<1> QED
  BY <1>4, <1>5

\* A milestone that runs for the first time has the evidence it builds on.
FirstRun(m) ==
  /\ \A d \in Deps[m] : milestone'[d].validated # 0
  /\ OneGraph(ProgramOf[m]) =>
       program[ProgramOf[m]].needs \subseteq {<<c.program, c.revision>> : c \in promoted}

LEMMA EvidenceKept ==
  ASSUME Inv, MilestonesOK', MilestonesGrow, promoted \subseteq promoted',
         \A p \in Programs : OneGraph(p) => program'[p].needs = program[p].needs,
         \A m \in Milestones : milestone'[m].outcomes # <<>> => milestone[m].outcomes # <<>> \/ FirstRun(m)
  PROVE  RunsOnEvidence'
<1>1. RunsOnEvidence
  BY DEF Inv
<1>2. {<<c.program, c.revision>> : c \in promoted} \subseteq {<<c.program, c.revision>> : c \in promoted'}
  OBVIOUS
<1> SUFFICES ASSUME NEW m \in Milestones
             PROVE  /\ milestone'[m].validated # 0 => milestone'[m].outcomes[milestone'[m].validated] = "merge"
                    /\ milestone'[m].outcomes # <<>> =>
                         /\ \A d \in Deps[m] : milestone'[d].validated # 0
                         /\ OneGraph(ProgramOf[m]) =>
                              program'[ProgramOf[m]].needs \subseteq {<<c.program, c.revision>> : c \in promoted'}
  BY DEF RunsOnEvidence
<1>3. milestone'[m].validated # 0 => milestone'[m].outcomes[milestone'[m].validated] = "merge"
  BY DEF MilestonesOK, Sound
<1>4. Deps[m] \subseteq Milestones /\ ProgramOf[m] \in Programs
  BY ProgramOfShown, PortfolioAssumption
<1>5. ASSUME milestone'[m].outcomes # <<>>
      PROVE  /\ \A d \in Deps[m] : milestone'[d].validated # 0
             /\ OneGraph(ProgramOf[m]) =>
                  program[ProgramOf[m]].needs \subseteq {<<c.program, c.revision>> : c \in promoted}
  <2>1. CASE milestone[m].outcomes # <<>>
    <3>1. /\ \A d \in Deps[m] : milestone[d].validated # 0
          /\ OneGraph(ProgramOf[m]) =>
               program[ProgramOf[m]].needs \subseteq {<<c.program, c.revision>> : c \in promoted}
      BY <1>1, <2>1 DEF RunsOnEvidence
    <3>2. \A d \in Deps[m] : milestone'[d].validated # 0
      BY <3>1, <1>4 DEF MilestonesGrow, Grows
    <3> QED
      BY <3>1, <3>2
  <2>2. CASE FirstRun(m)
    BY <2>2 DEF FirstRun
  <2> QED
    BY <1>5, <2>1, <2>2
<1> QED
  BY <1>2, <1>3, <1>4, <1>5

LEMMA IssuesKept ==
  ASSUME Inv, UNCHANGED issue,
         \A m \in Milestones : /\ milestone[m].status = "paused"
                               /\ V2(ProgramOf[m])
                               /\ \E i \in Issues : Unresolved(i) /\ m \in Affects[i]
                               => milestone'[m].status = "paused"
  PROVE  IssuesHoldMilestones'
<1>1. \A i \in Issues : \A m \in Affects[i] : m \in Milestones /\ ProgramOf[m] = RaisedFor[i]
  BY RaisedForShown, ProgramOfShown
<1>2. IssuesHoldMilestones
  BY DEF Inv
<1> QED
  BY <1>1, <1>2 DEF IssuesHoldMilestones, Unresolved, V2

\* The phase of a program, while its runs and admissions are left alone.
LEMMA PhaseKept ==
  ASSUME Inv, NEW p \in Programs, UNCHANGED admissions, SameRuns, SamePrograms(Programs \ {p}),
         V2(p) =>
           /\ program'[p].phase = "running" => program[p].phase = "running"
           /\ program'[p].phase = "parked" => program'[p].resume \in {"eligible", "integration_pending"}
           /\ p \notin Fenceable /\ Busy(p) =>
                /\ program'[p].phase \notin {"approved", "eligible", "parked"}
                /\ OneGraph(p) => program'[p].phase \notin {"integration_pending", "completed"},
         ~ V2(p) =>
           /\ program'[p].phase \in {"approved", "running", "parked", "completed"}
           /\ Busy(p) => program'[p].phase = "running"
  PROVE  PhasesOK' /\ WorkIsAdmitted' /\ LegacyIsSerial'
<1>1. \A q \in Programs : Busy(q)' <=> Busy(q)
  BY ProgramOfShown DEF Busy, SameRuns
<1>2. \A q \in Programs : q # p => program'[q] = program[q]
  BY DEF SamePrograms
<1>3. PhasesOK'
  BY <1>2 DEF Inv, PhasesOK
<1>4. WorkIsAdmitted'
  <2> SUFFICES ASSUME NEW q \in Programs, V2(q), q \notin Fenceable
               PROVE  /\ \A m \in MilestonesOf[q] : Open(m)' => \E a \in admissions' : a.milestone = m
                      /\ \A a, b \in admissions' : a.program = q /\ b.program = q => a = b
                      /\ program'[q].phase \in {"approved", "eligible", "parked"} => ~ Busy(q)'
                      /\ OneGraph(q) /\ program'[q].phase \in {"integration_pending", "completed"} => ~ Busy(q)'
    BY DEF WorkIsAdmitted
  <2>1. /\ \A m \in MilestonesOf[q] : Open(m) => \E a \in admissions : a.milestone = m
        /\ \A a, b \in admissions : a.program = q /\ b.program = q => a = b
        /\ program[q].phase \in {"approved", "eligible", "parked"} => ~ Busy(q)
        /\ OneGraph(q) /\ program[q].phase \in {"integration_pending", "completed"} => ~ Busy(q)
    BY DEF Inv, WorkIsAdmitted
  <2>2. \A m \in MilestonesOf[q] : Open(m)' => \E a \in admissions' : a.milestone = m
    BY <2>1, ProgramOfShown DEF SameRuns
  <2>3. \A a, b \in admissions' : a.program = q /\ b.program = q => a = b
    BY <2>1
  <2>4. CASE q = p
    BY <2>2, <2>3, <2>4, <1>1
  <2>5. CASE q # p
    BY <2>1, <2>2, <2>3, <2>5, <1>1, <1>2
  <2> QED
    BY <2>4, <2>5
<1>5. LegacyIsSerial'
  <2> SUFFICES ASSUME NEW q \in Legacy
               PROVE  /\ program'[q].phase \in {"approved", "running", "parked", "completed"}
                      /\ Busy(q)' => program'[q].phase = "running"
                      /\ \A m, n \in MilestonesOf[q] : Open(m)' /\ Open(n)' => m = n
    BY DEF LegacyIsSerial
  <2>1. /\ program[q].phase \in {"approved", "running", "parked", "completed"}
        /\ Busy(q) => program[q].phase = "running"
        /\ \A m, n \in MilestonesOf[q] : Open(m) /\ Open(n) => m = n
    BY DEF Inv, LegacyIsSerial
  <2>2. q \in Programs
    BY PortfolioAssumption
  <2>3. \A m, n \in MilestonesOf[q] : Open(m)' /\ Open(n)' => m = n
    BY <2>1, <2>2, ProgramOfShown DEF SameRuns
  <2> QED
    BY <2>1, <2>2, <2>3, <1>1, <1>2 DEF V2
<1> QED
  BY <1>3, <1>4, <1>5

LEMMA AdmissionsKept ==
  ASSUME Inv, UNCHANGED admissions, SameRuns
  PROVE  AdmissionsOK' /\ ClaimsAreExclusive'
<1>1. \A a \in admissions : a.milestone \in Milestones
  BY DEF Inv, AdmissionsOK, AdmissionType
<1> QED
  BY <1>1 DEF Inv, AdmissionsOK, ClaimsAreExclusive, SameRuns

LEMMA HandoverKept ==
  ASSUME Inv, UNCHANGED <<handover, candidates>>, NEW p \in Programs, SamePrograms(Programs \ {p}),
         V2(p) /\ OneGraph(p) /\ Past(p) => Past(p)'
  PROVE  HandedOver'
<1>1. \A q \in Programs : q # p => (Past(q)' <=> Past(q))
  BY DEF SamePrograms, Past
<1>2. \A q \in Programs : V2(q) /\ OneGraph(q) /\ Past(q) => Past(q)'
  BY <1>1
<1> HIDE DEF Past
<1> QED
  BY <1>2 DEF Inv, HandedOver

-----------------------------------------------------------------------------
(* Steps that leave runs and admissions alone.                             *)

\* A program whose record is replaced, with the graph it has.
LEMMA ProgramReplaced ==
  ASSUME Inv, NEW p \in Programs, NEW r \in ProgramType, program' = [program EXCEPT ![p] = r],
         r.revision = program[p].revision, r.needs = program[p].needs
  PROVE  ProgramsOK' /\ SameGraphs /\ SamePrograms(Programs \ {p}) /\ program'[p] = r
<1>1. program \in [Programs -> ProgramType]
  BY DEF Inv, ProgramsOK
<1>2. program' \in [Programs -> ProgramType] /\ program'[p] = r
      /\ \A q \in Programs \ {p} : program'[q] = program[q]
  BY <1>1
<1>3. SameGraphs
  BY <1>2 DEF SameGraphs
<1> QED
  BY <1>2, <1>3, ProgramsKept DEF Inv, SamePrograms

LEMMA ProgramShown ==
  ASSUME Inv, NEW p \in Programs
  PROVE  program[p] \in ProgramType /\ program \in [Programs -> ProgramType]
BY DEF Inv, ProgramsOK

\* What every step shares that changes one program at most.
LEMMA QuietStep ==
  ASSUME Inv, UNCHANGED <<milestone, admissions>>
  PROVE  /\ MilestonesOK' /\ MilestonesGrow /\ SameRuns /\ AdmissionsOK' /\ ClaimsAreExclusive'
         /\ \A m \in Milestones : milestone'[m].outcomes # <<>> => milestone[m].outcomes # <<>> \/ FirstRun(m)
         /\ \A m \in Milestones : milestone[m].status = "paused" => milestone'[m].status = "paused"
<1>1. MilestonesOK' /\ MilestonesGrow /\ SameRuns
  BY MilestonesKept DEF Inv
<1>2. AdmissionsOK' /\ ClaimsAreExclusive'
  BY <1>1, AdmissionsKept
<1> QED
  BY <1>1, <1>2

LEMMA RequestExecutionStep ==
  ASSUME Inv, NEW p \in Programs, RequestExecution(p)
  PROVE  Inv'
<1>1. /\ V2(p) /\ program[p].phase = "approved"
      /\ program' = [program EXCEPT ![p].phase = "eligible", ![p].resume = Nothing]
      /\ queue' = Append(Without(queue, p), p)
      /\ UNCHANGED <<milestone, admissions, issue, candidates, promoted, plan, handover, receipts>>
  BY Zenon DEF RequestExecution, integration, sending
<1>2. PICK r : r = [program[p] EXCEPT !.phase = "eligible", !.resume = Nothing]
  OBVIOUS
<1>3. /\ r \in ProgramType /\ r.revision = program[p].revision /\ r.needs = program[p].needs
      /\ r.phase = "eligible"
  BY <1>2, ProgramShown DEF ProgramType, Phases
<1>4. program' = [program EXCEPT ![p] = r]
  BY <1>1, <1>2, ProgramShown
<1>5. ProgramsOK' /\ SameGraphs /\ SamePrograms(Programs \ {p}) /\ program'[p] = r
  BY <1>3, <1>4, ProgramReplaced
<1>6. /\ MilestonesOK' /\ MilestonesGrow /\ SameRuns /\ AdmissionsOK' /\ ClaimsAreExclusive'
      /\ \A m \in Milestones : milestone'[m].outcomes # <<>> => milestone[m].outcomes # <<>> \/ FirstRun(m)
      /\ \A m \in Milestones : milestone[m].status = "paused" => milestone'[m].status = "paused"
  BY <1>1, QuietStep
<1>7. SendingOK'
  BY <1>1, <1>6, SendingKept
<1>8. OthersOK'
  <2>1. Without(queue, p) \in Seq(Programs)
    BY WithoutType DEF Inv, OthersOK
  <2>2. queue' \in Seq(Programs)
    BY <1>1, <2>1, AppendProperties
  <2> QED
    BY <1>1, <2>2 DEF Inv, OthersOK
<1>9. PhasesOK' /\ WorkIsAdmitted' /\ LegacyIsSerial'
  <2>1. p \notin Fenceable => ~ Busy(p)
    BY <1>1 DEF Inv, WorkIsAdmitted
  <2> QED
    BY <1>1, <1>3, <1>5, <1>6, <2>1, PhaseKept
<1>10. HandedOver'
  <2>1. ~ Past(p)
    BY <1>1 DEF Past
  <2> QED
    BY <1>1, <1>5, <2>1, HandoverKept
<1>11. RunsOnEvidence'
  BY <1>1, <1>5, <1>6, EvidenceKept DEF SameGraphs
<1>12. IssuesHoldMilestones'
  BY <1>1, <1>6, IssuesKept
<1> QED
  BY <1>5, <1>6, <1>7, <1>8, <1>9, <1>10, <1>11, <1>12 DEF Inv

LEMMA ResumeStep ==
  ASSUME Inv, NEW p \in Programs, Resume(p)
  PROVE  Inv'
<1> DEFINE phase == IF V2(p) THEN program[p].resume ELSE "running"
<1>1. /\ program[p].phase = "parked"
      /\ program' = [program EXCEPT ![p].phase = phase, ![p].resume = Nothing]
      /\ UNCHANGED <<milestone, admissions, queue, issue, candidates, promoted, plan, handover, receipts>>
  BY Zenon DEF Resume, integration, sending
<1>2. V2(p) => phase \in {"eligible", "integration_pending"}
  BY <1>1 DEF Inv, PhasesOK
<1>3. ~ V2(p) => phase = "running"
  OBVIOUS
<1>4. PICK next : next = phase
  OBVIOUS
<1>5. /\ V2(p) => next \in {"eligible", "integration_pending"} /\ next = program[p].resume
      /\ ~ V2(p) => next = "running"
      /\ next \in Phases
  BY <1>2, <1>3, <1>4 DEF Phases
<1>6. program' = [program EXCEPT ![p].phase = next, ![p].resume = Nothing]
  BY <1>1, <1>4
<1> HIDE DEF phase
<1>7. PICK r : r = [program[p] EXCEPT !.phase = next, !.resume = Nothing]
  OBVIOUS
<1>8. /\ r \in ProgramType /\ r.revision = program[p].revision /\ r.needs = program[p].needs
      /\ r.phase = next
  BY <1>5, <1>7, ProgramShown DEF ProgramType
<1>9. program' = [program EXCEPT ![p] = r]
  BY <1>6, <1>7, ProgramShown
<1>10. ProgramsOK' /\ SameGraphs /\ SamePrograms(Programs \ {p}) /\ program'[p] = r
  BY <1>8, <1>9, ProgramReplaced
<1>11. /\ MilestonesOK' /\ MilestonesGrow /\ SameRuns /\ AdmissionsOK' /\ ClaimsAreExclusive'
       /\ \A m \in Milestones : milestone'[m].outcomes # <<>> => milestone[m].outcomes # <<>> \/ FirstRun(m)
       /\ \A m \in Milestones : milestone[m].status = "paused" => milestone'[m].status = "paused"
  BY <1>1, QuietStep
<1>12. SendingOK' /\ OthersOK'
  BY <1>1, <1>11, SendingKept DEF Inv, OthersOK
<1>13. PhasesOK' /\ WorkIsAdmitted' /\ LegacyIsSerial'
  <2>1. V2(p) /\ p \notin Fenceable => ~ Busy(p)
    BY <1>1 DEF Inv, WorkIsAdmitted
  <2> QED
    BY <1>1, <1>5, <1>8, <1>10, <1>11, <2>1, PhaseKept
<1>14. HandedOver'
  <2>1. V2(p) /\ Past(p) => Past(p)'
    <3>1. Past(p) => program[p].resume = "integration_pending"
      BY <1>1 DEF Past
    <3>2. V2(p) /\ Past(p) => next = "integration_pending"
      BY <3>1, <1>5
    <3> QED
      BY <3>2, <1>8, <1>10 DEF Past
  <2> QED
    BY <1>1, <1>10, <2>1, HandoverKept
<1>15. RunsOnEvidence'
  BY <1>1, <1>10, <1>11, EvidenceKept DEF SameGraphs
<1>16. IssuesHoldMilestones'
  BY <1>1, <1>11, IssuesKept
<1> QED
  BY <1>10, <1>11, <1>12, <1>13, <1>14, <1>15, <1>16 DEF Inv

LEMMA PastIsQuiet ==
  ASSUME Inv, NEW p \in Programs, V2(p), p \notin Fenceable, OneGraph(p), Past(p)
  PROVE  ~ Busy(p)
BY DEF Inv, WorkIsAdmitted, Past

\* A graph_v2 program that is running has a run open.
LEMMA RunningIsBusy ==
  ASSUME Inv, NEW p \in Programs, V2(p), program[p].phase = "running"
  PROVE  Busy(p)
BY DEF Inv, PhasesOK, AdmissionsOK, Busy

LEMMA ApproveGraphStep ==
  ASSUME Inv, NEW p \in Programs, ApproveGraph(p)
  PROVE  Inv'
<1> DEFINE phase == IF program[p].phase = "running" THEN "running" ELSE "approved"
           needs == {<<q, program[q].revision>> : q \in CrossDeps[p]}
           r == [program[p] EXCEPT !.phase = phase, !.revision = @ + 1, !.needs = needs]
<1>1. /\ ~ Busy(p) /\ program[p].revision < Len(Nodes[p])
      /\ program' = [program EXCEPT
           ![p].phase = IF @ = "running" THEN @ ELSE "approved",
           ![p].revision = @ + 1,
           ![p].needs = needs]
      /\ issue' = [i \in Issues |->
           IF issue[i] = "requires_graph_revision" /\ RaisedFor[i] = p THEN "resolved" ELSE issue[i]]
      /\ UNCHANGED <<milestone, admissions, queue, candidates, promoted, plan, handover, receipts>>
  BY Zenon DEF ApproveGraph, integration, sending
<1>2. Nodes[p] \in Seq(Seq(Milestones)) /\ Len(Nodes[p]) \in Nat /\ DOMAIN Nodes[p] = 1..Len(Nodes[p])
  BY PortfolioAssumption, ElementsShown
<1>3. program[p].revision \in 1..Len(Nodes[p]) /\ program[p].revision + 1 \in DOMAIN Nodes[p]
  BY <1>1, <1>2 DEF Inv, ProgramsOK
<1>4. ~ OneGraph(p)
  <2> HIDE DEF phase, needs, r
  <2>1. PICK n \in Nat : n = Len(Nodes[p])
    BY <1>2
  <2>2. PICK k \in 1..n : k = program[p].revision
    BY <1>3, <2>1
  <2>3. k < n
    BY <1>1, <2>1, <2>2
  <2>4. n # 1
    BY <2>3
  <2> QED
    BY <2>1, <2>4, Zenon DEF OneGraph
<1>5. needs \in SUBSET (Programs \X Nat) /\ phase \in Phases
  BY PortfolioAssumption, ProgramShown DEF ProgramType, Phases
<1>6. r \in ProgramType /\ r.phase = phase /\ r.revision = program[p].revision + 1 /\ r.needs = needs
  <2>1. PICK old, ph, ns, n : old = program[p] /\ ph = phase /\ ns = needs /\ n = old.revision + 1
    OBVIOUS
  <2> HIDE DEF phase, needs
  <2>2. r = [old EXCEPT !.phase = ph, !.revision = n, !.needs = ns]
    BY <2>1
  <2>3. old \in ProgramType /\ ph \in Phases /\ ns \in SUBSET (Programs \X Nat) /\ n \in Nat
    BY <1>5, <2>1, ProgramShown DEF ProgramType
  <2> HIDE DEF r
  <2>4. r \in ProgramType /\ r.phase = ph /\ r.revision = n /\ r.needs = ns
    BY <2>2, <2>3 DEF ProgramType
  <2> QED
    BY <2>1, <2>4
<1>7. program' = [program EXCEPT ![p] = r]
  <2> HIDE DEF needs
  <2> QED
    BY <1>1, ProgramShown DEF ProgramType
<1>8. /\ program' \in [Programs -> ProgramType] /\ program'[p] = r
      /\ \A q \in Programs \ {p} : program'[q] = program[q]
  <2> HIDE DEF r
  <2> QED
    BY <1>6, <1>7, ProgramShown
<1>9. V2(p) => phase = "approved"
  BY <1>1, RunningIsBusy
<1>10. \A q \in Programs : /\ program'[q].revision \in Nat /\ program'[q].revision >= program[q].revision
                           /\ program[q].revision \in Nat /\ program[q].revision >= 1
                           /\ program'[q].revision \in DOMAIN Nodes[q]
  <2> SUFFICES ASSUME NEW q \in Programs
               PROVE  /\ program'[q].revision \in Nat /\ program'[q].revision >= program[q].revision
                      /\ program[q].revision \in Nat /\ program[q].revision >= 1
                      /\ program'[q].revision \in DOMAIN Nodes[q]
    OBVIOUS
  <2>1. program[q].revision \in DOMAIN Nodes[q] /\ Nodes[q] \in Seq(Seq(Milestones))
    BY PortfolioAssumption DEF Inv, ProgramsOK
  <2>2. program[q].revision \in 1..Len(Nodes[q]) /\ Len(Nodes[q]) \in Nat
    BY <2>1, ElementsShown
  <2>3. program'[q].revision = IF q = p THEN program[p].revision + 1 ELSE program[q].revision
    <3> HIDE DEF r
    <3> QED
      BY <1>6, <1>8
  <2> QED
    BY <1>3, <2>1, <2>2, <2>3
<1>11. ProgramsOK'
  <2>1. ASSUME NEW q \in Programs, NEW n \in program'[q].needs
        PROVE  n[2] \in 1..program'[n[1]].revision
    <3>1. CASE q = p
      <4>1. n \in needs
        <5> HIDE DEF r
        <5> QED
          BY <2>1, <3>1, <1>6, <1>8
      <4>2. PICK d \in CrossDeps[p] : n = <<d, program[d].revision>>
        BY <4>1
      <4>3. d \in Programs
        BY PortfolioAssumption
      <4> QED
        BY <4>2, <4>3, <1>10
    <3>2. CASE q # p
      <4>1. n \in program[q].needs
        BY <2>1, <3>2, <1>8
      <4>2. n[1] \in Programs /\ n[2] \in 1..program[n[1]].revision
        BY <4>1, ProgramShown DEF ProgramType, Inv, ProgramsOK
      <4> QED
        BY <4>2, <1>10
    <3> QED
      BY <3>1, <3>2
  <2>2. ASSUME NEW q \in Programs, q \in Legacy
        PROVE  program'[q].needs = {}
    <3>1. CASE q = p
      <4>1. needs = {}
        BY <2>2, <3>1, PortfolioAssumption
      <4> HIDE DEF r, needs
      <4> QED
        BY <3>1, <4>1, <1>6, <1>8
    <3>2. CASE q # p
      BY <2>2, <3>2, <1>8 DEF Inv, ProgramsOK
    <3> QED
      BY <3>1, <3>2
  <2> QED
    BY <1>8, <1>10, <2>1, <2>2 DEF ProgramsOK
<1>12. /\ MilestonesOK' /\ MilestonesGrow /\ SameRuns /\ AdmissionsOK' /\ ClaimsAreExclusive'
       /\ \A m \in Milestones : milestone'[m].outcomes # <<>> => milestone[m].outcomes # <<>> \/ FirstRun(m)
       /\ \A m \in Milestones : milestone[m].status = "paused" => milestone'[m].status = "paused"
  BY <1>1, QuietStep
<1>13. SendingOK' /\ OthersOK'
  BY <1>1, <1>12, SendingKept DEF Inv, OthersOK
<1>14. SamePrograms(Programs \ {p})
  BY <1>8 DEF SamePrograms
<1>15. PhasesOK' /\ WorkIsAdmitted' /\ LegacyIsSerial'
  <2>1. program'[p].phase = phase
    <3> HIDE DEF r
    <3> QED
      BY <1>6, <1>8
  <2> QED
    BY <1>1, <1>9, <1>12, <1>14, <2>1, PhaseKept
<1>16. HandedOver'
  BY <1>1, <1>4, <1>14, HandoverKept
<1>17. RunsOnEvidence'
  <2>1. \A q \in Programs : OneGraph(q) => program'[q].needs = program[q].needs
    BY <1>4, <1>8
  <2> QED
    BY <1>1, <1>12, <2>1, EvidenceKept
<1>18. IssuesHoldMilestones'
  <2>1. \A i \in Issues : /\ Unresolved(i)' => Unresolved(i)
                          /\ issue[i] = "resolved" => issue'[i] = "resolved"
    BY <1>1 DEF Unresolved
  <2> QED
    BY <1>1, <2>1 DEF Inv, IssuesHoldMilestones
<1> QED
  BY <1>11, <1>12, <1>13, <1>15, <1>16, <1>17, <1>18 DEF Inv

\* A program that goes on with its integration, or completes it.
LEMMA IntegrationMoves ==
  ASSUME Inv, NEW p \in Programs, V2(p), NEW phase \in {"integration_pending", "completed"},
         program' = [program EXCEPT ![p].phase = phase],
         OneGraph(p) => Past(p), UNCHANGED <<milestone, admissions>>
  PROVE  /\ ProgramsOK' /\ MilestonesOK' /\ MilestonesGrow /\ AdmissionsOK' /\ ClaimsAreExclusive'
         /\ PhasesOK' /\ WorkIsAdmitted' /\ LegacyIsSerial'
         /\ promoted \subseteq promoted' => RunsOnEvidence'
         /\ UNCHANGED issue => IssuesHoldMilestones'
         /\ Past(p)' /\ SamePrograms(Programs \ {p})
<1>1. PICK r : r = [program[p] EXCEPT !.phase = phase]
  OBVIOUS
<1>2. /\ r \in ProgramType /\ r.revision = program[p].revision /\ r.needs = program[p].needs
      /\ r.phase = phase
  BY <1>1, ProgramShown DEF ProgramType, Phases
<1>3. program' = [program EXCEPT ![p] = r]
  BY <1>1, ProgramShown
<1>4. ProgramsOK' /\ SameGraphs /\ SamePrograms(Programs \ {p}) /\ program'[p] = r
  BY <1>2, <1>3, ProgramReplaced
<1>5. /\ MilestonesOK' /\ MilestonesGrow /\ SameRuns /\ AdmissionsOK' /\ ClaimsAreExclusive'
      /\ \A m \in Milestones : milestone'[m].outcomes # <<>> => milestone[m].outcomes # <<>> \/ FirstRun(m)
      /\ \A m \in Milestones : milestone[m].status = "paused" => milestone'[m].status = "paused"
  BY QuietStep
<1>6. PhasesOK' /\ WorkIsAdmitted' /\ LegacyIsSerial'
  <2>1. OneGraph(p) /\ p \notin Fenceable => ~ Busy(p)
    BY PastIsQuiet
  <2> QED
    BY <1>2, <1>4, <1>5, <2>1, PhaseKept
<1>7. promoted \subseteq promoted' => RunsOnEvidence'
  BY <1>4, <1>5, EvidenceKept DEF SameGraphs
<1>8. UNCHANGED issue => IssuesHoldMilestones'
  BY <1>5, IssuesKept
<1>9. Past(p)'
  BY <1>2, <1>4 DEF Past
<1> QED
  BY <1>4, <1>5, <1>6, <1>7, <1>8, <1>9

LEMMA PromoteStep ==
  ASSUME Inv, NEW c \in candidates, Promote(c)
  PROVE  Inv'
<1>1. PICK p \in Programs : p = c.program /\ V2(p)
  BY DEF Inv, SendingOK
<1>2. /\ promoted' = promoted \cup {c}
      /\ program' = [program EXCEPT ![p].phase = "completed"]
      /\ UNCHANGED <<milestone, admissions, queue, issue, candidates, plan, handover, receipts>>
  BY <1>1, Zenon DEF Promote, sending
<1>3. OneGraph(p) => Past(p)
  BY <1>1 DEF Inv, HandedOver
<1>4. /\ ProgramsOK' /\ MilestonesOK' /\ MilestonesGrow /\ AdmissionsOK' /\ ClaimsAreExclusive'
      /\ PhasesOK' /\ WorkIsAdmitted' /\ LegacyIsSerial'
      /\ RunsOnEvidence' /\ IssuesHoldMilestones'
      /\ Past(p)' /\ SamePrograms(Programs \ {p})
  BY <1>1, <1>2, <1>3, IntegrationMoves
<1>5. SendingOK' /\ OthersOK'
  BY <1>2, <1>4, SendingKept DEF Inv, OthersOK
<1>6. HandedOver'
  BY <1>2, <1>4, HandoverKept
<1> QED
  BY <1>4, <1>5, <1>6 DEF Inv

LEMMA QueueCandidateStep ==
  ASSUME Inv, QueueCandidate
  PROVE  Inv'
<1>1. PICK c : c = handover
  OBVIOUS
<1>2. PICK p \in Programs : p = c.program /\ V2(p)
  BY <1>1 DEF QueueCandidate, Inv, SendingOK
<1>3. /\ handover' = Nothing /\ receipts' = receipts \cup {c}
      /\ UNCHANGED <<milestone, admissions, queue, issue, promoted, plan>>
  BY <1>1, Zenon DEF QueueCandidate
<1>4. CASE /\ candidates' = candidates \cup {c}
           /\ program' = [program EXCEPT ![p].phase = "integration_pending"]
  <2>1. OneGraph(p) => Past(p)
    BY <1>1, <1>2 DEF Inv, HandedOver, QueueCandidate
  <2>2. /\ ProgramsOK' /\ MilestonesOK' /\ MilestonesGrow /\ AdmissionsOK' /\ ClaimsAreExclusive'
        /\ PhasesOK' /\ WorkIsAdmitted' /\ LegacyIsSerial'
        /\ RunsOnEvidence' /\ IssuesHoldMilestones'
        /\ Past(p)' /\ SamePrograms(Programs \ {p})
    BY <1>2, <1>3, <1>4, <2>1, IntegrationMoves
  <2>3. SendingOK'
    <3>1. /\ \A d \in candidates' : d.program \in Programs /\ V2(d.program)
          /\ handover' = Nothing
      BY <1>2, <1>3, <1>4 DEF Inv, SendingOK
    <3> QED
      BY <1>3, <3>1 DEF Inv, SendingOK
  <2>4. OthersOK'
    BY <1>3, <1>4 DEF Inv, OthersOK
  <2>5. HandedOver'
    <3>1. \A q \in Programs : q # p => (Past(q)' <=> Past(q))
      BY <2>2 DEF SamePrograms, Past
    <3>2. \A q \in Programs : V2(q) /\ OneGraph(q) => \A d \in candidates : d.program = q => Past(q)
      BY DEF Inv, HandedOver
    <3> HIDE DEF Past
    <3>3. ASSUME NEW q \in Programs, V2(q), OneGraph(q), NEW d \in candidates', d.program = q
          PROVE  Past(q)'
      <4>1. CASE q = p
        BY <2>2, <4>1
      <4>2. CASE q # p
        BY <1>2, <1>4, <3>1, <3>2, <3>3, <4>2
      <4> QED
        BY <4>1, <4>2
    <3> QED
      BY <1>3, <3>3 DEF HandedOver
  <2> QED
    BY <2>2, <2>3, <2>4, <2>5 DEF Inv
<1>5. CASE UNCHANGED <<candidates, program>>
  <2>1. /\ MilestonesOK' /\ MilestonesGrow /\ SameRuns /\ AdmissionsOK' /\ ClaimsAreExclusive'
    BY <1>3, QuietStep
  <2>2. SendingOK' /\ OthersOK'
    BY <1>3, <1>5 DEF Inv, SendingOK, OthersOK
  <2>3. ProgramsOK' /\ PhasesOK' /\ WorkIsAdmitted' /\ LegacyIsSerial'
    BY <1>3, <1>5 DEF Inv, ProgramsOK, PhasesOK, WorkIsAdmitted, LegacyIsSerial, Busy, Open
  <2>4. HandedOver'
    BY <1>3, <1>5 DEF Inv, HandedOver, Past
  <2>5. RunsOnEvidence' /\ IssuesHoldMilestones'
    BY <1>3, <1>5 DEF Inv, RunsOnEvidence, IssuesHoldMilestones, Unresolved
  <2> QED
    BY <2>1, <2>2, <2>3, <2>4, <2>5 DEF Inv
<1> QED
  BY <1>1, <1>2, <1>4, <1>5 DEF QueueCandidate

-----------------------------------------------------------------------------
(* What is prepared and answered.                                          *)

LEMMA PlanStep ==
  ASSUME Inv, UNCHANGED <<program, milestone, admissions, queue, issue, candidates, promoted>>,
         SendingOK', OthersOK', HandedOver'
  PROVE  Inv'
<1>1. /\ MilestonesOK' /\ MilestonesGrow /\ SameRuns /\ AdmissionsOK' /\ ClaimsAreExclusive'
  BY QuietStep
<1>2. ProgramsOK' /\ PhasesOK' /\ WorkIsAdmitted' /\ LegacyIsSerial'
  BY DEF Inv, ProgramsOK, PhasesOK, WorkIsAdmitted, LegacyIsSerial, Busy, Open
<1>3. RunsOnEvidence' /\ IssuesHoldMilestones'
  BY DEF Inv, RunsOnEvidence, IssuesHoldMilestones, Unresolved
<1> QED
  BY <1>1, <1>2, <1>3 DEF Inv

LEMMA PreparableShown ==
  ASSUME Inv, NEW p \in Programs, Preparable(p)
  PROVE  /\ Advance(p) \in PlanType
         /\ \A x \in Advance(p).packets : x[2] \in DOMAIN milestone[x[1]].outcomes
<1>1. NextNode(p) # Nothing => NextNode(p) \in Milestones
  BY NextNodeShown DEF Inv
<1>2. Evidence(p) \subseteq Milestones
  <2>1. Elements(Graph(p)) \subseteq Milestones
    BY GraphShown, ProgramOfShown DEF Inv
  <2> QED
    BY <1>1, <2>1, PortfolioAssumption DEF Evidence
<1>3. \A m \in Evidence(p) : milestone[m].packet # 0
  BY DEF Preparable
<1>4. ASSUME NEW m \in Evidence(p)
      PROVE  milestone[m].packet \in Nat /\ milestone[m].packet \in DOMAIN milestone[m].outcomes
  <2>1. PICK r : r = milestone[m]
    OBVIOUS
  <2>2. /\ Sound(r) /\ r \in MilestoneType /\ DOMAIN r.outcomes = 1..Len(r.outcomes)
        /\ Len(r.outcomes) \in Nat
    BY <1>2, <2>1, MilestoneShown DEF Inv
  <2>3. r.packet \in Nat /\ r.packet <= Len(r.outcomes) /\ r.packet # 0
    BY <1>3, <2>1, <2>2 DEF Sound, MilestoneType
  <2>4. r.packet \in 1..Len(r.outcomes)
    BY <2>2, <2>3
  <2> QED
    BY <2>1, <2>2, <2>3, <2>4
<1> DEFINE packets == {<<m, milestone[m].packet>> : m \in Evidence(p)}
           generation == IF NextNode(p) = Nothing THEN 0 ELSE milestone[NextNode(p)].generation + 1
<1>5. packets \in SUBSET (Milestones \X Nat)
  BY <1>2, <1>4
<1>6. generation \in Nat
  BY <1>1, MilestoneShown DEF Inv, MilestoneType
<1>7. program[p].revision \in Nat
  BY ProgramShown DEF ProgramType
<1>8. \A x \in packets : x[2] \in DOMAIN milestone[x[1]].outcomes
  BY <1>4
<1>9. PICK ps, g, n, v : ps = packets /\ g = generation /\ n = NextNode(p) /\ v = program[p].revision
  OBVIOUS
<1>10. Advance(p) = [program |-> p, revision |-> v, node |-> n, generation |-> g, packets |-> ps]
  BY <1>9 DEF Advance
<1> HIDE DEF packets, generation
<1>11. Advance(p) \in PlanType /\ Advance(p).packets = ps
  BY <1>1, <1>5, <1>6, <1>7, <1>9, <1>10 DEF PlanType
<1> QED
  BY <1>8, <1>9, <1>11

LEMMA PrepareAdvanceStep ==
  ASSUME Inv, NEW s \in Supervisors, PrepareAdvance(s)
  PROVE  Inv'
<1> DEFINE fit == {i \in DOMAIN Created : Preparable(Created[i])}
           p == First(Created, Preparable)
<1>1. /\ p # Nothing /\ plan' = [plan EXCEPT ![s] = Advance(p)]
      /\ UNCHANGED <<program, milestone, admissions, queue, issue, candidates, promoted, handover, receipts>>
  BY DEF PrepareAdvance, integration
<1>2. p \in Programs /\ Preparable(p)
  <2>1. p = IF fit = {} THEN Nothing ELSE Created[Lowest(fit)]
    BY Zenon DEF First
  <2>2. DOMAIN Created = 1..Len(Created) /\ Len(Created) \in Nat
    BY PortfolioAssumption, ElementsShown
  <2>3. fit # {} /\ fit \subseteq Nat
    BY <1>1, <2>1, <2>2
  <2>4. Lowest(fit) \in fit
    <3> HIDE DEF fit
    <3> QED
      BY <2>3, LowestShown
  <2>5. Created[Lowest(fit)] \in Programs
    BY <2>2, <2>4, PortfolioAssumption, ElementsShown
  <2> QED
    BY <2>1, <2>3, <2>4, <2>5
<1>3. PICK q \in Programs : q = p
  BY <1>2
<1>4. PICK k : k = Advance(q)
  OBVIOUS
<1>5. k \in PlanType /\ \A x \in k.packets : x[2] \in DOMAIN milestone[x[1]].outcomes
  BY <1>2, <1>3, <1>4, PreparableShown
<1>6. plan' = [plan EXCEPT ![s] = k]
  BY <1>1, <1>3, <1>4
<1>7. SendingOK'
  <2> HIDE DEF p
  <2> QED
    BY <1>1, <1>5, <1>6 DEF Inv, SendingOK
<1>8. OthersOK' /\ HandedOver'
  <2> HIDE DEF p
  <2> QED
    BY <1>1 DEF Inv, OthersOK, HandedOver, Past
<1> QED
  BY <1>1, <1>7, <1>8, PlanStep

LEMMA RejectAdvanceStep ==
  ASSUME Inv, NEW s \in Supervisors, RejectAdvance(s)
  PROVE  Inv'
<1>1. /\ plan' = [plan EXCEPT ![s] = Nothing] /\ receipts' = receipts \cup {plan[s]}
      /\ UNCHANGED <<program, milestone, admissions, queue, issue, candidates, promoted, handover>>
  BY DEF RejectAdvance, Answered, integration
<1>2. SendingOK' /\ OthersOK' /\ HandedOver'
  BY <1>1 DEF Inv, SendingOK, OthersOK, HandedOver, Past
<1> QED
  BY <1>1, <1>2, PlanStep

LEMMA PrepareHandoverStep ==
  ASSUME Inv, PrepareHandover
  PROVE  Inv'
<1> DEFINE fit == {i \in DOMAIN Created : Pending(Created[i])}
           p == First(Created, Pending)
<1>1. /\ p # Nothing /\ handover' = Candidate(p)
      /\ UNCHANGED <<program, milestone, admissions, queue, issue, candidates, promoted, plan, receipts>>
  BY DEF PrepareHandover, integration
<1>2. p \in Programs /\ Pending(p)
  <2>1. p = IF fit = {} THEN Nothing ELSE Created[Lowest(fit)]
    BY Zenon DEF First
  <2>2. DOMAIN Created = 1..Len(Created) /\ Len(Created) \in Nat
    BY PortfolioAssumption, ElementsShown
  <2>3. fit # {} /\ fit \subseteq Nat
    BY <1>1, <2>1, <2>2
  <2>4. Lowest(fit) \in fit
    <3> HIDE DEF fit
    <3> QED
      BY <2>3, LowestShown
  <2>5. Created[Lowest(fit)] \in Programs
    BY <2>2, <2>4, PortfolioAssumption, ElementsShown
  <2> QED
    BY <2>1, <2>3, <2>4, <2>5
<1>3. PICK q \in Programs : q = p
  BY <1>2
<1>4. handover'.program = q
  BY <1>1, <1>3 DEF Candidate
<1>5. V2(q) /\ Past(q)
  BY <1>2, <1>3 DEF Pending, Past
<1> HIDE DEF p
<1>6. SendingOK' /\ OthersOK' /\ HandedOver'
  BY <1>1, <1>4, <1>5 DEF Inv, SendingOK, OthersOK, HandedOver, Past
<1> QED
  BY <1>1, <1>6, PlanStep

\* A step of something else.
LEMMA StutterStep ==
  ASSUME Inv, UNCHANGED vars
  PROVE  Inv'
<1>1. /\ UNCHANGED <<program, milestone, admissions, queue, issue, candidates, promoted>>
      /\ UNCHANGED <<plan, handover, receipts>>
  BY DEF vars
<1>2. SendingOK' /\ OthersOK' /\ HandedOver'
  BY <1>1 DEF Inv, SendingOK, OthersOK, HandedOver, Past
<1> QED
  BY <1>1, <1>2, PlanStep

-----------------------------------------------------------------------------
(* Leases, and admissions that are given up by hand.                       *)

LEMMA AdmissionShown ==
  ASSUME Inv, NEW a \in admissions
  PROVE  /\ a.program \in Programs /\ V2(a.program) /\ a.milestone \in MilestonesOf[a.program]
         /\ a.milestone \in Milestones /\ ProgramOf[a.milestone] = a.program /\ Open(a.milestone)
         /\ a \in AdmissionType
BY ProgramOfShown DEF Inv, AdmissionsOK, AdmissionType

LEMMA ReletStep ==
  ASSUME Inv, NEW a \in admissions, NEW lease \in {"live", "due", "expired"}, Relet(a, lease)
  PROVE  Inv'
<1> DEFINE new == [a EXCEPT !.lease = lease]
<1>1. /\ admissions' = (admissions \ {a}) \cup {new}
      /\ UNCHANGED <<program, milestone, queue, issue, candidates, promoted, plan, handover, receipts>>
  BY DEF Relet, integration, sending
<1>2. /\ new \in AdmissionType /\ new.program = a.program /\ new.milestone = a.milestone
      /\ new.slot = a.slot /\ new.skillSlot = a.skillSlot /\ new.target = a.target
  BY AdmissionShown DEF AdmissionType
<1> HIDE DEF new
<1>3. \A b \in admissions' : \E c \in admissions :
        /\ b.program = c.program /\ b.milestone = c.milestone /\ b.slot = c.slot
        /\ b.skillSlot = c.skillSlot /\ b.target = c.target /\ b \in AdmissionType
        /\ b = IF c = a THEN new ELSE c
  BY <1>1, <1>2, AdmissionShown
<1>4. \A c \in admissions : \E b \in admissions' : b.program = c.program /\ b.milestone = c.milestone
  BY <1>1, <1>2
<1>5. MilestonesOK' /\ SameRuns
  BY <1>1, MilestonesKept DEF Inv
<1>6. AdmissionsOK'
  <2>1. ASSUME NEW b \in admissions'
        PROVE  b \in AdmissionType /\ V2(b.program) /\ b.milestone \in MilestonesOf[b.program] /\ Open(b.milestone)'
    BY <1>3, <1>5, AdmissionShown DEF SameRuns
  <2>2. ASSUME NEW b \in admissions', NEW d \in admissions', b.milestone = d.milestone
        PROVE  b = d
    BY <1>3, <2>2 DEF Inv, AdmissionsOK
  <2> QED
    BY <2>1, <2>2 DEF AdmissionsOK
<1>7. ClaimsAreExclusive'
  <2> SUFFICES ASSUME NEW b \in admissions', NEW d \in admissions', b # d
               PROVE  /\ b.slot # d.slot
                      /\ b.program = d.program => b.program \in Fenceable
                      /\ Resources[b.milestone] \cap Resources[d.milestone] = {}
                      /\ b.target = d.target => MayChange(b.milestone) \cap MayChange(d.milestone) = {}
                      /\ Skill[b.milestone] = Skill[d.milestone] => b.skillSlot # d.skillSlot
    BY DEF ClaimsAreExclusive
  <2>1. PICK c \in admissions :
          /\ b.program = c.program /\ b.milestone = c.milestone /\ b.slot = c.slot
          /\ b.skillSlot = c.skillSlot /\ b.target = c.target /\ b = IF c = a THEN new ELSE c
    BY <1>3
  <2>2. PICK e \in admissions :
          /\ d.program = e.program /\ d.milestone = e.milestone /\ d.slot = e.slot
          /\ d.skillSlot = e.skillSlot /\ d.target = e.target /\ d = IF e = a THEN new ELSE e
    BY <1>3
  <2>3. c # e
    BY <2>1, <2>2
  <2>4. /\ c.slot # e.slot
        /\ c.program = e.program => c.program \in Fenceable
        /\ Resources[c.milestone] \cap Resources[e.milestone] = {}
        /\ c.target = e.target => MayChange(c.milestone) \cap MayChange(e.milestone) = {}
        /\ Skill[c.milestone] = Skill[e.milestone] => c.skillSlot # e.skillSlot
    BY <2>3 DEF Inv, ClaimsAreExclusive
  <2> QED
    BY <2>1, <2>2, <2>4
<1>8. PhasesOK'
  BY <1>1, <1>4 DEF Inv, PhasesOK
<1>9. WorkIsAdmitted'
  <2> SUFFICES ASSUME NEW p \in Programs, V2(p), p \notin Fenceable
               PROVE  /\ \A m \in MilestonesOf[p] : Open(m)' => \E b \in admissions' : b.milestone = m
                      /\ \A b, d \in admissions' : b.program = p /\ d.program = p => b = d
                      /\ program'[p].phase \in {"approved", "eligible", "parked"} => ~ Busy(p)'
                      /\ OneGraph(p) /\ program'[p].phase \in {"integration_pending", "completed"} => ~ Busy(p)'
    BY DEF WorkIsAdmitted
  <2>1. /\ \A m \in MilestonesOf[p] : Open(m) => \E b \in admissions : b.milestone = m
        /\ \A b, d \in admissions : b.program = p /\ d.program = p => b = d
        /\ program[p].phase \in {"approved", "eligible", "parked"} => ~ Busy(p)
        /\ OneGraph(p) /\ program[p].phase \in {"integration_pending", "completed"} => ~ Busy(p)
    BY DEF Inv, WorkIsAdmitted
  <2>2. Busy(p)' <=> Busy(p)
    BY <1>1 DEF Busy, Open
  <2>3. \A m \in MilestonesOf[p] : Open(m)' => \E b \in admissions' : b.milestone = m
    BY <2>1, <1>4, <1>5, ProgramOfShown DEF SameRuns
  <2>4. \A b, d \in admissions' : b.program = p /\ d.program = p => b = d
    BY <2>1, <1>3
  <2> QED
    BY <1>1, <2>1, <2>2, <2>3, <2>4
<1>10. ProgramsOK' /\ SendingOK' /\ OthersOK' /\ LegacyIsSerial' /\ HandedOver'
  BY <1>1 DEF Inv, ProgramsOK, SendingOK, OthersOK, LegacyIsSerial, HandedOver, Past, Busy, Open
<1>11. RunsOnEvidence' /\ IssuesHoldMilestones'
  BY <1>1 DEF Inv, RunsOnEvidence, IssuesHoldMilestones, Unresolved
<1> QED
  BY <1>5, <1>6, <1>7, <1>8, <1>9, <1>10, <1>11 DEF Inv

LEMMA GiveUpAdmissionStep ==
  ASSUME Inv, NEW a \in admissions, GiveUpAdmission(a)
  PROVE  Inv'
<1>1. PICK p \in Programs : p = a.program /\ V2(p)
  BY AdmissionShown
<1>2. PICK phase \in Phases : phase = IF program[p].phase = "running" THEN "eligible" ELSE program[p].phase
  BY ProgramShown DEF ProgramType, Phases
<1>3. /\ p \in Fenceable /\ admissions' = admissions \ {a}
      /\ program' = [program EXCEPT ![p].phase = phase]
      /\ UNCHANGED <<milestone, queue, issue, candidates, promoted, plan, handover, receipts>>
  BY <1>1, <1>2 DEF GiveUpAdmission, Released, integration, sending
<1>4. PICK r : r = [program[p] EXCEPT !.phase = phase]
  OBVIOUS
<1>5. /\ r \in ProgramType /\ r.revision = program[p].revision /\ r.needs = program[p].needs
      /\ r.phase = phase /\ r.resume = program[p].resume
  BY <1>4, ProgramShown DEF ProgramType
<1>6. program' = [program EXCEPT ![p] = r]
  BY <1>3, <1>4, ProgramShown
<1>7. ProgramsOK' /\ SameGraphs /\ SamePrograms(Programs \ {p}) /\ program'[p] = r
  BY <1>5, <1>6, ProgramReplaced
<1>8. MilestonesOK' /\ MilestonesGrow /\ SameRuns
  BY <1>3, MilestonesKept DEF Inv
<1>9. AdmissionsOK' /\ ClaimsAreExclusive'
  <2>1. \A b \in admissions' : b \in admissions /\ Open(b.milestone)'
    BY <1>3, <1>8, AdmissionShown DEF SameRuns
  <2> QED
    BY <2>1 DEF Inv, AdmissionsOK, ClaimsAreExclusive
<1>10. \A q \in Programs : q # p => program'[q] = program[q] /\ (Busy(q)' <=> Busy(q))
  BY <1>7, <1>8, ProgramOfShown DEF SamePrograms, SameRuns, Busy
<1>11. PhasesOK'
  <2>1. phase # "running" /\ (phase = "parked" => program[p].phase = "parked")
    BY <1>2
  <2>2. ASSUME NEW q \in Programs, V2(q), q # p, program'[q].phase = "running"
        PROVE  \E b \in admissions' : b.program = q
    BY <2>2, <1>1, <1>3, <1>10 DEF Inv, PhasesOK
  <2> QED
    BY <2>1, <2>2, <1>5, <1>7, <1>10 DEF Inv, PhasesOK
<1>12. WorkIsAdmitted'
  <2> SUFFICES ASSUME NEW q \in Programs, V2(q), q \notin Fenceable
               PROVE  /\ \A m \in MilestonesOf[q] : Open(m)' => \E b \in admissions' : b.milestone = m
                      /\ \A b, d \in admissions' : b.program = q /\ d.program = q => b = d
                      /\ program'[q].phase \in {"approved", "eligible", "parked"} => ~ Busy(q)'
                      /\ OneGraph(q) /\ program'[q].phase \in {"integration_pending", "completed"} => ~ Busy(q)'
    BY DEF WorkIsAdmitted
  <2>1. /\ \A m \in MilestonesOf[q] : Open(m) => \E b \in admissions : b.milestone = m
        /\ \A b, d \in admissions : b.program = q /\ d.program = q => b = d
        /\ program[q].phase \in {"approved", "eligible", "parked"} => ~ Busy(q)
        /\ OneGraph(q) /\ program[q].phase \in {"integration_pending", "completed"} => ~ Busy(q)
    BY DEF Inv, WorkIsAdmitted
  <2>2. q # p
    BY <1>3
  <2>3. \A m \in MilestonesOf[q] : Open(m)' => \E b \in admissions' : b.milestone = m
    <3> SUFFICES ASSUME NEW m \in MilestonesOf[q], Open(m)'
                 PROVE  \E b \in admissions' : b.milestone = m
      OBVIOUS
    <3>1. PICK b \in admissions : b.milestone = m
      BY <1>8, <2>1, ProgramOfShown DEF SameRuns
    <3>2. b # a
      BY <1>1, <2>2, <3>1, AdmissionShown, ProgramOfShown
    <3> QED
      BY <1>3, <3>1, <3>2
  <2> QED
    BY <1>3, <1>10, <2>1, <2>2, <2>3
<1>13. LegacyIsSerial'
  <2>1. \A q \in Legacy : q \in Programs /\ q # p
    BY <1>1, PortfolioAssumption DEF V2
  <2> QED
    BY <2>1, <1>8, <1>10, ProgramOfShown DEF Inv, LegacyIsSerial, SameRuns
<1>14. HandedOver'
  <2>1. Past(p) => Past(p)'
    BY <1>2, <1>5, <1>7 DEF Past
  <2> QED
    BY <1>3, <1>7, <2>1, HandoverKept
<1>15. SendingOK' /\ OthersOK'
  BY <1>3, <1>8, SendingKept DEF Inv, OthersOK
<1>16. RunsOnEvidence'
  BY <1>3, <1>7, <1>8, EvidenceKept DEF SameGraphs
<1>17. IssuesHoldMilestones'
  BY <1>3, <1>8, IssuesKept
<1> QED
  BY <1>7, <1>8, <1>9, <1>11, <1>12, <1>13, <1>14, <1>15, <1>16, <1>17 DEF Inv

-----------------------------------------------------------------------------
(* Runs that end, with their admissions.                                   *)

\* Some runs E of one program end; it is released, or parked.
LEMMA EndingKeeps ==
  ASSUME Inv, NEW p \in Programs, NEW E \in SUBSET MilestonesOf[p],
         \A m \in Milestones : Open(m)' <=> Open(m) /\ m \notin E,
         admissions' = {a \in admissions : a.milestone \notin E},
         SamePrograms(Programs \ {p}),
         \/ /\ program'[p].phase = Released(p, {a \in admissions : a.milestone \in E})
            /\ program'[p].resume = program[p].resume
         \/ /\ program'[p].phase = "parked"
            /\ V2(p) => program'[p].resume \in {"eligible", "integration_pending"}
            /\ p \notin Fenceable \/ ~ V2(p) => ~ Busy(p)'
  PROVE  /\ AdmissionsOK' /\ ClaimsAreExclusive' /\ PhasesOK' /\ WorkIsAdmitted' /\ LegacyIsSerial'
<1> DEFINE R == {a \in admissions : a.milestone \in E}
<1>1. \A a \in admissions' : a \in admissions /\ a.milestone \notin E /\ Open(a.milestone)'
  BY AdmissionShown
<1>2. AdmissionsOK' /\ ClaimsAreExclusive'
  BY <1>1 DEF Inv, AdmissionsOK, ClaimsAreExclusive
<1>3. \A a \in R : a.program = p /\ V2(p)
  BY AdmissionShown, ProgramOfShown
<1>4. \A q \in Programs : q # p => program'[q] = program[q] /\ (Busy(q)' <=> Busy(q))
  BY ProgramOfShown DEF SamePrograms, Busy
<1>5. Busy(p)' => Busy(p)
  BY ProgramOfShown DEF Busy
<1>6. \A a \in admissions : a.program # p => a \in admissions'
  BY <1>3
<1>7. CASE /\ program'[p].phase = Released(p, R)
           /\ program'[p].resume = program[p].resume
  <2>1. program'[p].phase # program[p].phase =>
          program[p].phase = "running" /\ program'[p].phase = "eligible" /\ R # {}
    BY <1>7 DEF Released
  <2>2. program'[p].phase = "running" => R = {} /\ program[p].phase = "running"
    BY <1>7 DEF Released
  <2>3. R = {} => admissions' = admissions
    OBVIOUS
  <2>4. PhasesOK'
    <3>1. ASSUME NEW q \in Programs, V2(q), q # p, program'[q].phase = "running"
          PROVE  \E a \in admissions' : a.program = q
      BY <3>1, <1>4, <1>6 DEF Inv, PhasesOK
    <3>2. ASSUME V2(p), program'[p].phase = "running"
          PROVE  \E a \in admissions' : a.program = p
      BY <3>2, <2>2, <2>3 DEF Inv, PhasesOK
    <3>3. program'[p].phase = "parked" => program[p].phase = "parked"
      BY <2>1
    <3> QED
      BY <1>4, <1>7, <3>1, <3>2, <3>3 DEF Inv, PhasesOK
  <2>5. WorkIsAdmitted'
    <3> SUFFICES ASSUME NEW q \in Programs, V2(q), q \notin Fenceable
                 PROVE  /\ \A m \in MilestonesOf[q] : Open(m)' => \E b \in admissions' : b.milestone = m
                        /\ \A b, d \in admissions' : b.program = q /\ d.program = q => b = d
                        /\ program'[q].phase \in {"approved", "eligible", "parked"} => ~ Busy(q)'
                        /\ OneGraph(q) /\ program'[q].phase \in {"integration_pending", "completed"} => ~ Busy(q)'
      BY DEF WorkIsAdmitted
    <3>1. /\ \A m \in MilestonesOf[q] : Open(m) => \E b \in admissions : b.milestone = m
          /\ \A b, d \in admissions : b.program = q /\ d.program = q => b = d
          /\ program[q].phase \in {"approved", "eligible", "parked"} => ~ Busy(q)
          /\ OneGraph(q) /\ program[q].phase \in {"integration_pending", "completed"} => ~ Busy(q)
      BY DEF Inv, WorkIsAdmitted
    <3>2. \A m \in MilestonesOf[q] : Open(m)' => \E b \in admissions' : b.milestone = m
      BY <3>1, ProgramOfShown
    <3>3. \A b, d \in admissions' : b.program = q /\ d.program = q => b = d
      BY <1>1, <3>1
    <3>4. CASE q # p \/ program'[q].phase = program[q].phase
      BY <1>4, <1>5, <3>1, <3>2, <3>3, <3>4
    <3>5. CASE q = p /\ program'[p].phase # program[p].phase
      <4>1. PICK a \in R : TRUE
        BY <2>1, <3>5
      <4>2. ~ Busy(p)'
        <5> SUFFICES ASSUME NEW m \in MilestonesOf[p], Open(m)'
                     PROVE  FALSE
          BY DEF Busy
        <5>1. PICK b \in admissions' : b.milestone = m
          BY <3>2, <3>5
        <5>2. b \in admissions /\ b.program = p /\ b.milestone \notin E
          BY <5>1, <1>1, AdmissionShown, ProgramOfShown
        <5>3. a \in admissions /\ a.program = p /\ a.milestone \in E
          BY <1>3, <4>1
        <5> QED
          BY <3>1, <3>5, <5>2, <5>3
      <4> QED
        BY <3>2, <3>3, <3>5, <4>2
    <3> QED
      BY <3>4, <3>5
  <2>6. LegacyIsSerial'
    <3> SUFFICES ASSUME NEW q \in Legacy
                 PROVE  /\ program'[q].phase \in {"approved", "running", "parked", "completed"}
                        /\ Busy(q)' => program'[q].phase = "running"
                        /\ \A m, n \in MilestonesOf[q] : Open(m)' /\ Open(n)' => m = n
      BY DEF LegacyIsSerial
    <3>1. /\ program[q].phase \in {"approved", "running", "parked", "completed"}
          /\ Busy(q) => program[q].phase = "running"
          /\ \A m, n \in MilestonesOf[q] : Open(m) /\ Open(n) => m = n
      BY DEF Inv, LegacyIsSerial
    <3>2. q \in Programs /\ ~ V2(q)
      BY PortfolioAssumption DEF V2
    <3>3. program'[q].phase = program[q].phase
      BY <1>3, <1>4, <2>1, <3>2
    <3>4. \A m, n \in MilestonesOf[q] : Open(m)' /\ Open(n)' => m = n
      BY <3>1, <3>2, ProgramOfShown
    <3> QED
      BY <1>4, <1>5, <3>1, <3>2, <3>3, <3>4
  <2> QED
    BY <1>2, <2>4, <2>5, <2>6
<1>8. CASE /\ program'[p].phase = "parked"
           /\ V2(p) => program'[p].resume \in {"eligible", "integration_pending"}
           /\ p \notin Fenceable \/ ~ V2(p) => ~ Busy(p)'
  <2>1. PhasesOK'
    <3>1. ASSUME NEW q \in Programs, V2(q), q # p, program'[q].phase = "running"
          PROVE  \E a \in admissions' : a.program = q
      BY <3>1, <1>4, <1>6 DEF Inv, PhasesOK
    <3> QED
      BY <1>4, <1>8, <3>1 DEF Inv, PhasesOK
  <2>2. WorkIsAdmitted'
    <3> SUFFICES ASSUME NEW q \in Programs, V2(q), q \notin Fenceable
                 PROVE  /\ \A m \in MilestonesOf[q] : Open(m)' => \E b \in admissions' : b.milestone = m
                        /\ \A b, d \in admissions' : b.program = q /\ d.program = q => b = d
                        /\ program'[q].phase \in {"approved", "eligible", "parked"} => ~ Busy(q)'
                        /\ OneGraph(q) /\ program'[q].phase \in {"integration_pending", "completed"} => ~ Busy(q)'
      BY DEF WorkIsAdmitted
    <3>1. /\ \A m \in MilestonesOf[q] : Open(m) => \E b \in admissions : b.milestone = m
          /\ \A b, d \in admissions : b.program = q /\ d.program = q => b = d
          /\ program[q].phase \in {"approved", "eligible", "parked"} => ~ Busy(q)
          /\ OneGraph(q) /\ program[q].phase \in {"integration_pending", "completed"} => ~ Busy(q)
      BY DEF Inv, WorkIsAdmitted
    <3>2. \A m \in MilestonesOf[q] : Open(m)' => \E b \in admissions' : b.milestone = m
      BY <3>1, ProgramOfShown
    <3>3. \A b, d \in admissions' : b.program = q /\ d.program = q => b = d
      BY <1>1, <3>1
    <3> QED
      BY <1>4, <1>8, <3>1, <3>2, <3>3
  <2>3. LegacyIsSerial'
    <3> SUFFICES ASSUME NEW q \in Legacy
                 PROVE  /\ program'[q].phase \in {"approved", "running", "parked", "completed"}
                        /\ Busy(q)' => program'[q].phase = "running"
                        /\ \A m, n \in MilestonesOf[q] : Open(m)' /\ Open(n)' => m = n
      BY DEF LegacyIsSerial
    <3>1. /\ program[q].phase \in {"approved", "running", "parked", "completed"}
          /\ Busy(q) => program[q].phase = "running"
          /\ \A m, n \in MilestonesOf[q] : Open(m) /\ Open(n) => m = n
      BY DEF Inv, LegacyIsSerial
    <3>2. q \in Programs /\ ~ V2(q)
      BY PortfolioAssumption DEF V2
    <3>3. \A m, n \in MilestonesOf[q] : Open(m)' /\ Open(n)' => m = n
      BY <3>1, <3>2, ProgramOfShown
    <3> QED
      BY <1>4, <1>8, <3>1, <3>2, <3>3
  <2> QED
    BY <1>2, <2>1, <2>2, <2>3
<1> QED
  BY <1>7, <1>8

\* The milestone of one run that ends.
LEMMA FinishedMilestone ==
  ASSUME Inv, NEW m \in Milestones, Open(m), NEW result \in Results,
         milestone' = [milestone EXCEPT ![m] = Finished(@, result)]
  PROVE  /\ MilestonesOK' /\ MilestonesGrow
         /\ \A n \in Milestones : Open(n)' <=> Open(n) /\ n \notin {m}
         /\ \A n \in Milestones : milestone'[n].outcomes # <<>> => milestone[n].outcomes # <<>>
         /\ \A n \in Milestones : milestone[n].status = "paused" => milestone'[n].status = "paused"
<1>1. /\ DOMAIN milestone = Milestones
      /\ milestone'[m] = Finished(milestone[m], result)
      /\ \A n \in Milestones : n # m => milestone'[n] = milestone[n]
  BY DEF Inv, MilestonesOK
<1>2. /\ Sound(Finished(milestone[m], result)) /\ ~ Running(Finished(milestone[m], result))
      /\ Grows(milestone[m], Finished(milestone[m], result)) /\ milestone[m].outcomes # <<>>
      /\ milestone[m].status # "paused"
  <2>1. PICK r : r = milestone[m]
    OBVIOUS
  <2>2. Sound(r) /\ Running(r) /\ r.status = "running"
    BY <2>1, MilestoneShown DEF Inv
  <2> QED
    BY <2>1, <2>2, FinishedSound
<1>3. \A n \in Milestones : Sound(milestone'[n]) /\ Grows(milestone[n], milestone'[n])
  <2> SUFFICES ASSUME NEW n \in Milestones
               PROVE  Sound(milestone'[n]) /\ Grows(milestone[n], milestone'[n])
    OBVIOUS
  <2>1. CASE n = m
    BY <1>1, <1>2, <2>1
  <2>2. CASE n # m
    <3>1. PICK r : r = milestone[n]
      OBVIOUS
    <3>2. Sound(r) /\ Grows(r, r)
      BY <3>1, MilestoneShown, SoundShown DEF Inv
    <3> QED
      BY <1>1, <2>2, <3>1, <3>2
  <2> QED
    BY <2>1, <2>2
<1>4. DOMAIN milestone' = Milestones /\ milestone' = [n \in Milestones |-> milestone'[n]]
  BY <1>1
<1>5. /\ MilestonesOK' /\ MilestonesGrow
      /\ \A n \in Milestones : Open(n)' <=> Running(milestone'[n])
  BY <1>3, <1>4, MilestonesReplaced DEF Inv
<1>6. \A n \in Milestones : Open(n)' <=> Open(n) /\ n \notin {m}
  BY <1>1, <1>2, <1>5, MilestoneShown DEF Inv
<1> QED
  BY <1>1, <1>2, <1>5, <1>6

LEMMA RunEndsStep ==
  ASSUME Inv, NEW m \in Milestones, NEW result \in Results, RunEnds(m, result)
  PROVE  Inv'
<1> DEFINE R == {a \in admissions : a.milestone \in {m}}
<1>1. PICK p \in Programs : p = ProgramOf[m] /\ m \in MilestonesOf[p]
  BY ProgramOfShown
<1>2. AdmissionsOf(m) = R
  BY DEF AdmissionsOf
<1>3. PICK phase \in Phases : phase = Released(p, R)
  BY ProgramShown DEF ProgramType, Phases, Released
<1>4. /\ Open(m) /\ milestone' = [milestone EXCEPT ![m] = Finished(@, result)]
      /\ admissions' = admissions \ R
      /\ program' = [program EXCEPT ![p].latest = result, ![p].phase = phase]
      /\ UNCHANGED <<queue, issue, candidates, promoted, plan, handover, receipts>>
  <2> HIDE DEF R
  <2> QED
    BY <1>1, <1>2, <1>3, Zenon DEF RunEnds, integration, sending
<1>5. PICK r : r = [program[p] EXCEPT !.latest = result, !.phase = phase]
  OBVIOUS
<1>6. /\ r \in ProgramType /\ r.revision = program[p].revision /\ r.needs = program[p].needs
      /\ r.phase = phase /\ r.resume = program[p].resume
  BY <1>5, ProgramShown DEF ProgramType
<1>7. program' = [program EXCEPT ![p] = r]
  BY <1>4, <1>5, ProgramShown
<1>8. ProgramsOK' /\ SameGraphs /\ SamePrograms(Programs \ {p}) /\ program'[p] = r
  BY <1>6, <1>7, ProgramReplaced
<1>9. /\ MilestonesOK' /\ MilestonesGrow
      /\ \A n \in Milestones : Open(n)' <=> Open(n) /\ n \notin {m}
      /\ \A n \in Milestones : milestone'[n].outcomes # <<>> => milestone[n].outcomes # <<>>
      /\ \A n \in Milestones : milestone[n].status = "paused" => milestone'[n].status = "paused"
  BY <1>4, FinishedMilestone
<1>10. /\ AdmissionsOK' /\ ClaimsAreExclusive' /\ PhasesOK' /\ WorkIsAdmitted' /\ LegacyIsSerial'
  <2>1. admissions' = {a \in admissions : a.milestone \notin {m}}
    BY <1>4
  <2>2. {m} \in SUBSET MilestonesOf[p]
    BY <1>1
  <2>3. /\ program'[p].phase = Released(p, {a \in admissions : a.milestone \in {m}})
        /\ program'[p].resume = program[p].resume
    BY <1>3, <1>6, <1>8
  <2> HIDE DEF R
  <2> QED
    BY <1>8, <1>9, <2>1, <2>2, <2>3, EndingKeeps
<1>11. HandedOver'
  <2>1. Past(p) => Past(p)'
    BY <1>3, <1>6, <1>8 DEF Past, Released
  <2> QED
    BY <1>4, <1>8, <2>1, HandoverKept
<1>12. SendingOK' /\ OthersOK'
  BY <1>4, <1>9, SendingKept DEF Inv, OthersOK
<1>13. RunsOnEvidence'
  BY <1>4, <1>8, <1>9, EvidenceKept DEF SameGraphs
<1>14. IssuesHoldMilestones'
  BY <1>4, <1>9, IssuesKept
<1> QED
  BY <1>8, <1>9, <1>10, <1>11, <1>12, <1>13, <1>14 DEF Inv

LEMMA ParkStep ==
  ASSUME Inv, NEW p \in Programs, Park(p)
  PROVE  Inv'
<1> DEFINE phase == program[p].phase
           resume == IF ~ V2(p) THEN Nothing ELSE IF phase = "running" THEN "eligible" ELSE phase
           parked == [program[p] EXCEPT !.phase = "parked", !.resume = resume]
<1>1. /\ phase = "running" \/ (V2(p) /\ phase \in {"eligible", "integration_pending"})
      /\ \/ ~ Busy(p) /\ program' = [program EXCEPT ![p] = parked] /\ UNCHANGED <<milestone, admissions>>
         \/ \E m \in MilestonesOf[p] :
              /\ Open(m)
              /\ program' = [program EXCEPT ![p] = [parked EXCEPT !.latest = "other"]]
              /\ milestone' = [milestone EXCEPT ![m] = Finished(@, "other")]
              /\ admissions' = admissions \ AdmissionsOf(m)
      /\ UNCHANGED <<queue, issue, candidates, promoted, plan, handover, receipts>>
  BY Zenon DEF Park, integration, sending
<1>2. /\ V2(p) => resume \in {"eligible", "integration_pending"}
      /\ resume \in Phases \cup {Nothing}
      /\ V2(p) /\ phase = "integration_pending" => resume = "integration_pending"
      /\ phase \notin {"completed", "parked"}
  BY <1>1 DEF Phases
<1>3. PICK next \in Phases \cup {Nothing} : next = resume
  BY <1>2
<1>4. PICK old \in ProgramType : old = program[p]
  BY ProgramShown
<1>5. PICK idle : idle = [old EXCEPT !.phase = "parked", !.resume = next]
  OBVIOUS
<1>6. PICK stopped : stopped = [idle EXCEPT !.latest = "other"]
  OBVIOUS
<1>7. \A r \in {idle, stopped} :
        /\ r \in ProgramType /\ r.revision = program[p].revision /\ r.needs = program[p].needs
        /\ r.phase = "parked" /\ r.resume = next
  <2>1. idle \in ProgramType /\ idle.revision = old.revision /\ idle.needs = old.needs
        /\ idle.phase = "parked" /\ idle.resume = next
    BY <1>5 DEF ProgramType, Phases
  <2>2. stopped \in ProgramType /\ stopped.revision = old.revision /\ stopped.needs = old.needs
        /\ stopped.phase = "parked" /\ stopped.resume = next
    BY <1>6, <2>1 DEF ProgramType, Results
  <2> QED
    BY <2>1, <2>2, <1>4
<1>8. parked = idle
  BY <1>3, <1>4, <1>5
<1>9. PICK E \in SUBSET MilestonesOf[p], r \in {idle, stopped} :
        /\ program' = [program EXCEPT ![p] = r]
        /\ admissions' = {a \in admissions : a.milestone \notin E}
        /\ p \notin Fenceable \/ ~ V2(p) => \A m \in MilestonesOf[p] : Open(m) => m \in E
        /\ MilestonesOK' /\ MilestonesGrow
        /\ \A n \in Milestones : Open(n)' <=> Open(n) /\ n \notin E
        /\ \A n \in Milestones : milestone'[n].outcomes # <<>> => milestone[n].outcomes # <<>>
        /\ \A n \in Milestones : milestone[n].status = "paused" => milestone'[n].status = "paused"
  <2>1. CASE /\ ~ Busy(p) /\ program' = [program EXCEPT ![p] = parked]
             /\ UNCHANGED <<milestone, admissions>>
    <3>1. MilestonesOK' /\ MilestonesGrow /\ SameRuns
      BY <2>1, MilestonesKept DEF Inv
    <3>2. /\ program' = [program EXCEPT ![p] = idle]
          /\ admissions' = {a \in admissions : a.milestone \notin {}}
          /\ \A m \in MilestonesOf[p] : ~ Open(m)
          /\ \A n \in Milestones : Open(n)' <=> Open(n) /\ n \notin {}
          /\ \A n \in Milestones : milestone'[n].outcomes # <<>> => milestone[n].outcomes # <<>>
          /\ \A n \in Milestones : milestone[n].status = "paused" => milestone'[n].status = "paused"
      <4> HIDE DEF parked
      <4> QED
        BY <2>1, <1>8, <3>1 DEF Busy, SameRuns
    <3>3. {} \in SUBSET MilestonesOf[p] /\ idle \in {idle, stopped}
      OBVIOUS
    <3> QED
      BY <3>1, <3>2, <3>3
  <2>2. ASSUME NEW m \in MilestonesOf[p], Open(m),
               program' = [program EXCEPT ![p] = [parked EXCEPT !.latest = "other"]],
               milestone' = [milestone EXCEPT ![m] = Finished(@, "other")],
               admissions' = admissions \ AdmissionsOf(m)
        PROVE  /\ program' = [program EXCEPT ![p] = stopped]
               /\ admissions' = {a \in admissions : a.milestone \notin {m}}
               /\ p \notin Fenceable \/ ~ V2(p) => \A n \in MilestonesOf[p] : Open(n) => n \in {m}
               /\ MilestonesOK' /\ MilestonesGrow
               /\ \A n \in Milestones : Open(n)' <=> Open(n) /\ n \notin {m}
               /\ \A n \in Milestones : milestone'[n].outcomes # <<>> => milestone[n].outcomes # <<>>
               /\ \A n \in Milestones : milestone[n].status = "paused" => milestone'[n].status = "paused"
    <3>1. m \in Milestones /\ "other" \in Results
      BY ProgramOfShown DEF Results
    <3>2. /\ MilestonesOK' /\ MilestonesGrow
          /\ \A n \in Milestones : Open(n)' <=> Open(n) /\ n \notin {m}
          /\ \A n \in Milestones : milestone'[n].outcomes # <<>> => milestone[n].outcomes # <<>>
          /\ \A n \in Milestones : milestone[n].status = "paused" => milestone'[n].status = "paused"
      BY <2>2, <3>1, FinishedMilestone
    <3>3. admissions' = {a \in admissions : a.milestone \notin {m}}
      BY <2>2 DEF AdmissionsOf
    <3>4. ASSUME p \notin Fenceable \/ ~ V2(p), NEW n \in MilestonesOf[p], Open(n)
          PROVE  n = m
      <4>1. CASE ~ V2(p)
        BY <2>2, <3>4, <4>1 DEF Inv, LegacyIsSerial, V2
      <4>2. CASE V2(p)
        <5>1. PICK a \in admissions, b \in admissions : a.milestone = m /\ b.milestone = n
          BY <2>2, <3>4, <4>2 DEF Inv, WorkIsAdmitted
        <5>2. a.program = p /\ b.program = p
          BY <5>1, AdmissionShown, ProgramOfShown
        <5>3. a = b
          BY <3>4, <4>2, <5>2 DEF Inv, WorkIsAdmitted
        <5> QED
          BY <5>1, <5>3
      <4> QED
        BY <4>1, <4>2
    <3>5. program' = [program EXCEPT ![p] = stopped]
      <4> HIDE DEF parked
      <4> QED
        BY <2>2, <1>6, <1>8
    <3> QED
      BY <3>2, <3>3, <3>4, <3>5
  <2>3. CASE \E m \in MilestonesOf[p] :
               /\ Open(m)
               /\ program' = [program EXCEPT ![p] = [parked EXCEPT !.latest = "other"]]
               /\ milestone' = [milestone EXCEPT ![m] = Finished(@, "other")]
               /\ admissions' = admissions \ AdmissionsOf(m)
    <3>1. PICK m \in MilestonesOf[p] :
               /\ Open(m)
               /\ program' = [program EXCEPT ![p] = [parked EXCEPT !.latest = "other"]]
               /\ milestone' = [milestone EXCEPT ![m] = Finished(@, "other")]
               /\ admissions' = admissions \ AdmissionsOf(m)
      BY <2>3
    <3>2. /\ program' = [program EXCEPT ![p] = stopped]
          /\ admissions' = {a \in admissions : a.milestone \notin {m}}
          /\ p \notin Fenceable \/ ~ V2(p) => \A n \in MilestonesOf[p] : Open(n) => n \in {m}
          /\ MilestonesOK' /\ MilestonesGrow
          /\ \A n \in Milestones : Open(n)' <=> Open(n) /\ n \notin {m}
          /\ \A n \in Milestones : milestone'[n].outcomes # <<>> => milestone[n].outcomes # <<>>
          /\ \A n \in Milestones : milestone[n].status = "paused" => milestone'[n].status = "paused"
      <4> HIDE DEF parked
      <4> QED
        BY <2>2, <3>1
    <3>3. {m} \in SUBSET MilestonesOf[p] /\ stopped \in {idle, stopped}
      OBVIOUS
    <3> QED
      BY <3>2, <3>3
  <2> HIDE DEF parked
  <2> QED
    BY <1>1, <2>1, <2>3
<1>10. r \in ProgramType /\ r.revision = program[p].revision /\ r.needs = program[p].needs
       /\ r.phase = "parked" /\ r.resume = next
  BY <1>7
<1>11. ProgramsOK' /\ SameGraphs /\ SamePrograms(Programs \ {p}) /\ program'[p] = r
  BY <1>9, <1>10, ProgramReplaced
<1>12. /\ AdmissionsOK' /\ ClaimsAreExclusive' /\ PhasesOK' /\ WorkIsAdmitted' /\ LegacyIsSerial'
  <2>1. /\ program'[p].phase = "parked"
        /\ V2(p) => program'[p].resume \in {"eligible", "integration_pending"}
    BY <1>2, <1>3, <1>10, <1>11
  <2>2. p \notin Fenceable \/ ~ V2(p) => ~ Busy(p)'
    BY <1>9, ProgramOfShown DEF Busy
  <2> QED
    BY <1>9, <1>11, <2>1, <2>2, EndingKeeps
<1>13. HandedOver'
  <2>1. V2(p) /\ Past(p) => Past(p)'
    BY <1>2, <1>3, <1>10, <1>11 DEF Past
  <2> QED
    BY <1>1, <1>11, <2>1, HandoverKept
<1>14. SendingOK' /\ OthersOK'
  BY <1>1, <1>9, SendingKept DEF Inv, OthersOK
<1>15. RunsOnEvidence'
  BY <1>1, <1>9, <1>11, EvidenceKept DEF SameGraphs
<1>16. IssuesHoldMilestones'
  BY <1>1, <1>9, IssuesKept
<1> QED
  BY <1>9, <1>11, <1>12, <1>13, <1>14, <1>15, <1>16 DEF Inv

-----------------------------------------------------------------------------
(* Issues.                                                                 *)

LEMMA PausedShown ==
  ASSUME Inv, NEW i \in Issues, Affects[i] \subseteq Elements(Graph(RaisedFor[i]))
  PROVE  /\ Affects[i] \subseteq Paused(i)
         /\ Paused(i) \subseteq MilestonesOf[RaisedFor[i]] /\ Paused(i) \subseteq Milestones
<1>1. Elements(Graph(RaisedFor[i])) \subseteq MilestonesOf[RaisedFor[i]]
  BY RaisedForShown, GraphShown DEF Inv
<1>2. Paused(i) \subseteq Elements(Graph(RaisedFor[i])) /\ Affects[i] \subseteq Paused(i)
  BY Zenon DEF Paused
<1> QED
  BY <1>1, <1>2, RaisedForShown, ProgramOfShown

LEMMA RaiseIssueStep ==
  ASSUME Inv, NEW i \in Issues, RaiseIssue(i)
  PROVE  Inv'
<1> DEFINE p == RaisedFor[i]
           stopped == {m \in Paused(i) : Open(m)}
           R == {a \in admissions : a.milestone \in stopped}
<1>1. /\ issue[i] = "none" /\ Affects[i] \subseteq Elements(Graph(p))
      /\ issue' = [issue EXCEPT ![i] = "open"]
      /\ milestone' = [m \in Milestones |->
           IF m \in stopped THEN Finished(PausedFor(milestone[m], i), "other")
           ELSE IF m \in Paused(i) THEN PausedFor(milestone[m], i) ELSE milestone[m]]
      /\ UNCHANGED <<queue, candidates, promoted, plan, handover, receipts>>
  BY Zenon DEF RaiseIssue, PausedFor, integration, sending
<1>2. /\ UNION {AdmissionsOf(m) : m \in stopped} = R
      /\ R = {a \in admissions : a.milestone \in stopped}
  BY DEF AdmissionsOf
<1>3. /\ admissions' = admissions \ R
      /\ program' = [program EXCEPT ![p].latest = IF stopped = {} THEN @ ELSE "other",
                                    ![p].phase = Released(p, R)]
  <2> HIDE DEF R
  <2> QED
    BY <1>2, Zenon DEF RaiseIssue
<1>4. /\ p \in Programs /\ Affects[i] \subseteq Paused(i) /\ Paused(i) \subseteq MilestonesOf[p]
      /\ Paused(i) \subseteq Milestones /\ stopped \in SUBSET MilestonesOf[p]
  BY <1>1, PausedShown, RaisedForShown
<1>5. PICK q \in Programs : q = p
  BY <1>4
<1>6. PICK phase \in Phases : phase = Released(p, R)
  BY <1>4, ProgramShown DEF ProgramType, Phases, Released
<1>7. PICK latest \in Results \cup {Nothing} : latest = IF stopped = {} THEN program[p].latest ELSE "other"
  BY <1>4, ProgramShown DEF ProgramType, Results
<1>8. PICK r : r = [program[q] EXCEPT !.latest = latest, !.phase = phase]
  OBVIOUS
<1>9. /\ r \in ProgramType /\ r.revision = program[q].revision /\ r.needs = program[q].needs
      /\ r.phase = phase /\ r.resume = program[q].resume
  BY <1>8, ProgramShown DEF ProgramType
<1>10. program' = [program EXCEPT ![q] = r]
  <2> HIDE DEF R, stopped
  <2>1. program' = [program EXCEPT ![p].latest = latest, ![p].phase = phase]
    BY <1>3, <1>6, <1>7
  <2> HIDE DEF p
  <2> QED
    BY <2>1, <1>5, <1>8, ProgramShown
<1>11. ProgramsOK' /\ SameGraphs /\ SamePrograms(Programs \ {q}) /\ program'[q] = r
  BY <1>9, <1>10, ProgramReplaced
<1>12. ASSUME NEW m \in Milestones
       PROVE  /\ Sound(milestone'[m]) /\ Grows(milestone[m], milestone'[m])
              /\ Running(milestone'[m]) <=> Open(m) /\ m \notin stopped
              /\ milestone'[m].outcomes # <<>> => milestone[m].outcomes # <<>>
              /\ m \in Paused(i) => milestone'[m].status = "paused"
              /\ milestone[m].status = "paused" => milestone'[m].status = "paused"
  <2>1. PICK old : old = milestone[m]
    OBVIOUS
  <2>2. Sound(old) /\ (Open(m) <=> Running(old)) /\ Grows(old, old)
    BY <2>1, MilestoneShown, SoundShown DEF Inv
  <2>3. CASE m \in stopped
    <3>1. milestone'[m] = Finished(PausedFor(old, i), "other")
      BY <1>1, <2>1, <2>3
    <3>2. Running(old)
      BY <2>2, <2>3
    <3>3. PICK new : new = Finished(PausedFor(old, i), "other")
      OBVIOUS
    <3>4. Sound(new) /\ ~ Running(new) /\ Grows(old, new) /\ old.outcomes # <<>> /\ new.status = "paused"
      BY <2>2, <3>2, <3>3, StoppedSound
    <3> QED
      BY <2>1, <2>3, <3>1, <3>3, <3>4
  <2>4. CASE m \notin stopped /\ m \in Paused(i)
    <3>1. milestone'[m] = PausedFor(old, i)
      BY <1>1, <2>1, <2>4
    <3>2. ~ Running(old)
      BY <2>2, <2>4
    <3>3. PICK new : new = PausedFor(old, i)
      OBVIOUS
    <3>4. Sound(new) /\ ~ Running(new) /\ Grows(old, new) /\ new.outcomes = old.outcomes
          /\ new.status = "paused"
      BY <2>2, <3>2, <3>3, PausedSound
    <3> QED
      BY <2>1, <2>2, <2>4, <3>1, <3>2, <3>3, <3>4
  <2>5. CASE m \notin Paused(i)
    <3>1. milestone'[m] = old /\ m \notin stopped
      BY <1>1, <2>1, <2>5
    <3> QED
      BY <2>1, <2>2, <2>5, <3>1
  <2> QED
    BY <2>3, <2>4, <2>5
<1>13. /\ MilestonesOK' /\ MilestonesGrow
       /\ \A m \in Milestones : Open(m)' <=> Running(milestone'[m])
  <2>1. DOMAIN milestone' = Milestones /\ milestone' = [m \in Milestones |-> milestone'[m]]
    BY <1>1
  <2> HIDE DEF stopped
  <2> QED
    BY <1>12, <2>1, MilestonesReplaced DEF Inv
<1>14. /\ AdmissionsOK' /\ ClaimsAreExclusive' /\ PhasesOK' /\ WorkIsAdmitted' /\ LegacyIsSerial'
  <2>1. \A m \in Milestones : Open(m)' <=> Open(m) /\ m \notin stopped
    BY <1>12, <1>13
  <2>2. admissions' = {a \in admissions : a.milestone \notin stopped}
    BY <1>3
  <2>3. PICK E : E = stopped
    OBVIOUS
  <2>4. /\ program'[q].phase = Released(q, {a \in admissions : a.milestone \in E})
        /\ program'[q].resume = program[q].resume
    BY <1>5, <1>6, <1>9, <1>11, <2>3
  <2>5. /\ E \in SUBSET MilestonesOf[q] /\ \A m \in Milestones : Open(m)' <=> Open(m) /\ m \notin E
        /\ admissions' = {a \in admissions : a.milestone \notin E}
    BY <1>4, <1>5, <2>1, <2>2, <2>3
  <2> HIDE DEF R, stopped, p
  <2> QED
    BY <1>11, <2>4, <2>5, EndingKeeps
<1>15. HandedOver'
  <2>1. Past(q) => Past(q)'
    <3> HIDE DEF R
    <3> QED
      BY <1>5, <1>6, <1>9, <1>11 DEF Past, Released
  <2> QED
    BY <1>1, <1>11, <2>1, HandoverKept
<1>16. SendingOK'
  BY <1>1, <1>13, SendingKept
<1>17. OthersOK'
  BY <1>1 DEF Inv, OthersOK
<1>18. RunsOnEvidence'
  <2>1. /\ promoted \subseteq promoted'
        /\ \A u \in Programs : OneGraph(u) => program'[u].needs = program[u].needs
        /\ \A m \in Milestones : milestone'[m].outcomes # <<>> => milestone[m].outcomes # <<>>
    BY <1>1, <1>11, <1>12 DEF SameGraphs
  <2> QED
    BY <1>13, <2>1, EvidenceKept
<1>19. IssuesHoldMilestones'
  <2> SUFFICES ASSUME NEW j \in Issues, V2(RaisedFor[j]), Unresolved(j)', NEW m \in Affects[j]
               PROVE  \/ milestone'[m].status = "paused"
                      \/ \E k \in Issues : issue'[k] = "resolved" /\ m \in Affects[k]
    BY DEF IssuesHoldMilestones
  <2>1. m \in Milestones
    BY RaisedForShown, ProgramOfShown
  <2>2. CASE j = i
    BY <1>4, <1>12, <2>1, <2>2
  <2>3. CASE j # i
    <3>1. Unresolved(j)
      BY <1>1, <2>3 DEF Unresolved, Inv, OthersOK
    <3>2. \/ milestone[m].status = "paused"
          \/ \E k \in Issues : issue[k] = "resolved" /\ m \in Affects[k]
      BY <3>1 DEF Inv, IssuesHoldMilestones
    <3>3. \A k \in Issues : issue[k] = "resolved" => issue'[k] = "resolved"
      BY <1>1 DEF Inv, OthersOK
    <3> QED
      BY <1>12, <2>1, <3>2, <3>3
  <2> QED
    BY <2>2, <2>3
<1> QED
  BY <1>11, <1>13, <1>14, <1>15, <1>16, <1>17, <1>18, <1>19 DEF Inv

LEMMA ResolveIssueStep ==
  ASSUME Inv, NEW i \in Issues,
         NEW action \in {"record_only", "resume_unchanged_contract", "requires_graph_revision"},
         ResolveIssue(i, action)
  PROVE  Inv'
<1> DEFINE resumed == {m \in Milestones : /\ action = "resume_unchanged_contract" /\ m \in Affects[i]
                                          /\ milestone[m].pauseReason = i}
<1>1. /\ issue[i] = "open"
      /\ issue' = [issue EXCEPT ![i] = IF action = "requires_graph_revision" THEN action ELSE "resolved"]
      /\ milestone' = [m \in Milestones |->
           IF m \in resumed
           THEN [milestone[m] EXCEPT !.status = "approved", !.pauseReason = Nothing]
           ELSE milestone[m]]
      /\ UNCHANGED <<program, admissions, queue, candidates, promoted, plan, handover, receipts>>
  BY DEF ResolveIssue, integration, sending
<1>2. i # Nothing
  BY PortfolioAssumption
<1>3. ASSUME NEW m \in Milestones
      PROVE  /\ Sound(milestone'[m]) /\ Grows(milestone[m], milestone'[m])
             /\ Running(milestone'[m]) <=> Open(m)
             /\ milestone'[m].outcomes = milestone[m].outcomes
  <2>1. PICK old, new : old = milestone[m] /\ new = milestone'[m]
    OBVIOUS
  <2>2. Sound(old) /\ (Open(m) <=> Running(old)) /\ Grows(old, old)
    BY <2>1, MilestoneShown, SoundShown DEF Inv
  <2>3. CASE m \in resumed
    <3>1. new = [old EXCEPT !.status = "approved", !.pauseReason = Nothing] /\ old.pauseReason # Nothing
      BY <1>1, <1>2, <2>1, <2>3
    <3>2. Sound(new) /\ ~ Running(new) /\ ~ Running(old) /\ Grows(old, new) /\ new.outcomes = old.outcomes
      BY <2>2, <3>1, ResumedSound
    <3> QED
      BY <2>1, <2>2, <3>2
  <2>4. CASE m \notin resumed
    BY <1>1, <2>1, <2>2, <2>4
  <2> QED
    BY <2>3, <2>4
<1>4. \A m \in Milestones : m \notin resumed => milestone'[m] = milestone[m]
  BY <1>1
<1>5. DOMAIN milestone' = Milestones /\ milestone' = [m \in Milestones |-> milestone'[m]]
  BY <1>1
<1>6. \A m \in resumed : m \in Affects[i] /\ issue'[i] = "resolved"
  BY <1>1 DEF Inv, OthersOK
<1> HIDE DEF resumed
<1>7. /\ MilestonesOK' /\ MilestonesGrow
      /\ \A m \in Milestones : Open(m)' <=> Running(milestone'[m])
  BY <1>3, <1>5, MilestonesReplaced DEF Inv
<1>8. SameRuns
  BY <1>3, <1>7 DEF SameRuns
<1>9. AdmissionsOK' /\ ClaimsAreExclusive'
  BY <1>1, <1>8, AdmissionsKept
<1>10. \A q \in Programs : Busy(q)' <=> Busy(q)
  BY <1>8, ProgramOfShown DEF Busy, SameRuns
<1>11. ProgramsOK' /\ PhasesOK' /\ HandedOver'
  BY <1>1 DEF Inv, ProgramsOK, PhasesOK, HandedOver, Past
<1>12. WorkIsAdmitted'
  BY <1>1, <1>8, <1>10, ProgramOfShown DEF Inv, WorkIsAdmitted, SameRuns
<1>13. LegacyIsSerial'
  <2>1. \A q \in Legacy : q \in Programs
    BY PortfolioAssumption
  <2> QED
    BY <1>1, <1>8, <1>10, <2>1, ProgramOfShown DEF Inv, LegacyIsSerial, SameRuns
<1>14. SendingOK'
  BY <1>1, <1>7, SendingKept
<1>15. OthersOK'
  BY <1>1 DEF Inv, OthersOK
<1>16. RunsOnEvidence'
  <2>1. /\ promoted \subseteq promoted'
        /\ \A u \in Programs : OneGraph(u) => program'[u].needs = program[u].needs
        /\ \A m \in Milestones : milestone'[m].outcomes # <<>> => milestone[m].outcomes # <<>>
    BY <1>1, <1>3
  <2> QED
    BY <1>7, <2>1, EvidenceKept
<1>17. IssuesHoldMilestones'
  <2> SUFFICES ASSUME NEW j \in Issues, V2(RaisedFor[j]), Unresolved(j)', NEW m \in Affects[j]
               PROVE  \/ milestone'[m].status = "paused"
                      \/ \E k \in Issues : issue'[k] = "resolved" /\ m \in Affects[k]
    BY DEF IssuesHoldMilestones
  <2>1. m \in Milestones
    BY RaisedForShown, ProgramOfShown
  <2>2. CASE m \in resumed
    BY <1>6, <2>2
  <2>3. CASE m \notin resumed
    <3>1. Unresolved(j)
      BY <1>1 DEF Unresolved, Inv, OthersOK
    <3>2. \/ milestone[m].status = "paused"
          \/ \E k \in Issues : issue[k] = "resolved" /\ m \in Affects[k]
      BY <3>1 DEF Inv, IssuesHoldMilestones
    <3>3. \A k \in Issues : issue[k] = "resolved" => issue'[k] = "resolved"
      BY <1>1 DEF Inv, OthersOK
    <3> QED
      BY <1>4, <2>1, <2>3, <3>2, <3>3
  <2> QED
    BY <2>2, <2>3
<1> QED
  BY <1>7, <1>9, <1>11, <1>12, <1>13, <1>14, <1>15, <1>16, <1>17 DEF Inv

-----------------------------------------------------------------------------
(* Evidence that is recorded, and runs that start.                         *)

\* Milestones with more evidence, and otherwise as they are.
Enriched(base) ==
  /\ DOMAIN base = Milestones
  /\ \A n \in Milestones :
       /\ Sound(base[n]) /\ Grows(milestone[n], base[n])
       /\ base[n].outcomes = milestone[n].outcomes /\ base[n].status = milestone[n].status
       /\ base[n].generation = milestone[n].generation

LEMMA EnrichedAlready ==
  ASSUME Inv
  PROVE  Enriched(milestone)
<1>1. ASSUME NEW n \in Milestones
      PROVE  Sound(milestone[n]) /\ Grows(milestone[n], milestone[n])
  <2>1. PICK r : r = milestone[n]
    OBVIOUS
  <2>2. Sound(r) /\ Grows(r, r)
    BY <2>1, MilestoneShown, SoundShown DEF Inv
  <2> QED
    BY <2>1, <2>2
<1>2. DOMAIN milestone = Milestones
  BY DEF Inv, MilestonesOK
<1> QED
  BY <1>1, <1>2 DEF Enriched

LEMMA RecordedShown ==
  ASSUME Inv, NEW s \in Supervisors, NEW k, k = plan[s], k # Nothing, Acceptable(k)
  PROVE  /\ Enriched(Recorded(k))
         /\ Recorded(k) = [n \in Milestones |-> Recorded(k)[n]]
         /\ \A m \in Carried(k) : m \in Milestones /\ Recorded(k)[m].validated # 0
         /\ k \in PlanType
<1>1. /\ k \in PlanType /\ k.packets \subseteq Milestones \X Nat
      /\ \A x \in k.packets : x[2] \in DOMAIN milestone[x[1]].outcomes
      /\ \A x \in k.packets : milestone[x[1]].outcomes[x[2]] = "merge"
  BY DEF Inv, SendingOK, Acceptable, PlanType
<1>2. PICK base : base = Recorded(k)
  OBVIOUS
<1>3. DOMAIN base = Milestones /\ base = [n \in Milestones |-> base[n]]
  BY <1>2 DEF Recorded
<1>4. ASSUME NEW n \in Milestones
      PROVE  /\ Sound(base[n]) /\ Grows(milestone[n], base[n])
             /\ base[n].outcomes = milestone[n].outcomes /\ base[n].status = milestone[n].status
             /\ base[n].generation = milestone[n].generation
             /\ n \in Carried(k) => base[n].validated # 0
  <2>1. PICK old : old = milestone[n]
    OBVIOUS
  <2>2. Sound(old) /\ Grows(old, old)
    BY <2>1, MilestoneShown, SoundShown DEF Inv
  <2>3. CASE n \in Carried(k)
    <3> DEFINE i == CHOOSE j \in DOMAIN old.outcomes : <<n, j>> \in k.packets
    <3>1. \E j \in DOMAIN old.outcomes : <<n, j>> \in k.packets
      <4>1. PICK x \in k.packets : x[1] = n
        BY <2>3 DEF Carried
      <4>2. x = <<n, x[2]>>
        BY <1>1, <4>1
      <4> QED
        BY <1>1, <2>1, <4>1, <4>2
    <3>2. i \in DOMAIN old.outcomes /\ <<n, i>> \in k.packets
      BY <3>1
    <3>3. base[n] = [old EXCEPT !.validated = i]
      BY <1>2, <2>1, <2>3 DEF Recorded
    <3> HIDE DEF i
    <3>4. old.outcomes[i] = "merge"
      BY <1>1, <2>1, <3>2
    <3>5. PICK new : new = base[n]
      OBVIOUS
    <3>6. /\ Sound(new) /\ Grows(old, new) /\ new.outcomes = old.outcomes /\ new.status = old.status
          /\ new.generation = old.generation /\ new.validated # 0
      <4>1. PICK j \in DOMAIN old.outcomes : j = i
        BY <3>2
      <4>2. Sound(old)
        BY <2>2
      <4>3. new = [old EXCEPT !.validated = j] /\ old.outcomes[j] = "merge"
        BY <3>3, <3>4, <3>5, <4>1
      <4> QED
        BY <4>2, <4>3, ValidatedSound
    <3> QED
      BY <2>1, <3>5, <3>6
  <2>4. CASE n \notin Carried(k)
    <3>1. base[n] = old
      BY <1>2, <2>1, <2>4 DEF Recorded
    <3> QED
      BY <2>1, <2>2, <2>4, <3>1
  <2> QED
    BY <2>3, <2>4
<1>5. Enriched(base)
  BY <1>3, <1>4 DEF Enriched
<1>6. Carried(k) \subseteq Milestones
  BY <1>1 DEF Carried
<1> QED
  BY <1>1, <1>2, <1>3, <1>4, <1>5, <1>6

LEMMA StartedMilestone ==
  ASSUME Inv, NEW base, Enriched(base), NEW m \in Milestones, milestone[m].status # "running",
         NEW g \in Nat, g <= Len(milestone[m].outcomes) + 1,
         milestone' = [base EXCEPT ![m] = Started(@, g)]
  PROVE  /\ MilestonesOK' /\ MilestonesGrow
         /\ \A n \in Milestones : Open(n)' <=> Open(n) \/ n = m
         /\ \A n \in Milestones : milestone'[n].validated = base[n].validated
         /\ \A n \in Milestones : n # m => /\ milestone'[n].outcomes = milestone[n].outcomes
                                           /\ milestone'[n].status = milestone[n].status
<1>1. /\ milestone'[m] = Started(base[m], g)
      /\ \A n \in Milestones : n # m => milestone'[n] = base[n]
  BY DEF Enriched
<1>2. ASSUME NEW n \in Milestones
      PROVE  /\ Sound(milestone'[n]) /\ Grows(milestone[n], milestone'[n])
             /\ Running(milestone'[n]) <=> Open(n) \/ n = m
             /\ milestone'[n].validated = base[n].validated
  <2>1. PICK old, mid, new : old = milestone[n] /\ mid = base[n] /\ new = milestone'[n]
    OBVIOUS
  <2>2. /\ Sound(old) /\ Sound(mid) /\ Grows(old, mid) /\ mid.outcomes = old.outcomes
        /\ mid.status = old.status /\ (Open(n) <=> Running(old))
    BY <2>1, MilestoneShown DEF Enriched, Inv
  <2>3. CASE n = m
    <3>1. new = Started(mid, g) /\ mid.status # "running" /\ g <= Len(mid.outcomes) + 1
      BY <1>1, <2>1, <2>2, <2>3
    <3>2. Sound(new) /\ Running(new) /\ Grows(mid, new) /\ new.validated = mid.validated
      BY <2>2, <3>1, StartedSound
    <3>3. Len(old.outcomes) \in Nat /\ Len(mid.outcomes) \in Nat /\ Len(new.outcomes) \in Nat
      BY <2>2, <3>2, SoundShown
    <3>4. Grows(old, new)
      BY <2>2, <3>2, <3>3 DEF Grows
    <3> QED
      BY <2>1, <2>3, <3>2, <3>4
  <2>4. CASE n # m
    <3>1. new = mid
      BY <1>1, <2>1, <2>4
    <3>2. Running(mid) <=> Running(old)
      BY <2>2 DEF Running
    <3> QED
      BY <2>1, <2>2, <2>4, <3>1, <3>2
  <2> QED
    BY <2>3, <2>4
<1>3. DOMAIN milestone' = Milestones /\ milestone' = [n \in Milestones |-> milestone'[n]]
  BY DEF Enriched
<1>4. /\ MilestonesOK' /\ MilestonesGrow
      /\ \A n \in Milestones : Open(n)' <=> Running(milestone'[n])
  BY <1>2, <1>3, MilestonesReplaced DEF Inv
<1>5. \A n \in Milestones : n # m => /\ milestone'[n].outcomes = milestone[n].outcomes
                                     /\ milestone'[n].status = milestone[n].status
  BY <1>1 DEF Enriched
<1> QED
  BY <1>2, <1>4, <1>5

\* A graph_v1 program that has no run open gets one.
LEMMA LegacyStarts ==
  ASSUME Inv, NEW p \in Legacy, NEW m \in MilestonesOf[p], ~ Busy(p), UNCHANGED admissions,
         \A n \in Milestones : Open(n)' <=> Open(n) \/ n = m,
         SamePrograms(Programs \ {p}), program'[p].phase = "running"
  PROVE  /\ AdmissionsOK' /\ ClaimsAreExclusive' /\ PhasesOK' /\ WorkIsAdmitted' /\ LegacyIsSerial'
<1>1. p \in Programs /\ ~ V2(p) /\ m \in Milestones /\ ProgramOf[m] = p
  BY PortfolioAssumption, ProgramOfShown DEF V2
<1>2. \A a \in admissions : Open(a.milestone)'
  BY AdmissionShown
<1>3. AdmissionsOK' /\ ClaimsAreExclusive'
  BY <1>2 DEF Inv, AdmissionsOK, ClaimsAreExclusive
<1>4. \A q \in Programs : q # p => /\ program'[q] = program[q]
                                   /\ \A n \in MilestonesOf[q] : n # m /\ (Open(n)' <=> Open(n))
  BY <1>1, ProgramOfShown DEF SamePrograms
<1>5. \A q \in Programs : q # p => (Busy(q)' <=> Busy(q))
  BY <1>4 DEF Busy
<1>6. \A q \in Programs : V2(q) => q # p
  BY <1>1
<1>7. PhasesOK'
  BY <1>4, <1>6 DEF Inv, PhasesOK
<1>8. WorkIsAdmitted'
  BY <1>4, <1>5, <1>6 DEF Inv, WorkIsAdmitted
<1>9. LegacyIsSerial'
  <2> SUFFICES ASSUME NEW q \in Legacy
               PROVE  /\ program'[q].phase \in {"approved", "running", "parked", "completed"}
                      /\ Busy(q)' => program'[q].phase = "running"
                      /\ \A l, n \in MilestonesOf[q] : Open(l)' /\ Open(n)' => l = n
    BY DEF LegacyIsSerial
  <2>1. q \in Programs
    BY PortfolioAssumption
  <2>2. CASE q = p
    <3>1. \A n \in MilestonesOf[p] : Open(n)' => n = m
      BY <1>1, ProgramOfShown DEF Busy
    <3> QED
      BY <2>2, <3>1
  <2>3. CASE q # p
    BY <1>4, <1>5, <2>1, <2>3 DEF Inv, LegacyIsSerial
  <2> QED
    BY <2>2, <2>3
<1> QED
  BY <1>3, <1>7, <1>8, <1>9

\* The milestones of an accepted program.advance that starts nothing.
LEMMA EnrichedMilestones ==
  ASSUME Inv, NEW base, Enriched(base), base = [n \in Milestones |-> base[n]], milestone' = base
  PROVE  /\ MilestonesOK' /\ MilestonesGrow /\ SameRuns
         /\ \A n \in Milestones : /\ milestone'[n].outcomes = milestone[n].outcomes
                                  /\ milestone'[n].status = milestone[n].status
<1>1. /\ MilestonesOK' /\ MilestonesGrow
      /\ \A n \in Milestones : Open(n)' <=> Running(milestone'[n])
  BY MilestonesReplaced DEF Inv, Enriched
<1>2. \A n \in Milestones : Running(milestone'[n]) <=> Open(n)
  BY DEF Enriched, Running, Open
<1> QED
  BY <1>1, <1>2 DEF Enriched, SameRuns

LEMMA AcceptedShown ==
  ASSUME Inv, NEW s \in Supervisors, Accepted(s), NEW k, k = plan[s]
  PROVE  /\ Answered(s) /\ k # Nothing /\ k \in PlanType /\ k.program \in Programs
         /\ Acceptable(k) /\ Advanceable(k.program) /\ ~ Busy(k.program)
         /\ Enriched(Recorded(k)) /\ Recorded(k) = [n \in Milestones |-> Recorded(k)[n]]
         /\ \A m \in Carried(k) : m \in Milestones /\ Recorded(k)[m].validated # 0
         /\ UNCHANGED <<admissions, queue, issue, candidates, promoted, handover>>
<1>1. Answered(s) /\ k # Nothing /\ Acceptable(k)
  BY DEF Accepted, Answered
<1>2. /\ Enriched(Recorded(k)) /\ Recorded(k) = [n \in Milestones |-> Recorded(k)[n]]
      /\ \A m \in Carried(k) : m \in Milestones /\ Recorded(k)[m].validated # 0
      /\ k \in PlanType
  BY <1>1, RecordedShown
<1>3. k.program \in Programs
  BY <1>2 DEF PlanType
<1>4. Advanceable(k.program) /\ ~ Busy(k.program)
  BY <1>1 DEF Acceptable
<1>5. UNCHANGED <<admissions, queue, issue, candidates, promoted, handover>>
  BY <1>1 DEF Answered, integration
<1> QED
  BY <1>1, <1>2, <1>3, <1>4, <1>5

LEMMA RecordEvidenceStep ==
  ASSUME Inv, NEW s \in Supervisors, RecordEvidence(s)
  PROVE  Inv'
<1>1. PICK k : k = plan[s]
  OBVIOUS
<1>2. Accepted(s) /\ milestone' = Recorded(k) /\ UNCHANGED program
  BY <1>1 DEF RecordEvidence
<1>3. /\ Answered(s) /\ Enriched(Recorded(k)) /\ Recorded(k) = [n \in Milestones |-> Recorded(k)[n]]
      /\ UNCHANGED <<admissions, queue, issue, candidates, promoted, handover>>
  BY <1>1, <1>2, AcceptedShown
<1>4. PICK base : base = Recorded(k)
  OBVIOUS
<1>5. /\ MilestonesOK' /\ MilestonesGrow /\ SameRuns
      /\ \A n \in Milestones : /\ milestone'[n].outcomes = milestone[n].outcomes
                               /\ milestone'[n].status = milestone[n].status
  BY <1>2, <1>3, <1>4, EnrichedMilestones
<1>6. SendingOK' /\ OthersOK'
  BY <1>3, <1>5, AnsweredKeeps
<1>7. AdmissionsOK' /\ ClaimsAreExclusive'
  BY <1>3, <1>5, AdmissionsKept
<1>8. \A q \in Programs : Busy(q)' <=> Busy(q)
  BY <1>5, ProgramOfShown DEF Busy, SameRuns
<1>9. ProgramsOK' /\ PhasesOK' /\ HandedOver'
  BY <1>2, <1>3 DEF Inv, ProgramsOK, PhasesOK, HandedOver, Past
<1>10. WorkIsAdmitted'
  BY <1>2, <1>3, <1>5, <1>8, ProgramOfShown DEF Inv, WorkIsAdmitted, SameRuns
<1>11. LegacyIsSerial'
  <2>1. \A q \in Legacy : q \in Programs
    BY PortfolioAssumption
  <2> QED
    BY <1>2, <1>5, <1>8, <2>1, ProgramOfShown DEF Inv, LegacyIsSerial, SameRuns
<1>12. RunsOnEvidence'
  BY <1>2, <1>3, <1>5, EvidenceKept
<1>13. IssuesHoldMilestones'
  BY <1>3, <1>5, IssuesKept
<1> QED
  BY <1>5, <1>6, <1>7, <1>9, <1>10, <1>11, <1>12, <1>13 DEF Inv

LEMMA FinishProgramStep ==
  ASSUME Inv, NEW s \in Supervisors, FinishProgram(s)
  PROVE  Inv'
<1>1. PICK k : k = plan[s]
  OBVIOUS
<1>2. PICK phase : phase = IF V2(k.program) THEN "integration_pending" ELSE "completed"
  OBVIOUS
<1>3. /\ Accepted(s) /\ milestone' = Recorded(k)
      /\ program' = [program EXCEPT ![k.program].phase = phase]
  BY <1>1, <1>2, Zenon DEF FinishProgram
<1>4. /\ Answered(s) /\ Enriched(Recorded(k)) /\ Recorded(k) = [n \in Milestones |-> Recorded(k)[n]]
      /\ k.program \in Programs /\ ~ Busy(k.program)
      /\ UNCHANGED <<admissions, queue, issue, candidates, promoted, handover>>
  BY <1>1, <1>3, AcceptedShown
<1>5. PICK p \in Programs : p = k.program
  BY <1>4
<1>6. PICK base : base = Recorded(k)
  OBVIOUS
<1>7. /\ MilestonesOK' /\ MilestonesGrow /\ SameRuns
      /\ \A n \in Milestones : /\ milestone'[n].outcomes = milestone[n].outcomes
                               /\ milestone'[n].status = milestone[n].status
  BY <1>3, <1>4, <1>6, EnrichedMilestones
<1>8. PICK r : r = [program[p] EXCEPT !.phase = phase]
  OBVIOUS
<1>9. /\ r \in ProgramType /\ r.revision = program[p].revision /\ r.needs = program[p].needs
      /\ r.phase = phase
  BY <1>2, <1>8, ProgramShown DEF ProgramType, Phases
<1>10. program' = [program EXCEPT ![p] = r]
  BY <1>3, <1>5, <1>8, ProgramShown
<1>11. ProgramsOK' /\ SameGraphs /\ SamePrograms(Programs \ {p}) /\ program'[p] = r
  BY <1>9, <1>10, ProgramReplaced
<1>12. SendingOK' /\ OthersOK'
  BY <1>4, <1>7, AnsweredKeeps
<1>13. AdmissionsOK' /\ ClaimsAreExclusive'
  BY <1>4, <1>7, AdmissionsKept
<1>14. PhasesOK' /\ WorkIsAdmitted' /\ LegacyIsSerial'
  <2>1. /\ ~ Busy(p) /\ program'[p].phase \in {"integration_pending", "completed"}
        /\ ~ V2(p) => program'[p].phase = "completed"
    BY <1>2, <1>4, <1>5, <1>9, <1>11
  <2> QED
    BY <1>4, <1>7, <1>11, <2>1, PhaseKept
<1>15. HandedOver'
  <2>1. Past(p)'
    BY <1>2, <1>9, <1>11 DEF Past
  <2> QED
    BY <1>4, <1>11, <2>1, HandoverKept
<1>16. RunsOnEvidence'
  BY <1>4, <1>7, <1>11, EvidenceKept DEF SameGraphs
<1>17. IssuesHoldMilestones'
  BY <1>4, <1>7, IssuesKept
<1> QED
  BY <1>7, <1>11, <1>12, <1>13, <1>14, <1>15, <1>16, <1>17 DEF Inv

LEMMA LegacyRuns ==
  ASSUME Inv, NEW p \in Legacy, NEW m \in MilestonesOf[p], ~ Busy(p), NEW base, Enriched(base),
         NEW g \in Nat, g <= Len(milestone[m].outcomes) + 1,
         milestone' = [base EXCEPT ![m] = Started(@, g)],
         SameGraphs, SamePrograms(Programs \ {p}), program'[p].phase = "running",
         milestone[m].outcomes # <<>> \/ \A d \in Deps[m] : base[d].validated # 0,
         UNCHANGED <<admissions, issue, candidates, promoted, handover>>
  PROVE  /\ MilestonesOK' /\ MilestonesGrow
         /\ AdmissionsOK' /\ ClaimsAreExclusive' /\ PhasesOK' /\ WorkIsAdmitted' /\ LegacyIsSerial'
         /\ HandedOver' /\ RunsOnEvidence' /\ IssuesHoldMilestones'
<1>1. p \in Programs /\ ~ V2(p) /\ m \in Milestones /\ ProgramOf[m] = p
  BY PortfolioAssumption, ProgramOfShown DEF V2
<1>2. ~ Open(m) /\ milestone[m].status # "running"
  BY <1>1, MilestoneShown DEF Busy, Inv
<1>3. /\ MilestonesOK' /\ MilestonesGrow
      /\ \A n \in Milestones : Open(n)' <=> Open(n) \/ n = m
      /\ \A n \in Milestones : milestone'[n].validated = base[n].validated
      /\ \A n \in Milestones : n # m => /\ milestone'[n].outcomes = milestone[n].outcomes
                                        /\ milestone'[n].status = milestone[n].status
  BY <1>1, <1>2, StartedMilestone
<1>4. /\ AdmissionsOK' /\ ClaimsAreExclusive' /\ PhasesOK' /\ WorkIsAdmitted' /\ LegacyIsSerial'
  BY <1>3, LegacyStarts
<1>5. HandedOver'
  BY <1>1, HandoverKept
<1>6. RunsOnEvidence'
  <2>1. FirstRun(m) \/ milestone[m].outcomes # <<>>
    <3>1. program[p].needs = {}
      BY <1>1 DEF Inv, ProgramsOK
    <3>2. Deps[m] \subseteq Milestones
      BY <1>1, PortfolioAssumption
    <3> QED
      BY <1>1, <1>3, <3>1, <3>2 DEF FirstRun
  <2>2. \A n \in Milestones : milestone'[n].outcomes # <<>> => milestone[n].outcomes # <<>> \/ FirstRun(n)
    BY <1>3, <2>1
  <2>3. \A q \in Programs : OneGraph(q) => program'[q].needs = program[q].needs
    BY DEF SameGraphs
  <2> QED
    BY <1>3, <2>2, <2>3, EvidenceKept
<1>7. IssuesHoldMilestones'
  BY <1>1, <1>3, IssuesKept
<1> QED
  BY <1>3, <1>4, <1>5, <1>6, <1>7

LEMMA StartNextStep ==
  ASSUME Inv, NEW s \in Supervisors, StartNext(s)
  PROVE  Inv'
<1>1. PICK k : k = plan[s]
  OBVIOUS
<1>2. PICK m : m = k.node
  OBVIOUS
<1>3. /\ Accepted(s) /\ ~ V2(k.program) /\ m # Nothing
      /\ milestone' = [Recorded(k) EXCEPT ![m] = Started(@, k.generation)]
      /\ UNCHANGED program
  BY <1>1, <1>2, Zenon DEF StartNext
<1>4. /\ Answered(s) /\ k \in PlanType /\ k.program \in Programs /\ Acceptable(k)
      /\ Advanceable(k.program) /\ ~ Busy(k.program) /\ Enriched(Recorded(k))
      /\ \A n \in Carried(k) : n \in Milestones /\ Recorded(k)[n].validated # 0
      /\ UNCHANGED <<admissions, queue, issue, candidates, promoted, handover>>
  BY <1>1, <1>3, AcceptedShown
<1>5. PICK p \in Programs : p = k.program
  BY <1>4
<1>6. p \in Legacy /\ program[p].phase = "running"
  BY <1>3, <1>4, <1>5 DEF V2, Advanceable
<1>7. /\ m = NextNode(p) /\ k.generation = milestone[m].generation + 1 /\ Carried(k) = Deps[m]
  BY <1>2, <1>3, <1>4, <1>5 DEF Acceptable
<1>8. m \in MilestonesOf[p] /\ m \in Milestones
  BY <1>3, <1>7, NextNodeShown DEF Inv
<1>9. PICK g \in Nat : g = k.generation
  BY <1>4 DEF PlanType
<1>10. g <= Len(milestone[m].outcomes) + 1
  <2>1. PICK r : r = milestone[m]
    OBVIOUS
  <2>2. Sound(r)
    BY <1>8, <2>1, MilestoneShown DEF Inv
  <2>3. r.generation \in Nat /\ r.generation <= Len(r.outcomes) /\ Len(r.outcomes) \in Nat
    BY <2>2, SoundShown DEF Sound, MilestoneType
  <2>4. g = r.generation + 1
    BY <1>7, <1>9, <2>1
  <2>5. g <= Len(r.outcomes) + 1
    BY <2>3, <2>4
  <2> QED
    BY <2>1, <2>5
<1>11. PICK base : base = Recorded(k)
  OBVIOUS
<1>12. Enriched(base) /\ milestone' = [base EXCEPT ![m] = Started(@, g)]
       /\ \A d \in Deps[m] : base[d].validated # 0
  BY <1>3, <1>4, <1>7, <1>9, <1>11
<1>13. SameGraphs /\ SamePrograms(Programs \ {p}) /\ program'[p].phase = "running"
  BY <1>3, <1>6 DEF SameGraphs, SamePrograms
<1>14. ~ Busy(p) /\ UNCHANGED <<admissions, issue, candidates, promoted, handover>>
  BY <1>4, <1>5
<1>15. /\ MilestonesOK' /\ MilestonesGrow
       /\ AdmissionsOK' /\ ClaimsAreExclusive' /\ PhasesOK' /\ WorkIsAdmitted' /\ LegacyIsSerial'
       /\ HandedOver' /\ RunsOnEvidence' /\ IssuesHoldMilestones'
  BY <1>6, <1>8, <1>10, <1>12, <1>13, <1>14, LegacyRuns
<1>16. SendingOK' /\ OthersOK'
  BY <1>4, <1>15, AnsweredKeeps
<1>17. ProgramsOK'
  BY <1>3 DEF Inv, ProgramsOK
<1> QED
  BY <1>15, <1>16, <1>17 DEF Inv

LEMMA StartLegacyStep ==
  ASSUME Inv, NEW p \in Programs, StartLegacy(p)
  PROVE  Inv'
<1>1. /\ p \in Legacy /\ \A n \in Milestones : ~ Open(n)
      /\ Start(Graph(p)[1], 1) /\ program' = [program EXCEPT ![p].phase = "running"]
      /\ UNCHANGED <<admissions, queue, issue, candidates, promoted, plan, handover, receipts>>
  BY DEF StartLegacy, V2, integration, sending
<1>2. PICK m : m = Graph(p)[1]
  OBVIOUS
<1>3. m \in MilestonesOf[p] /\ Deps[m] = {} /\ m \in Milestones
  BY <1>2, GraphShown, ProgramOfShown DEF Inv
<1>4. ~ Busy(p)
  BY <1>1, ProgramOfShown DEF Busy
<1>5. PICK base : base = milestone
  OBVIOUS
<1>6. Enriched(base) /\ milestone' = [base EXCEPT ![m] = Started(@, 1)]
  BY <1>1, <1>2, <1>5, EnrichedAlready DEF Start
<1>7. 1 <= Len(milestone[m].outcomes) + 1
  <2>1. Len(milestone[m].outcomes) \in Nat
    BY <1>3, MilestoneShown DEF Inv
  <2> QED
    BY <2>1
<1>8. PICK r : r = [program[p] EXCEPT !.phase = "running"]
  OBVIOUS
<1>9. /\ r \in ProgramType /\ r.revision = program[p].revision /\ r.needs = program[p].needs
      /\ r.phase = "running"
  BY <1>8, ProgramShown DEF ProgramType, Phases
<1>10. program' = [program EXCEPT ![p] = r]
  BY <1>1, <1>8, ProgramShown
<1>11. ProgramsOK' /\ SameGraphs /\ SamePrograms(Programs \ {p}) /\ program'[p] = r
  BY <1>9, <1>10, ProgramReplaced
<1>12. /\ MilestonesOK' /\ MilestonesGrow
       /\ AdmissionsOK' /\ ClaimsAreExclusive' /\ PhasesOK' /\ WorkIsAdmitted' /\ LegacyIsSerial'
       /\ HandedOver' /\ RunsOnEvidence' /\ IssuesHoldMilestones'
  <2>1. /\ p \in Legacy /\ UNCHANGED <<admissions, issue, candidates, promoted, handover>>
        /\ \A d \in Deps[m] : base[d].validated # 0
        /\ program'[p].phase = "running"
    BY <1>1, <1>3, <1>9, <1>11
  <2>2. 1 \in Nat
    OBVIOUS
  <2> QED
    BY <1>3, <1>4, <1>6, <1>7, <1>11, <2>1, <2>2, LegacyRuns
<1>13. SendingOK' /\ OthersOK'
  BY <1>1, <1>12, SendingKept DEF Inv, OthersOK
<1> QED
  BY <1>11, <1>12, <1>13 DEF Inv

LEMMA RetryMilestoneStep ==
  ASSUME Inv, NEW p \in Programs, NEW m \in Milestones, RetryMilestone(p, m)
  PROVE  Inv'
<1>1. /\ program[p].phase = "running" /\ m \in Elements(Graph(p)) /\ ~ Busy(p)
      /\ milestone[m].outcomes # <<>> /\ Start(m, milestone[m].generation + 1)
      /\ UNCHANGED <<program, admissions, queue, issue, candidates, promoted, plan, handover, receipts>>
  BY DEF RetryMilestone, integration, sending
<1>2. p \in Legacy
  BY <1>1, RunningIsBusy DEF V2
<1>3. m \in MilestonesOf[p]
  BY <1>1, GraphShown DEF Inv
<1>4. PICK old : old = milestone[m]
  OBVIOUS
<1>5. Sound(old) /\ Len(old.outcomes) \in Nat
  BY <1>4, MilestoneShown DEF Inv
<1>6. old.generation \in Nat /\ old.generation <= Len(old.outcomes)
  BY <1>5 DEF Sound, MilestoneType
<1>7. PICK g \in Nat : g = old.generation + 1 /\ g <= Len(old.outcomes) + 1
  BY <1>5, <1>6
<1>8. PICK base : base = milestone
  OBVIOUS
<1>9. Enriched(base) /\ milestone' = [base EXCEPT ![m] = Started(@, g)]
  BY <1>1, <1>4, <1>7, <1>8, EnrichedAlready DEF Start
<1>10. /\ SameGraphs /\ SamePrograms(Programs \ {p}) /\ program'[p].phase = "running"
       /\ g <= Len(milestone[m].outcomes) + 1
       /\ UNCHANGED <<admissions, issue, candidates, promoted, handover>>
  BY <1>1, <1>4, <1>7 DEF SameGraphs, SamePrograms
<1>11. /\ MilestonesOK' /\ MilestonesGrow
       /\ AdmissionsOK' /\ ClaimsAreExclusive' /\ PhasesOK' /\ WorkIsAdmitted' /\ LegacyIsSerial'
       /\ HandedOver' /\ RunsOnEvidence' /\ IssuesHoldMilestones'
  BY <1>1, <1>2, <1>3, <1>9, <1>10, LegacyRuns
<1>12. SendingOK' /\ OthersOK' /\ ProgramsOK'
  BY <1>1, <1>11, SendingKept DEF Inv, OthersOK, ProgramsOK
<1> QED
  BY <1>11, <1>12 DEF Inv

-----------------------------------------------------------------------------
(* Claims.                                                                 *)

\* The beginning of a path.
LEMMA BelowShown ==
  ASSUME NEW T, NEW l \in Seq(T), NEW q \in Seq(T), Len(l) <= Len(q)
  PROVE  Below(l, q) <=> \A i \in 1..Len(l) : l[i] = q[i]
<1>1. PICK n \in Nat, k \in Nat : n = Len(l) /\ k = Len(q) /\ n <= k
  BY ElementsShown
<1>2. \A i \in 1..n : q[i] \in T
  BY <1>1, ElementsShown
<1>3. PICK t : t = SubSeq(q, 1, n)
  OBVIOUS
<1>4. /\ t \in Seq(T) /\ Len(t) = IF 1 <= n THEN n - 1 + 1 ELSE 0
      /\ \A i \in 1..n - 1 + 1 : t[i] = q[1 + i - 1]
  BY <1>2, <1>3, SubSeqProperties
<1>5. Len(t) = n /\ \A i \in 1..n : t[i] = q[i]
  BY <1>4
<1>6. t = l <=> \A i \in 1..n : l[i] = q[i]
  <2>1. t = l => \A i \in 1..n : l[i] = q[i]
    BY <1>5
  <2>2. ASSUME \A i \in 1..n : l[i] = q[i]
        PROVE  t = l
    <3>1. Len(t) = Len(l) /\ \A i \in 1..Len(t) : t[i] = l[i]
      BY <1>1, <1>5, <2>2
    <3> QED
      BY <1>4, <3>1, SeqEqual
  <2> QED
    BY <2>1, <2>2
<1> QED
  BY <1>1, <1>3, <1>6 DEF Below

\* Of two paths that lead to the same one, one leads to the other.
LEMMA BelowOneAnother ==
  ASSUME NEW l \in Paths, NEW r \in Paths, NEW q \in Paths, Below(l, q), Below(r, q)
  PROVE  Below(l, r) \/ Below(r, l)
<1> DEFINE T == UNION {Elements(path) : path \in Paths}
<1>1. \A path \in Paths : path \in Seq(T)
  <2> SUFFICES ASSUME NEW path \in Paths
               PROVE  path \in Seq(T)
    OBVIOUS
  <2>1. path \in Seq(Elements(path)) /\ Elements(path) \subseteq T
    BY PortfolioAssumption
  <2> QED
    BY <2>1, SeqMonotonic
<1> HIDE DEF T
<1>2. l \in Seq(T) /\ r \in Seq(T) /\ q \in Seq(T)
  BY <1>1
<1>3. Len(l) \in Nat /\ Len(r) \in Nat /\ Len(l) <= Len(q) /\ Len(r) <= Len(q)
  BY <1>2, ElementsShown DEF Below
<1>4. /\ \A i \in 1..Len(l) : l[i] = q[i]
      /\ \A i \in 1..Len(r) : r[i] = q[i]
  BY <1>2, <1>3, BelowShown
<1>5. CASE Len(l) <= Len(r)
  <2>1. \A i \in 1..Len(l) : l[i] = r[i]
    BY <1>3, <1>4, <1>5
  <2> QED
    BY <1>2, <1>5, <2>1, BelowShown
<1>6. CASE Len(r) <= Len(l)
  <2>1. \A i \in 1..Len(r) : r[i] = l[i]
    BY <1>3, <1>4, <1>6
  <2> QED
    BY <1>2, <1>6, <2>1, BelowShown
<1> QED
  BY <1>3, <1>5, <1>6

\* What portfolio.coordinate compares is enough to keep claims apart.
LEMMA ApartShown ==
  ASSUME NEW l \in Milestones, NEW r \in Milestones,
         \A x \in Surfaces[l], y \in Surfaces[r] : ~ SurfacesOverlap(x, y)
  PROVE  MayChange(l) \cap MayChange(r) = {}
<1>1. ASSUME NEW q \in Paths, q \in MayChange(l), q \in MayChange(r)
      PROVE  FALSE
  <2>1. PICK s \in Surfaces[l] : q = s.path \/ (s.kind = "subtree" /\ Below(s.path, q))
    BY <1>1 DEF MayChange
  <2>2. PICK t \in Surfaces[r] : q = t.path \/ (t.kind = "subtree" /\ Below(t.path, q))
    BY <1>1 DEF MayChange
  <2>3. s.path \in Paths /\ t.path \in Paths
    BY PortfolioAssumption
  <2>4. ~ SurfacesOverlap(s, t)
    OBVIOUS
  <2>5. CASE q = s.path
    BY <2>2, <2>4, <2>5 DEF SurfacesOverlap
  <2>6. CASE q = t.path
    BY <2>1, <2>4, <2>6 DEF SurfacesOverlap
  <2>7. CASE s.kind = "subtree" /\ Below(s.path, q) /\ t.kind = "subtree" /\ Below(t.path, q)
    <3>1. Below(s.path, t.path) \/ Below(t.path, s.path)
      BY <2>3, <2>7, BelowOneAnother
    <3> QED
      BY <2>4, <2>7, <3>1 DEF SurfacesOverlap
  <2> QED
    BY <2>1, <2>2, <2>5, <2>6, <2>7
<1> QED
  BY <1>1 DEF MayChange

\* The admission that is granted, as far as free capacity decides it.
LEMMA GrantedShown ==
  ASSUME Inv, NEW p \in Programs, NEW m \in Milestones, ExecutionSlots # {}, SkillSlots(m) # {},
         NEW a, a = Granted(p, m)
  PROVE  /\ a \in AdmissionType /\ a.program = p /\ a.milestone = m /\ a.target = Target(p)
         /\ \A b \in admissions : /\ b.slot # a.slot
                                  /\ Skill[b.milestone] = Skill[m] => b.skillSlot # a.skillSlot
<1> DEFINE ofSkill == {b \in admissions : Skill[b.milestone] = Skill[m]}
<1>1. PICK slot : slot = Lowest(ExecutionSlots)
  OBVIOUS
<1>2. PICK skillSlot : skillSlot = Lowest(SkillSlots(m))
  OBVIOUS
<1>3. slot \in 1..2 /\ \A b \in admissions : b.slot # slot
  <2>1. ExecutionSlots = (1..2) \ {b.slot : b \in admissions}
    BY DEF ExecutionSlots, FreeSlots
  <2>2. ExecutionSlots \subseteq Nat
    BY <2>1
  <2>3. slot \in ExecutionSlots
    BY <1>1, <2>2, LowestShown
  <2> QED
    BY <2>1, <2>3
<1>4. skillSlot \in Nat /\ \A b \in ofSkill : b.skillSlot # skillSlot
  <2>1. SkillSlots(m) = (1..Capacity[Skill[m]]) \ {b.skillSlot : b \in ofSkill}
    BY DEF SkillSlots, FreeSlots
  <2>2. Capacity[Skill[m]] \in Nat
    BY PortfolioAssumption
  <2>3. SkillSlots(m) \subseteq Nat
    BY <2>1, <2>2
  <2>4. skillSlot \in SkillSlots(m)
    BY <1>2, <2>3, LowestShown
  <2> QED
    BY <2>1, <2>3, <2>4
<1>5. PICK target : target = Target(p)
  OBVIOUS
<1>6. target \in Targets
  BY <1>5 DEF Inv, ProgramsOK, Target, Targets
<1>7. a = [program |-> p, target |-> target, milestone |-> m, lease |-> "live",
           slot |-> slot, skillSlot |-> skillSlot]
  BY <1>1, <1>2, <1>5 DEF Granted
<1>8. /\ a \in AdmissionType /\ a.program = p /\ a.milestone = m /\ a.target = target
      /\ a.slot = slot /\ a.skillSlot = skillSlot
  BY <1>3, <1>4, <1>6, <1>7 DEF AdmissionType
<1> QED
  BY <1>3, <1>4, <1>5, <1>8

LEMMA CoordinateStep ==
  ASSUME Inv, Coordinate
  PROVE  Inv'
<1> DEFINE fit == {i \in DOMAIN queue : Admissible(queue[i])}
           first == First(queue, Admissible)
<1>1. /\ first # Nothing
      /\ Start(NextNode(first), milestone[NextNode(first)].generation + 1)
      /\ program' = [program EXCEPT ![first].phase = "running"]
      /\ admissions' = admissions \cup {Granted(first, NextNode(first))}
      /\ UNCHANGED <<queue, issue, candidates, promoted, plan, handover, receipts>>
  BY DEF Coordinate, integration, sending
<1>2. first \in Programs /\ Admissible(first)
  <2>1. first = IF fit = {} THEN Nothing ELSE queue[Lowest(fit)]
    BY Zenon DEF First
  <2>2. DOMAIN queue = 1..Len(queue) /\ Len(queue) \in Nat
    BY ElementsShown DEF Inv, OthersOK
  <2>3. fit # {} /\ fit \subseteq Nat
    BY <1>1, <2>1, <2>2
  <2>4. Lowest(fit) \in fit
    <3> HIDE DEF fit
    <3> QED
      BY <2>3, LowestShown
  <2>5. queue[Lowest(fit)] \in Programs
    BY <2>2, <2>4, ElementsShown DEF Inv, OthersOK
  <2> QED
    BY <2>1, <2>3, <2>4, <2>5
<1>3. PICK p \in Programs : p = first
  BY <1>2
<1> HIDE DEF fit, first
<1>4. PICK m : m = NextNode(p)
  OBVIOUS
<1>5. PICK a : a = Granted(p, m)
  OBVIOUS
<1>6. /\ V2(p) /\ program[p].phase = "eligible" /\ NeedsMet(p) /\ m # Nothing /\ HasEvidence(m)
      /\ ExecutionSlots # {} /\ SkillSlots(m) # {} /\ Conflicts(p, m) = {}
  BY <1>2, <1>3, <1>4 DEF Admissible
<1>7. /\ m \in MilestonesOf[p] /\ m \in Milestones /\ milestone[m].status = "approved" /\ ProgramOf[m] = p
  BY <1>4, <1>6, NextNodeShown, ProgramOfShown DEF Inv
<1>8. /\ Start(m, milestone[m].generation + 1)
      /\ program' = [program EXCEPT ![p].phase = "running"]
      /\ admissions' = admissions \cup {a}
  BY <1>1, <1>3, <1>4, <1>5
<1>9. /\ a \in AdmissionType /\ a.program = p /\ a.milestone = m /\ a.target = Target(p)
      /\ \A b \in admissions : /\ b.slot # a.slot
                               /\ Skill[b.milestone] = Skill[m] => b.skillSlot # a.skillSlot
  BY <1>5, <1>6, <1>7, GrantedShown
<1>10. ~ Open(m)
  BY <1>7, MilestoneShown DEF Inv
<1>11. p \notin Fenceable => ~ Busy(p) /\ \A b \in admissions : b.program # p
  <2>1. p \notin Fenceable => ~ Busy(p)
    BY <1>6 DEF Inv, WorkIsAdmitted
  <2> QED
    BY <2>1, AdmissionShown DEF Busy
<1>12. PICK r : r = [program[p] EXCEPT !.phase = "running"]
  OBVIOUS
<1>13. /\ r \in ProgramType /\ r.revision = program[p].revision /\ r.needs = program[p].needs
       /\ r.phase = "running"
  BY <1>12, ProgramShown DEF ProgramType, Phases
<1>14. program' = [program EXCEPT ![p] = r]
  BY <1>8, <1>12, ProgramShown
<1>15. ProgramsOK' /\ SameGraphs /\ SamePrograms(Programs \ {p}) /\ program'[p] = r
  BY <1>13, <1>14, ProgramReplaced
<1>16. PICK g \in Nat : g = milestone[m].generation + 1 /\ g <= Len(milestone[m].outcomes) + 1
  <2>1. PICK old : old = milestone[m]
    OBVIOUS
  <2>2. Sound(old) /\ Len(old.outcomes) \in Nat
    BY <1>7, <2>1, MilestoneShown DEF Inv
  <2>3. old.generation \in Nat /\ old.generation <= Len(old.outcomes)
    BY <2>2 DEF Sound, MilestoneType
  <2>4. PICK g \in Nat : g = old.generation + 1 /\ g <= Len(old.outcomes) + 1
    BY <2>2, <2>3
  <2> QED
    BY <2>1, <2>4
<1>17. /\ MilestonesOK' /\ MilestonesGrow
       /\ \A n \in Milestones : Open(n)' <=> Open(n) \/ n = m
       /\ \A n \in Milestones : milestone'[n].validated = milestone[n].validated
       /\ \A n \in Milestones : n # m => /\ milestone'[n].outcomes = milestone[n].outcomes
                                         /\ milestone'[n].status = milestone[n].status
  <2>1. PICK base : base = milestone
    OBVIOUS
  <2>2. Enriched(base) /\ milestone' = [base EXCEPT ![m] = Started(@, g)]
    BY <1>8, <1>16, <2>1, EnrichedAlready DEF Start
  <2>3. milestone[m].status # "running"
    BY <1>7
  <2>4. /\ MilestonesOK' /\ MilestonesGrow
        /\ \A n \in Milestones : Open(n)' <=> Open(n) \/ n = m
        /\ \A n \in Milestones : milestone'[n].validated = base[n].validated
        /\ \A n \in Milestones : n # m => /\ milestone'[n].outcomes = milestone[n].outcomes
                                          /\ milestone'[n].status = milestone[n].status
    BY <1>7, <1>16, <2>2, <2>3, StartedMilestone
  <2> QED
    BY <2>1, <2>4
<1>18. \A b \in admissions : b.milestone # m /\ b.milestone \in Milestones /\ Open(b.milestone)'
  BY <1>10, <1>17, AdmissionShown
<1>19. AdmissionsOK'
  <2>1. Open(m)'
    BY <1>7, <1>17
  <2>2. ASSUME NEW b \in admissions'
        PROVE  b \in AdmissionType /\ V2(b.program) /\ b.milestone \in MilestonesOf[b.program] /\ Open(b.milestone)'
    BY <1>6, <1>7, <1>8, <1>9, <1>18, <2>1, AdmissionShown
  <2>3. ASSUME NEW b \in admissions', NEW d \in admissions', b.milestone = d.milestone
        PROVE  b = d
    BY <1>8, <1>9, <1>18, <2>3 DEF Inv, AdmissionsOK
  <2> QED
    BY <2>2, <2>3 DEF AdmissionsOK
<1>20. ASSUME NEW b \in admissions
       PROVE  /\ b.slot # a.slot
              /\ b.program = a.program => a.program \in Fenceable
              /\ Resources[b.milestone] \cap Resources[a.milestone] = {}
              /\ b.target = a.target => MayChange(b.milestone) \cap MayChange(a.milestone) = {}
              /\ Skill[b.milestone] = Skill[a.milestone] => b.skillSlot # a.skillSlot
  <2>1. ~ Collides(b, p, m)
    BY <1>6 DEF Conflicts
  <2>2. b.milestone \in Milestones
    BY <1>18
  <2>3. Resources[b.milestone] \cap Resources[m] = {}
    BY <2>1 DEF Collides
  <2>4. ASSUME b.target = a.target
        PROVE  MayChange(b.milestone) \cap MayChange(m) = {}
    <3>1. \A x \in Surfaces[b.milestone], y \in Surfaces[m] : ~ SurfacesOverlap(x, y)
      BY <1>9, <2>1, <2>4 DEF Collides
    <3> QED
      BY <1>7, <2>2, <3>1, ApartShown
  <2> QED
    BY <1>9, <1>11, <2>3, <2>4
<1>21. ClaimsAreExclusive'
  <2> SUFFICES ASSUME NEW b \in admissions', NEW d \in admissions', b # d
               PROVE  /\ b.slot # d.slot
                      /\ b.program = d.program => b.program \in Fenceable
                      /\ Resources[b.milestone] \cap Resources[d.milestone] = {}
                      /\ b.target = d.target => MayChange(b.milestone) \cap MayChange(d.milestone) = {}
                      /\ Skill[b.milestone] = Skill[d.milestone] => b.skillSlot # d.skillSlot
    BY DEF ClaimsAreExclusive
  <2>1. CASE b \in admissions /\ d \in admissions
    BY <2>1 DEF Inv, ClaimsAreExclusive
  <2>2. CASE b \in admissions /\ d = a
    BY <1>20, <2>2
  <2>3. CASE b = a /\ d \in admissions
    <3>1. /\ d.slot # a.slot
          /\ d.program = a.program => a.program \in Fenceable
          /\ Resources[d.milestone] \cap Resources[a.milestone] = {}
          /\ d.target = a.target => MayChange(d.milestone) \cap MayChange(a.milestone) = {}
          /\ Skill[d.milestone] = Skill[a.milestone] => d.skillSlot # a.skillSlot
      BY <1>20, <2>3
    <3> QED
      BY <2>3, <3>1
  <2> QED
    BY <1>8, <2>1, <2>2, <2>3
<1>22. \A q \in Programs : q # p => /\ program'[q] = program[q]
                                    /\ \A n \in MilestonesOf[q] : n # m /\ (Open(n)' <=> Open(n))
  BY <1>7, <1>15, <1>17, ProgramOfShown DEF SamePrograms
<1>23. \A q \in Programs : q # p => (Busy(q)' <=> Busy(q))
  BY <1>22 DEF Busy
<1>24. PhasesOK'
  <2>1. ASSUME NEW q \in Programs, V2(q), q # p
        PROVE  /\ program'[q].phase = "running" => \E b \in admissions' : b.program = q
               /\ program'[q].phase = "parked" => program'[q].resume \in {"eligible", "integration_pending"}
    BY <2>1, <1>8, <1>22 DEF Inv, PhasesOK
  <2>2. program'[p].phase = "running" /\ \E b \in admissions' : b.program = p
    BY <1>8, <1>9, <1>13, <1>15
  <2> QED
    BY <2>1, <2>2 DEF PhasesOK
<1>25. WorkIsAdmitted'
  <2> SUFFICES ASSUME NEW q \in Programs, V2(q), q \notin Fenceable
               PROVE  /\ \A n \in MilestonesOf[q] : Open(n)' => \E b \in admissions' : b.milestone = n
                      /\ \A b, d \in admissions' : b.program = q /\ d.program = q => b = d
                      /\ program'[q].phase \in {"approved", "eligible", "parked"} => ~ Busy(q)'
                      /\ OneGraph(q) /\ program'[q].phase \in {"integration_pending", "completed"} => ~ Busy(q)'
    BY DEF WorkIsAdmitted
  <2>1. /\ \A n \in MilestonesOf[q] : Open(n) => \E b \in admissions : b.milestone = n
        /\ \A b, d \in admissions : b.program = q /\ d.program = q => b = d
        /\ program[q].phase \in {"approved", "eligible", "parked"} => ~ Busy(q)
        /\ OneGraph(q) /\ program[q].phase \in {"integration_pending", "completed"} => ~ Busy(q)
    BY DEF Inv, WorkIsAdmitted
  <2>2. CASE q = p
    <3>1. \A n \in MilestonesOf[q] : Open(n)' => \E b \in admissions' : b.milestone = n
      BY <1>8, <1>9, <1>11, <1>17, <2>2, ProgramOfShown DEF Busy
    <3>2. \A b, d \in admissions' : b.program = q /\ d.program = q => b = d
      BY <1>8, <1>11, <2>2
    <3>3. program'[q].phase = "running"
      BY <1>13, <1>15, <2>2
    <3> QED
      BY <3>1, <3>2, <3>3
  <2>3. CASE q # p
    <3>1. \A n \in MilestonesOf[q] : Open(n)' => \E b \in admissions' : b.milestone = n
      BY <1>8, <1>22, <2>1, <2>3
    <3>2. \A b, d \in admissions' : b.program = q /\ d.program = q => b = d
      BY <1>8, <1>9, <2>1, <2>3
    <3> QED
      BY <1>22, <1>23, <2>1, <2>3, <3>1, <3>2
  <2> QED
    BY <2>2, <2>3
<1>26. LegacyIsSerial'
  <2>1. \A q \in Legacy : q \in Programs /\ q # p
    BY <1>6, PortfolioAssumption DEF V2
  <2> QED
    BY <2>1, <1>22, <1>23 DEF Inv, LegacyIsSerial
<1>27. HandedOver'
  <2>1. ~ Past(p)
    BY <1>6 DEF Past
  <2> QED
    BY <1>1, <1>15, <2>1, HandoverKept
<1>28. RunsOnEvidence'
  <2>1. FirstRun(m)
    <3>1. \A d \in Deps[m] : milestone'[d].validated # 0
      <4>1. Deps[m] \subseteq Milestones
        BY <1>7, PortfolioAssumption
      <4> QED
        BY <1>6, <1>17, <4>1 DEF HasEvidence
    <3>2. ASSUME NEW n \in program[p].needs
          PROVE  n \in {<<c.program, c.revision>> : c \in promoted}
      <4>1. PICK c \in promoted : c.program = n[1] /\ c.revision = n[2]
        BY <1>6 DEF NeedsMet
      <4>2. n = <<n[1], n[2]>>
        BY ProgramShown DEF ProgramType
      <4> QED
        BY <4>1, <4>2
    <3> QED
      BY <1>7, <3>1, <3>2 DEF FirstRun
  <2>2. \A n \in Milestones : milestone'[n].outcomes # <<>> => milestone[n].outcomes # <<>> \/ FirstRun(n)
    BY <1>17, <2>1
  <2>3. promoted \subseteq promoted' /\ \A q \in Programs : OneGraph(q) => program'[q].needs = program[q].needs
    BY <1>1, <1>15 DEF SameGraphs
  <2> QED
    BY <1>17, <2>2, <2>3, EvidenceKept
<1>29. IssuesHoldMilestones'
  BY <1>1, <1>7, <1>17, IssuesKept
<1>30. SendingOK' /\ OthersOK'
  BY <1>1, <1>17, SendingKept DEF Inv, OthersOK
<1> QED
  BY <1>15, <1>17, <1>19, <1>21, <1>24, <1>25, <1>26, <1>27, <1>28, <1>29, <1>30 DEF Inv

-----------------------------------------------------------------------------
(* The invariant holds.                                                    *)

LEMMA InitHolds ==
  ASSUME Init
  PROVE  Inv
<1>1. /\ milestone = [m \in Milestones |-> Fresh] /\ admissions = {} /\ queue = <<>>
      /\ issue = [i \in Issues |-> "none"] /\ candidates = {} /\ promoted = {}
      /\ plan = [s \in Supervisors |-> Nothing] /\ handover = Nothing /\ receipts = {}
  BY DEF Init
<1>2. /\ DOMAIN program = Programs
      /\ \A p \in Programs : program[p] = [phase |-> "approved", resume |-> Nothing, revision |-> 1,
                                           needs |-> CrossDeps[p] \X {1}, latest |-> Nothing]
      /\ program = [p \in Programs |-> program[p]]
  BY DEF Init
<1>3. \A p \in Programs : program[p] \in ProgramType /\ program[p].phase = "approved"
  <2> SUFFICES ASSUME NEW p \in Programs
               PROVE  program[p] \in ProgramType /\ program[p].phase = "approved"
    OBVIOUS
  <2>1. CrossDeps[p] \X {1} \in SUBSET (Programs \X Nat)
    BY PortfolioAssumption
  <2>2. PICK needs : needs = CrossDeps[p] \X {1}
    OBVIOUS
  <2> QED
    BY <1>2, <2>1, <2>2 DEF ProgramType, Phases
<1>4. Sound(Fresh) /\ ~ Running(Fresh) /\ Fresh.outcomes = <<>> /\ Fresh.validated = 0
  <2>1. <<>> \in Seq(Results \cup {"open"}) /\ Len(<<>>) = 0
    BY EmptySeq
  <2>2. Elements(<<>>) = {}
    BY DEF Elements
  <2>3. PICK r : r = Fresh
    OBVIOUS
  <2>4. /\ r \in MilestoneType /\ r.status = "approved" /\ r.outcomes = <<>> /\ r.validated = 0
        /\ r.generation = 0 /\ r.packet = 0 /\ r.pauseReason = Nothing
    BY <2>1, <2>3 DEF Fresh, MilestoneType, Statuses
  <2>5. ~ Running(r)
    BY <2>2, <2>4 DEF Running
  <2>6. Sound(r)
    BY <2>1, <2>4, <2>5 DEF Sound
  <2> QED
    BY <2>3, <2>4, <2>5, <2>6
<1>5. \A m \in Milestones : milestone[m] = Fresh
  BY <1>1
<1>6. MilestonesOK
  <2>1. DOMAIN milestone = Milestones /\ milestone = [m \in Milestones |-> milestone[m]]
    BY <1>1
  <2> QED
    BY <1>4, <1>5, <2>1 DEF MilestonesOK
<1>7. \A m \in Milestones : ~ Open(m)
  BY <1>4, <1>5 DEF Open, Running
<1>8. \A p \in Programs : ~ Busy(p)
  BY <1>7, ProgramOfShown DEF Busy
<1>9. ProgramsOK
  <2>1. \A p \in Programs : program[p].revision = 1 /\ program[p].needs = CrossDeps[p] \X {1}
    BY <1>2
  <2>2. \A p \in Programs : 1 \in DOMAIN Nodes[p]
    <3> SUFFICES ASSUME NEW p \in Programs
                 PROVE  1 \in DOMAIN Nodes[p]
      OBVIOUS
    <3>1. Nodes[p] \in Seq(Seq(Milestones)) /\ Len(Nodes[p]) > 0
      BY PortfolioAssumption
    <3>2. DOMAIN Nodes[p] = 1..Len(Nodes[p]) /\ Len(Nodes[p]) \in Nat
      BY <3>1, ElementsShown
    <3> QED
      BY <3>1, <3>2
  <2>3. \A p \in Programs : \A n \in program[p].needs : n[2] \in 1..program[n[1]].revision
    BY <2>1, PortfolioAssumption
  <2>4. \A p \in Legacy : program[p].needs = {}
    BY <2>1, PortfolioAssumption
  <2>5. program \in [Programs -> ProgramType]
    BY <1>2, <1>3
  <2> QED
    BY <2>1, <2>2, <2>3, <2>4, <2>5 DEF ProgramsOK
<1>10. SendingOK
  BY <1>1 DEF SendingOK
<1>11. OthersOK
  BY <1>1, EmptySeq DEF OthersOK
<1>12. AdmissionsOK /\ ClaimsAreExclusive
  BY <1>1 DEF AdmissionsOK, ClaimsAreExclusive
<1>13. PhasesOK
  BY <1>3 DEF PhasesOK
<1>14. WorkIsAdmitted
  BY <1>1, <1>7, <1>8, ProgramOfShown DEF WorkIsAdmitted
<1>15. LegacyIsSerial
  <2>1. \A p \in Legacy : p \in Programs
    BY PortfolioAssumption
  <2> QED
    BY <1>3, <1>7, <1>8, <2>1, ProgramOfShown DEF LegacyIsSerial
<1>16. HandedOver
  BY <1>1 DEF HandedOver
<1>17. RunsOnEvidence
  BY <1>4, <1>5 DEF RunsOnEvidence
<1>18. IssuesHoldMilestones
  BY <1>1 DEF IssuesHoldMilestones, Unresolved
<1> QED
  BY <1>6, <1>9, <1>10, <1>11, <1>12, <1>13, <1>14, <1>15, <1>16, <1>17, <1>18 DEF Inv

LEMMA NextHolds ==
  ASSUME Inv, [Next]_vars
  PROVE  Inv'
<1>1. CASE UNCHANGED vars
  BY <1>1, StutterStep
<1>2. ASSUME NEW p \in Programs,
             RequestExecution(p) \/ StartLegacy(p) \/ ApproveGraph(p) \/ Park(p) \/ Resume(p)
      PROVE  Inv'
  BY <1>2, RequestExecutionStep, StartLegacyStep, ApproveGraphStep, ParkStep, ResumeStep
<1>3. ASSUME NEW p \in Programs, NEW m \in Milestones, RetryMilestone(p, m)
      PROVE  Inv'
  BY <1>3, RetryMilestoneStep
<1>4. ASSUME NEW m \in Milestones, NEW result \in Results, RunEnds(m, result)
      PROVE  Inv'
  BY <1>4, RunEndsStep
<1>5. CASE Admission
  <2>1. CASE Coordinate
    BY <2>1, CoordinateStep
  <2>2. ASSUME NEW a \in admissions, LeaseRunsOut(a) \/ RenewLease(a) \/ GiveUpAdmission(a)
        PROVE  Inv'
    <3>1. CASE LeaseRunsOut(a)
      BY <3>1, ReletStep DEF LeaseRunsOut
    <3>2. CASE RenewLease(a)
      BY <3>2, ReletStep DEF RenewLease
    <3>3. CASE GiveUpAdmission(a)
      BY <3>3, GiveUpAdmissionStep
    <3> QED
      BY <2>2, <3>1, <3>2, <3>3
  <2> QED
    BY <1>5, <2>1, <2>2 DEF Admission
<1>6. ASSUME NEW s \in Supervisors,
             PrepareAdvance(s) \/ RejectAdvance(s) \/ RecordEvidence(s) \/ StartNext(s) \/ FinishProgram(s)
      PROVE  Inv'
  BY <1>6, PrepareAdvanceStep, RejectAdvanceStep, RecordEvidenceStep, StartNextStep, FinishProgramStep
<1>7. CASE PrepareHandover \/ QueueCandidate
  BY <1>7, PrepareHandoverStep, QueueCandidateStep
<1>8. ASSUME NEW c \in candidates, Promote(c)
      PROVE  Inv'
  BY <1>8, PromoteStep
<1>9. ASSUME NEW i \in Issues, RaiseIssue(i)
      PROVE  Inv'
  BY <1>9, RaiseIssueStep
<1>10. ASSUME NEW i \in Issues,
              NEW action \in {"record_only", "resume_unchanged_contract", "requires_graph_revision"},
              ResolveIssue(i, action)
       PROVE  Inv'
  BY <1>10, ResolveIssueStep
<1> QED
  BY <1>1, <1>2, <1>3, <1>4, <1>5, <1>6, <1>7, <1>8, <1>9, <1>10 DEF Next

LEMMA InvHolds == Spec => []Inv
<1>1. Init => Inv
  BY InitHolds
<1>2. Inv /\ [Next]_vars => Inv'
  BY NextHolds
<1> QED
  BY <1>1, <1>2, PTL DEF Spec

-----------------------------------------------------------------------------
(* What it implies.                                                        *)

LEMMA TypeShown ==
  ASSUME Inv
  PROVE  TypeOK
<1>1. ASSUME NEW p \in Programs
      PROVE  /\ program[p].phase \in Phases /\ program[p].resume \in Phases \cup {Nothing}
             /\ program[p].revision \in DOMAIN Nodes[p]
             /\ \A n \in program[p].needs : n[2] \in 1..program[n[1]].revision
             /\ program[p].latest \in Results \cup {Nothing}
  BY ProgramShown DEF Inv, ProgramsOK, ProgramType
<1>2. ASSUME NEW m \in Milestones
      PROVE  /\ milestone[m].status \in Statuses
             /\ milestone[m].outcomes \in Seq(Results \cup {"open"})
             /\ milestone[m].generation \in 0..Len(milestone[m].outcomes)
             /\ {milestone[m].packet, milestone[m].validated} \subseteq 0..Len(milestone[m].outcomes)
             /\ milestone[m].pauseReason \in Issues \cup {Nothing}
             /\ Open(m) <=> milestone[m].status = "running"
  <2>1. PICK r : r = milestone[m]
    OBVIOUS
  <2>2. Sound(r) /\ r \in MilestoneType /\ Len(r.outcomes) \in Nat /\ (Open(m) <=> r.status = "running")
    BY <2>1, MilestoneShown DEF Inv
  <2>3. /\ r.generation \in Nat /\ r.packet \in Nat /\ r.validated \in Nat
        /\ r.generation <= Len(r.outcomes) /\ r.packet <= Len(r.outcomes)
        /\ r.validated <= Len(r.outcomes)
    BY <2>2 DEF Sound, MilestoneType
  <2>4. /\ r.generation \in 0..Len(r.outcomes) /\ r.packet \in 0..Len(r.outcomes)
        /\ r.validated \in 0..Len(r.outcomes)
    BY <2>2, <2>3
  <2>5. /\ r.status \in Statuses /\ r.outcomes \in Seq(Results \cup {"open"})
        /\ r.pauseReason \in Issues \cup {Nothing}
    BY <2>2 DEF MilestoneType
  <2> QED
    BY <2>1, <2>2, <2>4, <2>5
<1>3. \A a \in admissions : a.milestone \in Milestones /\ a.slot \in 1..2
  BY DEF Inv, AdmissionsOK, AdmissionType
<1>4. /\ queue \in Seq(Programs)
      /\ issue \in [Issues -> {"none", "open", "requires_graph_revision", "resolved"}]
      /\ promoted \subseteq candidates /\ candidates \subseteq receipts
  BY DEF Inv, OthersOK
<1> QED
  BY <1>1, <1>2, <1>3, <1>4 DEF TypeOK, Statuses

LEMMA WorkShown ==
  ASSUME Inv
  PROVE  AdmissionsMatchWork
<1> SUFFICES ASSUME NEW p \in Programs, V2(p), p \notin Fenceable, OneGraph(p)
             PROVE  LET own == {a \in admissions : a.program = p}
                        open == {m \in MilestonesOf[p] : Open(m)}
                    IN /\ program[p].phase = "running" <=> own # {}
                       /\ open = {a.milestone : a \in own}
                       /\ Cardinality(own) <= 1
  BY DEF AdmissionsMatchWork
<1> DEFINE own == {a \in admissions : a.program = p}
           open == {m \in MilestonesOf[p] : Open(m)}
<1>1. /\ \A m \in MilestonesOf[p] : Open(m) => \E a \in admissions : a.milestone = m
      /\ \A a, b \in admissions : a.program = p /\ b.program = p => a = b
      /\ program[p].phase \in {"approved", "eligible", "parked", "integration_pending", "completed"} => ~ Busy(p)
  BY DEF Inv, WorkIsAdmitted
<1>2. program[p].phase = "running" => own # {}
  BY DEF Inv, PhasesOK
<1>3. own # {} => program[p].phase = "running"
  <2>1. own # {} => Busy(p)
    BY AdmissionShown DEF Busy
  <2>2. program[p].phase \in Phases
    BY ProgramShown DEF ProgramType
  <2> QED
    BY <1>1, <2>1, <2>2 DEF Phases
<1>4. open \subseteq {a.milestone : a \in own}
  BY <1>1, AdmissionShown, ProgramOfShown
<1>5. {a.milestone : a \in own} \subseteq open
  BY AdmissionShown
<1>6. Cardinality(own) <= 1
  <2>1. CASE own = {}
    BY <2>1, FS_EmptySet
  <2>2. CASE own # {}
    <3>1. PICK a \in own : TRUE
      BY <2>2
    <3>2. own = {a}
      BY <1>1, <3>1
    <3>3. Cardinality({a}) = 1
      BY FS_Singleton
    <3> HIDE DEF own
    <3> QED
      BY <3>2, <3>3
  <2> QED
    BY <2>1, <2>2
<1> QED
  BY <1>2, <1>3, <1>4, <1>5, <1>6

LEMMA QuietShown ==
  ASSUME Inv
  PROVE  QuietPrograms
<1> SUFFICES ASSUME NEW p \in Programs,
                    program[p].phase \in {"approved", "parked", "integration_pending", "completed"},
                    p \notin Fenceable, V2(p) => OneGraph(p)
             PROVE  ~ Busy(p)
  BY DEF QuietPrograms
<1>1. CASE V2(p)
  BY <1>1 DEF Inv, WorkIsAdmitted
<1>2. CASE ~ V2(p)
  BY <1>2 DEF V2, Inv, LegacyIsSerial
<1> QED
  BY <1>1, <1>2

-----------------------------------------------------------------------------
(* The theorems.                                                           *)

\* portfolio.coordinate, program.advance, issue.raise and decision.park, in any
\* order: every record stays what it should be, the capacity a program holds is
\* for exactly the run it has open, and a milestone that an unresolved issue
\* names stays paused.
THEOREM PortfolioInvHolds == Spec => []PortfolioInv
<1>1. Inv => PortfolioInv
  BY TypeShown, WorkShown DEF Inv, PortfolioInv
<1> QED
  BY <1>1, InvHolds, PTL

\* portfolio.coordinate compares what a program claims with the admissions
\* there are: no two of them share a slot, a resource or a path, whatever has
\* become of their leases.
THEOREM ClaimsAreExclusiveHolds == Spec => []ClaimsAreExclusive
<1>1. Inv => ClaimsAreExclusive
  BY DEF Inv
<1> QED
  BY <1>1, InvHolds, PTL

\* decision.park, program.advance and the promotion of a candidate leave no run
\* open, and no call that a supervisor prepared before them starts one.
THEOREM QuietProgramsHolds == Spec => []QuietPrograms
<1>1. Inv => QuietPrograms
  BY QuietShown
<1> QED
  BY <1>1, InvHolds, PTL

\* What program.advance and portfolio.coordinate check when they are decided
\* holds from then on: nothing ran before its dependencies had an outcome to be
\* merged, and before what its program needs was promoted.
THEOREM RunsOnEvidenceHolds == Spec => []RunsOnEvidence
<1>1. Inv => RunsOnEvidence
  BY DEF Inv
<1> QED
  BY <1>1, InvHolds, PTL

=============================================================================
