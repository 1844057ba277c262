--------------------------- MODULE AdvisorProofs ---------------------------
(***************************************************************************)
(* Proofs about Advisor, for any subjects, cases, corpora, policies,       *)
(* supervisors and limits.                                                 *)
(***************************************************************************)
EXTENDS Advisor, SequenceTheorems, TLAPS

-----------------------------------------------------------------------------
(* The types, one part for each group of variables.                        *)

EvidenceTypes ==
  /\ subjects \subseteq Subjects /\ cases \subseteq Cases
  /\ corpus \in 0..Len(CasesOf) /\ contaminated \subseteq 1..corpus
  /\ events \in 0..MaxEvents

AnswerTypes ==
  /\ invocation \in [Invocations -> InvocationRecords]
  /\ queue \in Seq(Invocations) /\ IsInjective(queue)
  /\ \A i \in Invocations :
       /\ invocation[i].expired => invocation[i].status = "leased"
       /\ invocation[i].answer # "none" <=> invocation[i].status = "succeeded"
       /\ i \in ToSet(queue) <=> About[i] \in Cases /\ invocation[i].status # "none"

PolicyTypes ==
  /\ approved \in Seq(Policies) /\ IsInjective(approved)
  /\ policy \in [Policies -> PolicyRecords]
  /\ ended \subseteq Policies \cup Ballots /\ incidents \subseteq Policies
  /\ \A p \in Policies :
       /\ policy[p].status = "none" <=> p \notin ToSet(approved)
       /\ policy[p].corpus <= corpus
       /\ policy[p].status = "active" => policy[p].ballot # None

ReportTypes ==
  /\ report \in [Policies -> Reports]
  /\ \A p \in Policies : report[p].queued <= Len(queue)

\* What a policy and its promotion packet say of each other.
BallotTypes ==
  /\ ballot \in [Ballots -> BallotRecords]
  /\ \A p \in Policies : policy[p].ballot # None =>
       ballot[policy[p].ballot].status = "resolved" /\ ballot[policy[p].ballot].policy = p
  /\ \A b \in Ballots :
       /\ ballot[b].status # "none" => ballot[b].policy \in Policies /\ ballot[b].report.eligible
       /\ ballot[b].status = "resolved" => policy[ballot[b].policy].ballot = b

DecisionTypes ==
  /\ packet \in [Packets -> {"open", "settled"} \cup Policies]
  /\ audit \in [Packets -> {"none", "pending", "overdue", "fine", "serious"}]
  /\ \A d \in Packets : audit[d] # "none" => packet[d] \in Policies

LEMMA TypeParts ==
  TypeOK <=> /\ EvidenceTypes /\ AnswerTypes /\ PolicyTypes
             /\ ReportTypes /\ BallotTypes /\ DecisionTypes
<1>1. TypeOK => EvidenceTypes /\ AnswerTypes /\ DecisionTypes
  BY DEF TypeOK, EvidenceTypes, AnswerTypes, DecisionTypes
<1>2. TypeOK => PolicyTypes /\ ReportTypes
  BY DEF TypeOK, PolicyTypes, ReportTypes
<1>3. TypeOK => BallotTypes
  BY DEF TypeOK, BallotTypes
<1>4. EvidenceTypes /\ AnswerTypes /\ PolicyTypes /\ ReportTypes /\ BallotTypes /\ DecisionTypes
        => TypeOK
  BY DEF TypeOK, EvidenceTypes, AnswerTypes, PolicyTypes, ReportTypes, BallotTypes, DecisionTypes
<1> QED
  BY <1>1, <1>2, <1>3, <1>4

LEMMA TypesAfter ==
  ASSUME EvidenceTypes', AnswerTypes', PolicyTypes', ReportTypes', BallotTypes', DecisionTypes'
  PROVE  TypeOK'
BY DEF TypeOK, EvidenceTypes, AnswerTypes, PolicyTypes, ReportTypes, BallotTypes, DecisionTypes

-----------------------------------------------------------------------------
(* The inductive invariant.                                                *)

\* What the report r has seen are answers of the subject that earn the policy p authority.
Grounded(p, r) ==
  /\ policy[p].status # "none" /\ r.answered \subseteq Answered
  /\ \A k \in Nat : policy[p].corpus = k => Passes(SubjectOf[p], HoldoutOf[k], r.answered)

\* Only a promotion gives a policy its packet.
UnpromotedOK ==
  \A p \in Policies : policy[p].status \in {"none", "shadow"} => policy[p].ballot = None

\* A report is eligible, and a promotion packet compiled, because of answers there are.
EarnedOK ==
  \A p \in Policies, r \in Reports :
    /\ report[p] = r /\ r.eligible => Grounded(p, r)
    /\ \A b \in Ballots :
         ballot[b].status # "none" /\ ballot[b].policy = p /\ ballot[b].report = r => Grounded(p, r)

\* Nothing is known against a policy with authority.
ActiveOK ==
  \A p \in Active : policy[p].corpus \notin contaminated /\ p \notin incidents

\* Only policies there are resolve packets, and what was found serious is an incident.
FindingsOK ==
  \A d \in Packets :
    /\ packet[d] \in Policies => policy[packet[d]].status # "none"
    /\ audit[d] = "serious" => packet[d] \in incidents

Inv == TypeOK /\ UnpromotedOK /\ EarnedOK /\ ActiveOK /\ FindingsOK

-----------------------------------------------------------------------------
(* What is asked of a step that leaves the policies alone or retires them. *)

\* Policies are suspended or superseded, or left as they are.
Retires ==
  /\ policy' \in [Policies -> PolicyRecords]
  /\ \A p \in Policies :
       \/ policy'[p] = policy[p]
       \/ /\ policy[p].status # "none" /\ policy'[p].status \in {"suspended", "superseded"}
          /\ policy'[p].corpus = policy[p].corpus /\ policy'[p].ballot = policy[p].ballot

\* Answers stay, and so does what was approved; nothing that is asked later is answered yet.
KeepsAnswers ==
  /\ \A i \in Answered : invocation'[i] = invocation[i]
  /\ queue' = queue \/ \E i \in Invocations \ Answered : queue' = Append(queue, i)
KeepsApproved ==
  \A p \in Policies : policy[p].status # "none" =>
    policy'[p].status # "none" /\ policy'[p].corpus = policy[p].corpus

\* Of some answers the same ones count.
LEMMA CountsStays ==
  ASSUME Inv, KeepsAnswers, NEW given, given \subseteq Answered, NEW i
  PROVE  Counts(i, given)' <=> Counts(i, given)
<1>1. queue \in Seq(Invocations)
  BY TypeParts DEF Inv, AnswerTypes
<1>2. CASE queue' = queue
  BY <1>2 DEF Counts
<1>3. ASSUME NEW j \in Invocations \ Answered, queue' = Append(queue, j)
      PROVE  Counts(i, given)' <=> Counts(i, given)
  <2>1. PICK n \in Nat : n = Len(queue)
    BY <1>1, LenProperties
  <2>2. /\ DOMAIN queue = 1..n /\ DOMAIN queue' = 1..(n + 1) /\ Len(queue') = n + 1
        /\ queue'[n + 1] = j /\ \A k \in 1..n : queue'[k] = queue[k]
    BY <1>1, <1>3, <2>1, AppendProperties, LenProperties
  <2>3. j \notin given
    BY <1>3
  <2>4. ASSUME NEW m \in 1..n
        PROVE  (\A k \in m + 1 .. n + 1 :
                  ~(queue'[k] \in given /\ Asked[queue'[k]] = Asked[i] /\ About[queue'[k]] = About[i]))
               <=> (\A k \in m + 1 .. n :
                      ~(queue[k] \in given /\ Asked[queue[k]] = Asked[i] /\ About[queue[k]] = About[i]))
    <3>1. m + 1 .. n + 1 = (m + 1 .. n) \cup {n + 1} /\ m + 1 .. n \subseteq 1..n
      BY <2>1, <2>4
    <3> QED
      BY <2>2, <2>3, <3>1
  <2>5. Counts(i, given) <=>
          \E m \in 1..n : /\ queue[m] = i /\ i \in given
                          /\ \A k \in m + 1 .. n : ~(/\ queue[k] \in given
                               /\ Asked[queue[k]] = Asked[i] /\ About[queue[k]] = About[i])
    BY <2>1, <2>2 DEF Counts
  <2>6. Counts(i, given)' <=>
          \E m \in 1..(n + 1) : /\ queue'[m] = i /\ i \in given
                          /\ \A k \in m + 1 .. n + 1 : ~(/\ queue'[k] \in given
                               /\ Asked[queue'[k]] = Asked[i] /\ About[queue'[k]] = About[i])
    BY <2>1, <2>2 DEF Counts
  <2>7. 1..(n + 1) = (1..n) \cup {n + 1}
    BY <2>1
  <2> QED
    BY <2>2, <2>3, <2>4, <2>5, <2>6, <2>7
<1> QED
  BY <1>2, <1>3 DEF KeepsAnswers

LEMMA PassesStays ==
  ASSUME Inv, KeepsAnswers, NEW s, NEW cs, NEW given, given \subseteq Answered
  PROVE  Passes(s, cs, given)' <=> Passes(s, cs, given)
<1>1. ASSUME NEW answer
      PROVE  Scored(s, cs, given, answer)' = Scored(s, cs, given, answer)
  <2>1. \A i \in given : /\ Counts(i, given)' <=> Counts(i, given)
                         /\ invocation'[i] = invocation[i]
    BY CountsStays DEF KeepsAnswers
  <2> QED
    BY <2>1 DEF Scored
<1> QED
  BY <1>1 DEF Passes

LEMMA GroundedStays ==
  ASSUME Inv, KeepsAnswers, KeepsApproved, NEW p \in Policies, NEW r, Grounded(p, r)
  PROVE  Grounded(p, r)'
<1>1. policy'[p].status # "none" /\ policy'[p].corpus = policy[p].corpus
  BY DEF Grounded, KeepsApproved
<1>2. r.answered \subseteq Answered'
  BY DEF Grounded, KeepsAnswers, Answered
<1>3. ASSUME NEW k \in Nat, policy'[p].corpus = k
      PROVE  Passes(SubjectOf[p], HoldoutOf[k], r.answered)'
  <2>1. Passes(SubjectOf[p], HoldoutOf[k], r.answered) /\ r.answered \subseteq Answered
    BY <1>1, <1>3 DEF Grounded
  <2> QED
    BY <2>1, PassesStays
<1> QED
  BY <1>1, <1>2, <1>3 DEF Grounded

LEMMA EarnedStays ==
  ASSUME Inv, KeepsAnswers, KeepsApproved, UNCHANGED <<report, ballot>>
  PROVE  EarnedOK'
<1>1. ASSUME NEW p \in Policies, NEW r \in Reports, Grounded(p, r)
      PROVE  Grounded(p, r)'
  BY <1>1, GroundedStays
<1> QED
  BY <1>1 DEF Inv, EarnedOK

LEMMA SameAnswers ==
  ASSUME UNCHANGED <<invocation, queue>>
  PROVE  KeepsAnswers
BY DEF KeepsAnswers

LEMMA SamePolicies ==
  ASSUME UNCHANGED policy
  PROVE  KeepsApproved
BY DEF KeepsApproved

LEMMA RetiringKeepsApproved ==
  ASSUME Retires
  PROVE  KeepsApproved
BY DEF Retires, KeepsApproved

LEMMA RetiringKeeps ==
  ASSUME Inv, Retires, incidents' \subseteq Policies,
         UNCHANGED <<corpus, answers, approved, report, ballot, ended>>
  PROVE  /\ PolicyTypes' /\ ReportTypes' /\ BallotTypes' /\ UnpromotedOK' /\ EarnedOK'
         /\ \A p \in Active' : p \in Active /\ policy'[p] = policy[p]
<1>1. PolicyTypes /\ ReportTypes /\ BallotTypes
  BY TypeParts DEF Inv
<1>2. PolicyTypes'
  BY <1>1 DEF PolicyTypes, Retires
<1>3. ReportTypes'
  BY <1>1 DEF ReportTypes, answers
<1>4. \A p \in Policies : policy'[p].ballot = policy[p].ballot
  BY DEF Retires
<1>5. BallotTypes'
  BY <1>1, <1>4 DEF BallotTypes
<1>6. UnpromotedOK'
  BY DEF Inv, UnpromotedOK, Retires
<1>7. EarnedOK'
  BY EarnedStays, SameAnswers, RetiringKeepsApproved DEF answers
<1>8. \A p \in Active' : p \in Active /\ policy'[p] = policy[p]
  BY DEF Active, Retires
<1> QED
  BY <1>2, <1>3, <1>5, <1>6, <1>7, <1>8

LEMMA SuspensionRetires ==
  ASSUME Inv, NEW ps \in SUBSET Policies, \A p \in ps : policy[p].status # "none",
         SuspendWithIncident(ps)
  PROVE  /\ Retires /\ incidents' \subseteq Policies
         /\ \A p \in ps : policy'[p].status = "suspended"
<1>1. PolicyTypes
  BY TypeParts DEF Inv
<1>2. ASSUME NEW p \in Policies
      PROVE  /\ policy'[p] \in PolicyRecords
             /\ p \notin ps => policy'[p] = policy[p]
             /\ p \in ps => /\ policy'[p].status = "suspended"
                            /\ policy'[p].corpus = policy[p].corpus
                            /\ policy'[p].ballot = policy[p].ballot
  <2>1. policy[p] \in PolicyRecords
    BY <1>1 DEF PolicyTypes
  <2>2. policy'[p] = IF p \in ps THEN [policy[p] EXCEPT !.status = "suspended"] ELSE policy[p]
    BY DEF SuspendWithIncident
  <2> QED
    BY <2>1, <2>2 DEF PolicyRecords
<1>3. policy' \in [Policies -> PolicyRecords]
  BY <1>2 DEF SuspendWithIncident
<1>4. incidents' \subseteq Policies
  BY <1>1 DEF SuspendWithIncident, PolicyTypes
<1> QED
  BY <1>2, <1>3, <1>4 DEF Retires

\* The policies as they are, whatever becomes of the evidence.
LEMMA PoliciesUntouched ==
  ASSUME Inv, UNCHANGED <<answers, authority>>, corpus' \in Nat, corpus <= corpus'
  PROVE  /\ PolicyTypes' /\ ReportTypes' /\ BallotTypes' /\ UnpromotedOK' /\ EarnedOK'
         /\ Active' = Active
<1> USE DEF answers, authority
<1>1. EvidenceTypes /\ PolicyTypes /\ ReportTypes /\ BallotTypes
  BY TypeParts DEF Inv
<1>2. PolicyTypes'
  <2>1. \A p \in Policies : policy[p].corpus \in Nat /\ corpus \in Nat
    BY <1>1, AdvisorAssumption DEF PolicyTypes, PolicyRecords, EvidenceTypes
  <2>2. \A p \in Policies : policy'[p].corpus <= corpus'
    BY <1>1, <2>1 DEF PolicyTypes
  <2> QED
    BY <1>1, <2>2 DEF PolicyTypes
<1>3. ReportTypes' /\ BallotTypes' /\ UnpromotedOK'
  BY <1>1 DEF Inv, ReportTypes, BallotTypes, UnpromotedOK
<1>4. EarnedOK' /\ Active' = Active
  BY SameAnswers, SamePolicies, EarnedStays DEF Active
<1> QED
  BY <1>2, <1>3, <1>4

LEMMA DecisionsUntouched ==
  ASSUME Inv, UNCHANGED decisions, KeepsApproved, incidents \subseteq incidents'
  PROVE  DecisionTypes' /\ FindingsOK'
<1>1. DecisionTypes
  BY TypeParts DEF Inv
<1> QED
  BY <1>1 DEF Inv, DecisionTypes, FindingsOK, KeepsApproved, decisions

LEMMA AnswersUntouched ==
  ASSUME Inv, UNCHANGED answers
  PROVE  AnswerTypes'
<1>1. AnswerTypes
  BY TypeParts DEF Inv
<1> QED
  BY <1>1 DEF AnswerTypes, answers

LEMMA EvidenceUntouched ==
  ASSUME Inv, UNCHANGED evidence, events' \in 0..MaxEvents
  PROVE  EvidenceTypes'
<1>1. EvidenceTypes
  BY TypeParts DEF Inv
<1> QED
  BY <1>1 DEF EvidenceTypes, evidence

LEMMA EventsType ==
  ASSUME Inv, Happens \/ UNCHANGED events
  PROVE  events' \in 0..MaxEvents
<1>1. events \in 0..MaxEvents /\ MaxEvents \in Nat
  BY AdvisorAssumption DEF Inv, TypeOK
<1> QED
  BY <1>1 DEF Happens

LEMMA Conditionally ==
  ASSUME NEW condition \in BOOLEAN, HappensIf(condition)
  PROVE  Happens \/ UNCHANGED events
BY DEF HappensIf

\* What is appended for the first time leaves each member once.
LEMMA AppendedOnce ==
  ASSUME NEW S, NEW seq \in Seq(S), IsInjective(seq), NEW x \in S, x \notin ToSet(seq)
  PROVE  /\ Append(seq, x) \in Seq(S) /\ IsInjective(Append(seq, x))
         /\ ToSet(Append(seq, x)) = ToSet(seq) \cup {x}
         /\ Len(seq) <= Len(Append(seq, x))
<1>1. PICK n \in Nat : n = Len(seq)
  BY LenProperties
<1>2. DOMAIN seq = 1..n /\ DOMAIN Append(seq, x) = 1..(n + 1) /\ Len(Append(seq, x)) = n + 1
  BY <1>1, AppendProperties, LenProperties
<1>3. Append(seq, x) \in Seq(S) /\ Append(seq, x)[n + 1] = x
  BY <1>1, AppendProperties
<1>4. \A k \in 1..n : Append(seq, x)[k] = seq[k]
  BY <1>1, AppendProperties
<1>5. \A k \in 1..n : seq[k] # x
  BY <1>2 DEF ToSet
<1>6. IsInjective(Append(seq, x))
  BY <1>2, <1>3, <1>4, <1>5 DEF IsInjective
<1>7. ToSet(Append(seq, x)) = ToSet(seq) \cup {x}
  BY <1>2, <1>3, <1>4 DEF ToSet
<1> QED
  BY <1>1, <1>2, <1>3, <1>6, <1>7

-----------------------------------------------------------------------------
(* Evidence.                                                               *)

\* A step that retires policies, and what it may do beside.
LEMMA RetiringStep ==
  ASSUME Inv, Retires, incidents' \subseteq Policies, incidents \subseteq incidents',
         UNCHANGED <<corpus, answers, approved, report, ballot, ended>>,
         EvidenceTypes', DecisionTypes', FindingsOK',
         \A p \in Active' : policy[p].corpus \notin contaminated' /\ p \notin incidents'
  PROVE  Inv'
<1>1. /\ PolicyTypes' /\ ReportTypes' /\ BallotTypes' /\ UnpromotedOK' /\ EarnedOK'
      /\ \A p \in Active' : p \in Active /\ policy'[p] = policy[p]
  BY RetiringKeeps
<1>2. AnswerTypes'
  BY AnswersUntouched
<1>3. ActiveOK'
  BY <1>1 DEF ActiveOK
<1>4. TypeOK'
  BY <1>1, <1>2, TypesAfter
<1> QED
  BY <1>1, <1>3, <1>4 DEF Inv

\* What an active policy has stays its own if no more is known against it.
LEMMA StillActive ==
  ASSUME Inv, Retires, NEW p \in Active'
  PROVE  p \in Active /\ policy[p].corpus \notin contaminated /\ p \notin incidents
BY DEF Inv, ActiveOK, Active, Retires

LEMMA ApproveSubjectKeeps ==
  ASSUME Inv, NEW s \in Subjects, ApproveSubject(s)
  PROVE  Inv'
<1> DEFINE ps == {p \in Active : SubjectOf[p] = PriorOf[s]}
<1>1. /\ HappensIf(subjects # {}) /\ subjects' = subjects \cup {s}
      /\ SuspendWithIncident(ps)
      /\ UNCHANGED <<cases, corpus, contaminated, answers, approved, report, ballot, ended, decisions>>
  BY DEF ApproveSubject
<1>2. ps \in SUBSET Policies /\ \A p \in ps : policy[p].status # "none"
  BY DEF Active
<1> HIDE DEF ps
<1>3. Retires /\ incidents' \subseteq Policies /\ \A p \in ps : policy'[p].status = "suspended"
  BY <1>1, <1>2, SuspensionRetires
<1>4. incidents' = incidents \cup ps
  BY <1>1 DEF SuspendWithIncident
<1>5. EvidenceTypes'
  <2>1. events' \in 0..MaxEvents
    BY <1>1, Conditionally, EventsType
  <2>2. EvidenceTypes
    BY TypeParts DEF Inv
  <2> QED
    BY <1>1, <2>1, <2>2 DEF EvidenceTypes
<1>6. DecisionTypes' /\ FindingsOK'
  BY <1>1, <1>3, <1>4, RetiringKeepsApproved, DecisionsUntouched
<1>7. \A p \in Active' : policy[p].corpus \notin contaminated' /\ p \notin incidents'
  BY <1>1, <1>3, <1>4, StillActive DEF Active
<1> QED
  BY <1>1, <1>3, <1>4, <1>5, <1>6, <1>7, RetiringStep

LEMMA RecordContaminationKeeps ==
  ASSUME Inv, NEW k \in Corpora, RecordContamination(k)
  PROVE  Inv'
<1> DEFINE ps == {p \in Active : policy[p].corpus = k}
<1>1. /\ k \in 1..corpus /\ Happens /\ contaminated' = contaminated \cup {k}
      /\ SuspendWithIncident(ps)
      /\ UNCHANGED <<subjects, cases, corpus, answers, approved, report, ballot, ended, decisions>>
  BY DEF RecordContamination
<1>2. /\ ps \in SUBSET Policies /\ \A p \in ps : policy[p].status # "none"
      /\ \A p \in Active : policy[p].corpus = k => p \in ps
  BY DEF Active
<1> HIDE DEF ps
<1>3. Retires /\ incidents' \subseteq Policies /\ \A p \in ps : policy'[p].status = "suspended"
  BY <1>1, <1>2, SuspensionRetires
<1>4. incidents' = incidents \cup ps
  BY <1>1 DEF SuspendWithIncident
<1>5. EvidenceTypes'
  <2>1. events' \in 0..MaxEvents
    BY <1>1, EventsType
  <2>2. EvidenceTypes
    BY TypeParts DEF Inv
  <2> QED
    BY <1>1, <2>1, <2>2 DEF EvidenceTypes
<1>6. DecisionTypes' /\ FindingsOK'
  BY <1>1, <1>3, <1>4, RetiringKeepsApproved, DecisionsUntouched
<1>7. ASSUME NEW p \in Active'
      PROVE  policy[p].corpus \notin contaminated' /\ p \notin incidents'
  <2>1. p \in Active /\ policy[p].corpus \notin contaminated /\ p \notin incidents
    BY <1>3, StillActive
  <2>2. p \notin ps
    BY <1>3 DEF Active
  <2> QED
    BY <1>1, <1>2, <1>4, <2>1, <2>2
<1> QED
  BY <1>1, <1>3, <1>4, <1>5, <1>6, <1>7, RetiringStep

\* New cases and a new corpus change nothing for what is decided already.
LEMMA EvidenceStep ==
  ASSUME Inv, UNCHANGED <<answers, authority, decisions, contaminated>>,
         corpus' \in Nat, corpus <= corpus', EvidenceTypes'
  PROVE  Inv'
<1>1. PolicyTypes' /\ ReportTypes' /\ BallotTypes' /\ UnpromotedOK' /\ EarnedOK' /\ Active' = Active
  BY PoliciesUntouched
<1>2. incidents' = incidents /\ policy' = policy
  BY DEF authority
<1>3. AnswerTypes' /\ DecisionTypes' /\ FindingsOK'
  BY <1>2, SamePolicies, AnswersUntouched, DecisionsUntouched
<1>4. ActiveOK'
  BY <1>1, <1>2 DEF Inv, ActiveOK
<1>5. TypeOK'
  BY <1>1, <1>3, TypesAfter
<1> QED
  BY <1>1, <1>3, <1>4, <1>5 DEF Inv

LEMMA RecordCaseKeeps ==
  ASSUME Inv, NEW c \in Cases, RecordCase(c)
  PROVE  Inv'
<1>1. /\ HappensIf(corpus > 0) /\ cases' = cases \cup {c}
      /\ UNCHANGED <<subjects, corpus, contaminated, answers, authority, decisions>>
  BY DEF RecordCase
<1>2. EvidenceTypes
  BY TypeParts DEF Inv
<1>3. events' \in 0..MaxEvents
  <2>1. (corpus > 0) \in BOOLEAN
    BY <1>2 DEF EvidenceTypes
  <2> QED
    BY <1>1, <2>1, Conditionally, EventsType
<1>4. EvidenceTypes' /\ corpus' \in Nat /\ corpus <= corpus'
  BY <1>1, <1>2, <1>3, AdvisorAssumption DEF EvidenceTypes
<1> QED
  BY <1>1, <1>4, EvidenceStep

LEMMA ApproveCorpusKeeps ==
  ASSUME Inv, ApproveCorpus
  PROVE  Inv'
<1>1. /\ corpus + 1 \in Corpora /\ HappensIf(corpus > 0) /\ corpus' = corpus + 1
      /\ UNCHANGED <<subjects, cases, contaminated, answers, authority, decisions>>
  BY DEF ApproveCorpus
<1>2. EvidenceTypes /\ Len(CasesOf) \in Nat
  BY TypeParts, AdvisorAssumption DEF Inv
<1>3. events' \in 0..MaxEvents
  <2>1. (corpus > 0) \in BOOLEAN
    BY <1>2 DEF EvidenceTypes
  <2> QED
    BY <1>1, <2>1, Conditionally, EventsType
<1>4. EvidenceTypes' /\ corpus' \in Nat /\ corpus <= corpus'
  BY <1>1, <1>2, <1>3 DEF EvidenceTypes, Corpora
<1> QED
  BY <1>1, <1>4, EvidenceStep

-----------------------------------------------------------------------------
(* Invocations.                                                            *)

LEMMA InvocationStep ==
  ASSUME Inv, AnswerTypes', KeepsAnswers, Len(queue) <= Len(queue'), events' \in 0..MaxEvents,
         UNCHANGED <<evidence, authority, decisions>>
  PROVE  Inv'
<1>1. UNCHANGED <<corpus, contaminated, policy, report, ballot, approved, ended, incidents>>
  BY DEF evidence, authority
<1>2. PolicyTypes /\ ReportTypes /\ BallotTypes /\ AnswerTypes
  BY TypeParts DEF Inv
<1>3. PolicyTypes' /\ BallotTypes' /\ UnpromotedOK' /\ ActiveOK'
  BY <1>1, <1>2 DEF Inv, PolicyTypes, BallotTypes, UnpromotedOK, ActiveOK, Active
<1>4. ReportTypes'
  <2>1. ASSUME NEW p \in Policies
        PROVE  report[p].queued <= Len(queue')
    <3>1. report[p].queued \in Nat /\ report[p].queued <= Len(queue)
      BY <1>2 DEF ReportTypes, Reports
    <3>2. Len(queue) \in Nat /\ Len(queue') \in Nat
      BY <1>2 DEF AnswerTypes
    <3> QED
      BY <3>1, <3>2
  <2> QED
    BY <1>1, <1>2, <2>1 DEF ReportTypes
<1>5. EarnedOK'
  BY <1>1, SamePolicies, EarnedStays
<1>6. DecisionTypes' /\ FindingsOK' /\ EvidenceTypes'
  BY <1>1, SamePolicies, DecisionsUntouched, EvidenceUntouched
<1>7. TypeOK'
  BY <1>3, <1>4, <1>6, TypesAfter
<1> QED
  BY <1>3, <1>5, <1>6, <1>7 DEF Inv

LEMMA QueueInvocationKeeps ==
  ASSUME Inv, NEW i \in Invocations, QueueInvocation(i)
  PROVE  Inv'
<1>1. /\ invocation[i].status = "none"
      /\ invocation' = [invocation EXCEPT ![i].status = "pending"]
      /\ queue' = IF About[i] \in Cases THEN Append(queue, i) ELSE queue
      /\ UNCHANGED <<evidence, authority, decisions, events>>
  BY DEF QueueInvocation
<1>2. AnswerTypes
  BY TypeParts DEF Inv
<1>3. /\ invocation' \in [Invocations -> InvocationRecords]
      /\ invocation'[i].answer = "none" /\ ~invocation'[i].expired /\ invocation'[i].status = "pending"
      /\ \A k \in Invocations \ {i} : invocation'[k] = invocation[k]
  <2>1. invocation[i] \in InvocationRecords /\ invocation[i].answer = "none" /\ ~invocation[i].expired
    BY <1>1, <1>2 DEF AnswerTypes, InvocationRecords
  <2>2. invocation'[i] = [invocation[i] EXCEPT !.status = "pending"]
    BY <1>1, <1>2 DEF AnswerTypes
  <2>3. invocation'[i] \in InvocationRecords
    BY <2>1, <2>2 DEF InvocationRecords
  <2> QED
    BY <1>1, <1>2, <2>1, <2>2, <2>3 DEF AnswerTypes, InvocationRecords
<1>4. /\ queue' \in Seq(Invocations) /\ IsInjective(queue') /\ Len(queue) <= Len(queue')
      /\ ToSet(queue') = IF About[i] \in Cases THEN ToSet(queue) \cup {i} ELSE ToSet(queue)
  <2>1. queue \in Seq(Invocations) /\ IsInjective(queue) /\ i \notin ToSet(queue)
    BY <1>1, <1>2 DEF AnswerTypes
  <2>2. CASE About[i] \in Cases
    BY <1>1, <2>1, <2>2, AppendedOnce
  <2>3. CASE About[i] \notin Cases
    BY <1>1, <2>1, <2>3
  <2> QED
    BY <2>2, <2>3
<1>5. AnswerTypes'
  BY <1>2, <1>3, <1>4 DEF AnswerTypes
<1>6. KeepsAnswers
  <2>1. i \notin Answered /\ Answered \subseteq Invocations
    BY <1>1 DEF Answered
  <2> QED
    BY <1>1, <1>3, <2>1 DEF KeepsAnswers
<1>7. events' \in 0..MaxEvents
  BY <1>1, EventsType
<1> QED
  BY <1>1, <1>4, <1>5, <1>6, <1>7, InvocationStep

\* One invocation that has been queued and has no answer gets another record.
LEMMA BecomesKeeps ==
  ASSUME Inv, NEW i \in Invocations, NEW new \in InvocationRecords,
         invocation[i].status \notin {"none", "succeeded"}, new.status # "none",
         new.expired => new.status = "leased", new.answer # "none" <=> new.status = "succeeded",
         Becomes(i, new), Happens \/ UNCHANGED events,
         UNCHANGED <<queue, evidence, authority, decisions>>
  PROVE  Inv'
<1>1. AnswerTypes
  BY TypeParts DEF Inv
<1>2. /\ invocation' \in [Invocations -> InvocationRecords] /\ invocation'[i] = new
      /\ \A k \in Invocations \ {i} : invocation'[k] = invocation[k]
  BY <1>1 DEF Becomes, AnswerTypes
<1>3. AnswerTypes'
  BY <1>1, <1>2 DEF AnswerTypes
<1>4. KeepsAnswers
  <2>1. i \notin Answered /\ Answered \subseteq Invocations
    BY DEF Answered
  <2> QED
    BY <1>2, <2>1 DEF KeepsAnswers
<1>5. Len(queue) <= Len(queue')
  BY <1>1 DEF AnswerTypes
<1>6. events' \in 0..MaxEvents
  BY EventsType
<1> QED
  BY <1>3, <1>4, <1>5, <1>6, InvocationStep

LEMMA NotAskedType ==
  NotAsked \in InvocationRecords /\ NotAsked.answer = "none" /\ ~NotAsked.expired
BY AdvisorAssumption DEF NotAsked, InvocationRecords

LEMMA InvocationType ==
  ASSUME Inv, NEW i \in Invocations
  PROVE  invocation[i] \in InvocationRecords /\ invocation \in [Invocations -> InvocationRecords]
BY TypeParts DEF Inv, AnswerTypes

\* What has ended is asked no more.
LEMMA EndsKeeps ==
  ASSUME Inv, NEW i \in Invocations, NEW answer \in {"none", "right", "wrong", "abstains"},
         NEW status \in {"succeeded", "failed", "cancelled"}, answer # "none" <=> status = "succeeded",
         invocation[i].status \in {"pending", "leased"}, Ends(i, status, answer),
         Happens \/ UNCHANGED events, UNCHANGED <<queue, evidence, authority, decisions>>
  PROVE  Inv'
<1> DEFINE new == [NotAsked EXCEPT !.status = status, !.answer = answer]
<1>1. /\ new \in InvocationRecords /\ new.status = status /\ new.answer = answer /\ ~new.expired
  BY NotAskedType DEF InvocationRecords
<1>2. Becomes(i, new)
  BY DEF Ends
<1> HIDE DEF new
<1> QED
  BY <1>1, <1>2, BecomesKeeps

LEMMA AcquireLeaseKeeps ==
  ASSUME Inv, NEW i \in Invocations, AcquireLease(i)
  PROVE  Inv'
<1> DEFINE n == invocation[i].attempt
           new == [NotAsked EXCEPT !.status = "leased", !.attempt = IF n < Tries THEN n + 1 ELSE n]
<1>1. n \in 0..Tries /\ Tries \in Nat
  BY InvocationType, AdvisorAssumption DEF InvocationRecords
<1>2. new \in InvocationRecords /\ new.status = "leased" /\ new.answer = "none" /\ ~new.expired
  <2>1. PICK m \in 0..Tries : m = IF n < Tries THEN n + 1 ELSE n
    BY <1>1
  <2>2. new = [NotAsked EXCEPT !.status = "leased", !.attempt = m]
    BY <2>1
  <2> HIDE DEF new
  <2> QED
    BY <2>2, NotAskedType DEF InvocationRecords
<1>3. invocation[i].status \in {"pending", "leased"}
  BY DEF AcquireLease, Claimable, Leased
<1>4. Becomes(i, new) /\ UNCHANGED <<queue, evidence, authority, decisions, events>>
  BY DEF AcquireLease
<1> HIDE DEF new
<1> QED
  BY <1>2, <1>3, <1>4, BecomesKeeps

LEMMA LeaseExpiresKeeps ==
  ASSUME Inv, NEW i \in Invocations, LeaseExpires(i)
  PROVE  Inv'
<1> DEFINE new == [invocation[i] EXCEPT !.expired = TRUE]
<1>1. invocation[i].status = "leased" /\ invocation[i].answer = "none"
  BY TypeParts DEF Inv, AnswerTypes, LeaseExpires, Leased
<1>2. new \in InvocationRecords /\ new.status = "leased" /\ new.answer = "none"
  BY <1>1, InvocationType DEF InvocationRecords
<1>3. Becomes(i, new)
  BY InvocationType DEF LeaseExpires, Becomes
<1>4. Happens /\ UNCHANGED <<queue, evidence, authority, decisions>>
  BY DEF LeaseExpires
<1> HIDE DEF new
<1> QED
  BY <1>1, <1>2, <1>3, <1>4, BecomesKeeps

LEMMA CompleteKeeps ==
  ASSUME Inv, NEW i \in Invocations, Complete(i)
  PROVE  Inv'
<1>1. PICK answer \in {"right", "wrong", "abstains"} : Ends(i, "succeeded", answer)
  BY DEF Complete
<1>2. /\ invocation[i].status \in {"pending", "leased"}
      /\ UNCHANGED <<queue, evidence, authority, decisions, events>>
  BY DEF Complete, Leased
<1> QED
  BY <1>1, <1>2, EndsKeeps

LEMMA FailKeeps ==
  ASSUME Inv, NEW i \in Invocations, Fail(i)
  PROVE  Inv'
<1> DEFINE new == [invocation[i] EXCEPT !.expired = FALSE, !.status = "pending"]
<1>1. /\ invocation[i].status = "leased"
      /\ UNCHANGED <<queue, evidence, authority, decisions, events>>
      /\ Ends(i, "failed", "none") \/ Becomes(i, new)
  BY DEF Fail, TriedAgain
<1>2. CASE Ends(i, "failed", "none")
  BY <1>1, <1>2, EndsKeeps
<1>3. CASE Becomes(i, new)
  <2>1. invocation[i].answer = "none"
    BY <1>1, TypeParts DEF Inv, AnswerTypes
  <2>2. new \in InvocationRecords /\ new.status = "pending" /\ new.answer = "none" /\ ~new.expired
    BY <2>1, InvocationType DEF InvocationRecords
  <2> HIDE DEF new
  <2> QED
    BY <1>1, <1>3, <2>2, BecomesKeeps
<1> QED
  BY <1>1, <1>2, <1>3

LEMMA CancelKeeps ==
  ASSUME Inv, NEW i \in Invocations, Cancel(i)
  PROVE  Inv'
<1>1. /\ invocation[i].status \in {"pending", "leased"} /\ Happens
      /\ Ends(i, "cancelled", "none") /\ UNCHANGED <<queue, evidence, authority, decisions>>
  BY DEF Cancel
<1> QED
  BY <1>1, EndsKeeps

-----------------------------------------------------------------------------
(* Policies.                                                               *)

\* A step of policies, reports and promotion packets that closes no decision.
LEMMA GoverningStep ==
  ASSUME Inv, UNCHANGED <<evidence, answers, decisions>>, events' \in 0..MaxEvents,
         KeepsApproved, incidents \subseteq incidents',
         PolicyTypes', ReportTypes', BallotTypes', UnpromotedOK', EarnedOK', ActiveOK'
  PROVE  Inv'
<1>1. AnswerTypes' /\ EvidenceTypes' /\ DecisionTypes' /\ FindingsOK'
  BY AnswersUntouched, EvidenceUntouched, DecisionsUntouched
<1>2. TypeOK'
  BY <1>1, TypesAfter
<1> QED
  BY <1>1, <1>2 DEF Inv

LEMMA ApprovePolicyKeeps ==
  ASSUME Inv, NEW p \in Policies, ApprovePolicy(p)
  PROVE  Inv'
<1> DEFINE new == [Unapproved EXCEPT !.status = "shadow", !.corpus = corpus]
           over(q) == [policy[q] EXCEPT !.status = "superseded"]
<1>1. /\ p \notin ToSet(approved) /\ HappensIf(approved # <<>>) /\ approved' = Append(approved, p)
      /\ policy' = [q \in Policies |-> CASE q = p -> new
                                         [] q # p /\ Foremost(q) -> over(q)
                                         [] OTHER -> policy[q]]
      /\ UNCHANGED <<evidence, answers, report, ballot, ended, incidents, decisions>>
  BY DEF ApprovePolicy
<1>2. EvidenceTypes /\ PolicyTypes /\ ReportTypes /\ BallotTypes
  BY TypeParts DEF Inv
<1>3. /\ new \in PolicyRecords /\ new.status = "shadow" /\ new.corpus = corpus /\ new.ballot = None
      /\ policy'[p] = new
  <2>1. /\ new \in PolicyRecords /\ new.status = "shadow" /\ new.corpus = corpus
        /\ new.ballot = None
    <3>1. Unapproved \in PolicyRecords /\ Unapproved.ballot = None
      BY AdvisorAssumption DEF Unapproved, PolicyRecords
    <3>2. corpus \in 0..Len(CasesOf)
      BY <1>2 DEF EvidenceTypes
    <3> QED
      BY <3>1, <3>2 DEF PolicyRecords
  <2>2. policy'[p] = new
    BY <1>1
  <2> QED
    BY <2>1, <2>2
<1>4. ASSUME NEW q \in Policies, q # p
      PROVE  /\ policy'[q] \in PolicyRecords
             /\ \/ policy'[q] = policy[q]
                \/ policy[q].status # "none" /\ policy'[q].status = "superseded"
             /\ policy'[q].corpus = policy[q].corpus /\ policy'[q].ballot = policy[q].ballot
  <2>1. policy[q] \in PolicyRecords
    BY <1>2 DEF PolicyTypes
  <2>2. CASE Foremost(q)
    <3>1. q \in ToSet(approved)
      BY <2>2 DEF Foremost, ToSet
    <3>2. policy[q].status # "none"
      BY <1>2, <3>1 DEF PolicyTypes
    <3>3. policy'[q] = over(q)
      BY <1>1, <1>4, <2>2
    <3> QED
      BY <2>1, <3>2, <3>3 DEF PolicyRecords
  <2>3. CASE ~Foremost(q)
    <3>1. policy'[q] = policy[q]
      BY <1>1, <1>4, <2>3
    <3> QED
      BY <2>1, <3>1
  <2> QED
    BY <2>2, <2>3
<1>5. policy[p].status = "none"
  BY <1>1, <1>2 DEF PolicyTypes
<1> HIDE DEF new, over
<1>6. policy' \in [Policies -> PolicyRecords]
  <2>1. \A q \in Policies : policy'[q] \in PolicyRecords
    BY <1>3, <1>4
  <2> QED
    BY <1>1, <2>1
<1>7. /\ approved' \in Seq(Policies) /\ IsInjective(approved')
      /\ ToSet(approved') = ToSet(approved) \cup {p}
  BY <1>1, <1>2, AppendedOnce DEF PolicyTypes
<1>8. UNCHANGED <<corpus, contaminated, invocation, queue, report, ballot, ended, incidents>>
  BY <1>1 DEF evidence, answers
<1>9. PolicyTypes'
  <2>1. ASSUME NEW q \in Policies
        PROVE  /\ policy'[q].status = "none" <=> q \notin ToSet(approved')
               /\ policy'[q].corpus <= corpus'
               /\ policy'[q].status = "active" => policy'[q].ballot # None
    <3>1. CASE q = p
      BY <1>2, <1>3, <1>7, <1>8, <3>1 DEF EvidenceTypes
    <3>2. CASE q # p
      BY <1>2, <1>4, <1>7, <1>8, <3>2 DEF PolicyTypes
    <3> QED
      BY <3>1, <3>2
  <2> QED
    BY <1>2, <1>6, <1>7, <1>8, <2>1 DEF PolicyTypes
<1>10. policy[p].ballot = None
  BY <1>5 DEF Inv, UnpromotedOK
<1>11. BallotTypes'
  <2>1. \A q \in Policies : policy'[q].ballot = policy[q].ballot
    BY <1>3, <1>4, <1>10
  <2> QED
    BY <1>2, <1>8, <2>1 DEF BallotTypes
<1>12. ReportTypes'
  BY <1>2, <1>8 DEF ReportTypes
<1>13. UnpromotedOK'
  BY <1>3, <1>4 DEF Inv, UnpromotedOK
<1>14. KeepsApproved /\ EarnedOK'
  <2>1. KeepsApproved
    BY <1>4, <1>5 DEF KeepsApproved
  <2> QED
    BY <1>8, <2>1, SameAnswers, EarnedStays
<1>15. ActiveOK'
  <2>1. ASSUME NEW q \in Active'
        PROVE  q \in Active /\ policy'[q] = policy[q]
    <3>1. q \in Policies /\ q # p
      BY <1>3 DEF Active
    <3> QED
      BY <1>4, <3>1 DEF Active
  <2> QED
    BY <1>8, <2>1 DEF Inv, ActiveOK
<1>16. events' \in 0..MaxEvents
  BY <1>1, Conditionally, EventsType
<1> QED
  BY <1>1, <1>8, <1>9, <1>11, <1>12, <1>13, <1>14, <1>15, <1>16, GoverningStep

LEMMA CompileEvaluationKeeps ==
  ASSUME Inv, NEW p \in Policies, CompileEvaluation(p)
  PROVE  Inv'
<1>1. /\ policy[p].status \in {"shadow", "active"} /\ policy[p].corpus = corpus
      /\ UNCHANGED <<evidence, answers, approved, policy, ballot, ended, incidents, decisions, events>>
  BY DEF CompileEvaluation
<1>2. PICK recent \in (SUBSET cases) \ {{}} :
        report' = [report EXCEPT ![p] =
          IF Earns(p, recent)
          THEN [eligible |-> TRUE, cases |-> cases, queued |-> Len(queue), answered |-> Answered]
          ELSE NoReport]
  BY DEF CompileEvaluation
<1>3. PICK eligible \in BOOLEAN :
        /\ eligible => Passes(SubjectOf[p], HoldoutOf[corpus], Answered)
        /\ report' = [report EXCEPT ![p] =
             IF eligible
             THEN [eligible |-> TRUE, cases |-> cases, queued |-> Len(queue), answered |-> Answered]
             ELSE NoReport]
  <2>1. CASE Earns(p, recent)
    BY <1>2, <2>1 DEF Earns
  <2>2. CASE ~Earns(p, recent)
    BY <1>2, <2>2
  <2> QED
    BY <2>1, <2>2
<1>4. EvidenceTypes /\ AnswerTypes /\ PolicyTypes /\ ReportTypes /\ BallotTypes
  BY TypeParts DEF Inv
<1>5. UNCHANGED <<corpus, contaminated, invocation, queue, approved, policy, ballot, ended, incidents>>
  BY <1>1 DEF evidence, answers
<1>6. \A q \in Policies \ {p} : report'[q] = report[q]
  BY <1>3, <1>4 DEF ReportTypes
<1>7. /\ report' \in [Policies -> Reports] /\ (report'[p].eligible => eligible /\ report'[p].answered = Answered)
      /\ report'[p].queued <= Len(queue)
  <2>1. Len(queue) \in Nat /\ cases \in SUBSET Cases
    BY <1>4 DEF AnswerTypes, EvidenceTypes
  <2>4. Answered \in SUBSET Invocations
    BY DEF Answered
  <2>2. CASE eligible
    BY <2>4, <1>3, <1>4, <2>1, <2>2 DEF ReportTypes, Reports
  <2>3. CASE ~eligible
    <3>1. NoReport \in Reports /\ NoReport.eligible = FALSE /\ NoReport.queued = 0
      BY DEF NoReport, Reports
    <3>2. report' = [report EXCEPT ![p] = NoReport]
      BY <1>3, <2>3
    <3>3. report' \in [Policies -> Reports] /\ report'[p] = NoReport
      BY <1>4, <3>1, <3>2 DEF ReportTypes
    <3>4. ~report'[p].eligible /\ report'[p].queued = 0
      BY <3>1, <3>3
    <3> QED
      BY <2>1, <3>3, <3>4
  <2> QED
    BY <2>2, <2>3
<1>8. ReportTypes'
  BY <1>4, <1>5, <1>6, <1>7 DEF ReportTypes
<1>9. PolicyTypes' /\ BallotTypes' /\ UnpromotedOK' /\ ActiveOK'
  BY <1>4, <1>5 DEF Inv, PolicyTypes, BallotTypes, UnpromotedOK, ActiveOK, Active
<1>10. EarnedOK'
  <2>1. ASSUME NEW q \in Policies, NEW r \in Reports, Grounded(q, r)
        PROVE  Grounded(q, r)'
    BY <1>5, <2>1, SameAnswers, SamePolicies, GroundedStays
  <2>2. ASSUME NEW q \in Policies, NEW r \in Reports, report'[q] = r, r.eligible
        PROVE  Grounded(q, r)
    <3>1. CASE q = p
      <4>1. eligible /\ r.answered = Answered
        BY <1>7, <2>2, <3>1
      <4>2. policy[p].status # "none"
        BY <1>1
      <4>3. ASSUME NEW k \in Nat, policy[p].corpus = k
            PROVE  Passes(SubjectOf[p], HoldoutOf[k], r.answered)
        BY <1>1, <1>3, <4>1, <4>3
      <4> QED
        BY <3>1, <4>1, <4>2, <4>3 DEF Grounded
    <3>2. CASE q # p
      BY <1>6, <2>2, <3>2 DEF Inv, EarnedOK
    <3> QED
      BY <3>1, <3>2
  <2> QED
    BY <1>5, <2>1, <2>2 DEF Inv, EarnedOK
<1>11. events' \in 0..MaxEvents
  BY <1>1, EventsType
<1> QED
  BY <1>1, <1>5, <1>8, <1>9, <1>10, <1>11, SamePolicies, GoverningStep

LEMMA CompilePromotionKeeps ==
  ASSUME Inv, NEW b \in Ballots, NEW p \in Policies, CompilePromotion(b, p)
  PROVE  Inv'
<1> DEFINE new == [status |-> "open", policy |-> p, report |-> report[p]]
<1>1. /\ ballot[b].status = "none" /\ report[p].eligible
      /\ ballot' = [ballot EXCEPT ![b] = new]
      /\ UNCHANGED <<evidence, answers, approved, policy, report, ended, incidents, decisions, events>>
  BY DEF CompilePromotion, Promotable
<1>2. PolicyTypes /\ ReportTypes /\ BallotTypes
  BY TypeParts DEF Inv
<1>3. UNCHANGED <<corpus, contaminated, invocation, queue, approved, policy, report, ended, incidents>>
  BY <1>1 DEF evidence, answers
<1>4. /\ ballot' \in [Ballots -> BallotRecords] /\ ballot'[b] = new
      /\ \A a \in Ballots \ {b} : ballot'[a] = ballot[a]
  <2>1. new \in BallotRecords
    BY <1>2 DEF BallotRecords, ReportTypes
  <2> QED
    BY <1>1, <1>2, <2>1 DEF BallotTypes
<1>5. PolicyTypes' /\ ReportTypes' /\ UnpromotedOK' /\ ActiveOK'
  BY <1>2, <1>3 DEF Inv, PolicyTypes, ReportTypes, UnpromotedOK, ActiveOK, Active
<1>6. BallotTypes'
  <2>1. ASSUME NEW q \in Policies, policy[q].ballot # None
        PROVE  ballot'[policy[q].ballot].status = "resolved" /\ ballot'[policy[q].ballot].policy = q
    <3>1. policy[q].ballot \in Ballots
      BY <1>2, <2>1 DEF PolicyTypes, PolicyRecords
    <3>2. ballot[policy[q].ballot].status = "resolved" /\ ballot[policy[q].ballot].policy = q
      BY <1>2, <2>1 DEF BallotTypes
    <3> QED
      BY <1>1, <1>4, <3>1, <3>2
  <2>2. ASSUME NEW a \in Ballots
        PROVE  /\ ballot'[a].status # "none" => ballot'[a].policy \in Policies /\ ballot'[a].report.eligible
               /\ ballot'[a].status = "resolved" => policy[ballot'[a].policy].ballot = a
    <3>1. CASE a = b
      BY <1>1, <1>4, <3>1
    <3>2. CASE a # b
      BY <1>2, <1>4, <3>2 DEF BallotTypes
    <3> QED
      BY <3>1, <3>2
  <2> QED
    BY <1>3, <1>4, <2>1, <2>2 DEF BallotTypes
<1>7. EarnedOK'
  <2>1. ASSUME NEW q \in Policies, NEW r \in Reports, Grounded(q, r)
        PROVE  Grounded(q, r)'
    BY <1>3, <2>1, SameAnswers, SamePolicies, GroundedStays
  <2>2. ASSUME NEW q \in Policies, NEW r \in Reports, NEW a \in Ballots,
               ballot'[a].status # "none", ballot'[a].policy = q, ballot'[a].report = r
        PROVE  Grounded(q, r)
    <3>1. CASE a = b
      <4>1. q = p /\ report[p] = r /\ r.eligible
        BY <1>1, <1>4, <2>2, <3>1
      <4> QED
        BY <4>1 DEF Inv, EarnedOK
    <3>2. CASE a # b
      BY <1>4, <2>2, <3>2 DEF Inv, EarnedOK
    <3> QED
      BY <3>1, <3>2
  <2> QED
    BY <1>3, <2>1, <2>2 DEF Inv, EarnedOK
<1>8. events' \in 0..MaxEvents
  BY <1>1, EventsType
<1> QED
  BY <1>1, <1>3, <1>5, <1>6, <1>7, <1>8, SamePolicies, GoverningStep

LEMMA PromoteKeeps ==
  ASSUME Inv, NEW b \in Ballots, Promote(b)
  PROVE  Inv'
<1>1. ballot[b].status = "open"
  BY DEF Promote
<1>2. EvidenceTypes /\ PolicyTypes /\ ReportTypes /\ BallotTypes
  BY TypeParts DEF Inv
<1>3. PICK p \in Policies : p = ballot[b].policy
  BY <1>1, <1>2 DEF BallotTypes
<1>4. /\ policy[p].status = "shadow" /\ policy[p].corpus = corpus
      /\ corpus \notin contaminated /\ p \notin incidents
  BY <1>3 DEF Promote, Promotable
<1>5. /\ policy' = [policy EXCEPT ![p].status = "active", ![p].ballot = b]
      /\ ballot' = [ballot EXCEPT ![b].status = "resolved"]
      /\ UNCHANGED <<evidence, answers, approved, report, ended, incidents, decisions, events>>
  BY <1>3 DEF Promote, Promoted
<1>6. UNCHANGED <<corpus, contaminated, invocation, queue, approved, report, ended, incidents>>
  BY <1>5 DEF evidence, answers
<1>7. policy[p] \in PolicyRecords /\ policy[p].ballot = None
  BY <1>2, <1>4 DEF Inv, PolicyTypes, UnpromotedOK
<1>8. /\ policy' \in [Policies -> PolicyRecords] /\ policy'[p].status = "active"
      /\ policy'[p].ballot = b /\ policy'[p].corpus = policy[p].corpus
      /\ \A q \in Policies \ {p} : policy'[q] = policy[q]
  <2>1. [policy[p] EXCEPT !.status = "active", !.ballot = b] \in PolicyRecords
    BY <1>7 DEF PolicyRecords
  <2>2. policy' = [policy EXCEPT ![p] = [policy[p] EXCEPT !.status = "active", !.ballot = b]]
    BY <1>2, <1>5 DEF PolicyTypes
  <2> QED
    BY <1>2, <1>7, <2>1, <2>2 DEF PolicyTypes, PolicyRecords
<1>9. /\ ballot' \in [Ballots -> BallotRecords] /\ ballot'[b].status = "resolved"
      /\ ballot'[b].policy = p /\ ballot'[b].report = ballot[b].report
      /\ \A a \in Ballots \ {b} : ballot'[a] = ballot[a]
  <2>1. ballot[b] \in BallotRecords
    BY <1>2 DEF BallotTypes
  <2>2. ballot'[b] = [ballot[b] EXCEPT !.status = "resolved"]
    BY <1>2, <1>5 DEF BallotTypes
  <2>3. [ballot[b] EXCEPT !.status = "resolved"] \in BallotRecords
    BY <2>1 DEF BallotRecords
  <2> QED
    BY <1>2, <1>3, <1>5, <2>1, <2>2, <2>3 DEF BallotTypes, BallotRecords
<1>10. PolicyTypes'
  <2>1. None # b
    BY AdvisorAssumption
  <2>2. p \in ToSet(approved)
    BY <1>2, <1>4 DEF PolicyTypes
  <2> QED
    BY <1>2, <1>6, <1>8, <2>1, <2>2 DEF PolicyTypes
<1>11. ReportTypes'
  BY <1>2, <1>6 DEF ReportTypes
<1>12. BallotTypes'
  <2>1. ASSUME NEW q \in Policies, policy'[q].ballot # None
        PROVE  ballot'[policy'[q].ballot].status = "resolved" /\ ballot'[policy'[q].ballot].policy = q
    <3>1. CASE q = p
      BY <1>8, <1>9, <3>1
    <3>2. CASE q # p
      <4>1. policy'[q] = policy[q] /\ policy[q].ballot \in Ballots
        BY <1>2, <1>8, <2>1, <3>2 DEF PolicyTypes, PolicyRecords
      <4>2. ballot[policy[q].ballot].status = "resolved" /\ ballot[policy[q].ballot].policy = q
        BY <1>2, <2>1, <4>1 DEF BallotTypes
      <4> QED
        BY <1>1, <1>9, <4>1, <4>2
    <3> QED
      BY <3>1, <3>2
  <2>2. ASSUME NEW a \in Ballots
        PROVE  /\ ballot'[a].status # "none" => ballot'[a].policy \in Policies /\ ballot'[a].report.eligible
               /\ ballot'[a].status = "resolved" => policy'[ballot'[a].policy].ballot = a
    <3>1. CASE a = b
      BY <1>1, <1>2, <1>8, <1>9, <3>1 DEF BallotTypes
    <3>2. CASE a # b
      <4>1. ballot'[a] = ballot[a]
        BY <1>9, <3>2
      <4>2. ballot[a].status = "resolved" =>
              ballot[a].policy \in Policies /\ policy[ballot[a].policy].ballot = a
        BY <1>2 DEF BallotTypes
      <4>3. ballot[a].status = "resolved" => ballot[a].policy # p
        <5>1. None # a
          BY AdvisorAssumption
        <5> QED
          BY <1>7, <4>2, <5>1
      <4> QED
        BY <1>2, <1>8, <4>1, <4>2, <4>3 DEF BallotTypes
    <3> QED
      BY <3>1, <3>2
  <2> QED
    BY <1>9, <2>1, <2>2 DEF BallotTypes
<1>13. UnpromotedOK'
  BY <1>8 DEF Inv, UnpromotedOK
<1>14. KeepsApproved
  BY <1>8 DEF KeepsApproved
<1>15. EarnedOK'
  <2>1. ASSUME NEW q \in Policies, NEW r \in Reports, Grounded(q, r)
        PROVE  Grounded(q, r)'
    BY <1>6, <1>14, <2>1, SameAnswers, GroundedStays
  <2>2. \A a \in Ballots : /\ ballot'[a].policy = ballot[a].policy
                           /\ ballot'[a].report = ballot[a].report
                           /\ ballot'[a].status # "none" => ballot[a].status # "none"
    BY <1>1, <1>3, <1>9
  <2> QED
    BY <1>6, <2>1, <2>2 DEF Inv, EarnedOK
<1>16. ActiveOK'
  <2>1. ASSUME NEW q \in Active'
        PROVE  policy'[q].corpus \notin contaminated /\ q \notin incidents
    <3>1. CASE q = p
      BY <1>4, <1>8, <3>1
    <3>2. CASE q # p
      <4>1. q \in Active /\ policy'[q] = policy[q]
        BY <1>8, <3>2 DEF Active
      <4> QED
        BY <4>1 DEF Inv, ActiveOK
    <3> QED
      BY <3>1, <3>2
  <2> QED
    BY <1>6, <2>1 DEF ActiveOK
<1>17. events' \in 0..MaxEvents
  BY <1>5, EventsType
<1> QED
  BY <1>5, <1>6, <1>10, <1>11, <1>12, <1>13, <1>14, <1>15, <1>16, <1>17, GoverningStep

LEMMA SuspendPolicyKeeps ==
  ASSUME Inv, NEW p \in Policies, SuspendPolicy(p)
  PROVE  Inv'
<1>1. /\ policy[p].status \in {"active", "shadow"} /\ Happens
      /\ policy' = [policy EXCEPT ![p].status = "suspended"]
      /\ UNCHANGED <<evidence, answers, approved, report, ballot, ended, incidents, decisions>>
  BY DEF SuspendPolicy
<1>2. PolicyTypes /\ incidents \subseteq Policies
  BY TypeParts DEF Inv, PolicyTypes
<1>3. Retires
  <2>1. policy[p] \in PolicyRecords
    BY <1>2 DEF PolicyTypes
  <2>2. /\ [policy[p] EXCEPT !.status = "suspended"] \in PolicyRecords
        /\ policy'[p] = [policy[p] EXCEPT !.status = "suspended"]
    BY <1>1, <1>2, <2>1 DEF PolicyRecords, PolicyTypes
  <2> QED
    BY <1>1, <1>2, <2>1, <2>2 DEF Retires, PolicyRecords, PolicyTypes
<1>4. EvidenceTypes' /\ DecisionTypes' /\ FindingsOK'
  BY <1>1, <1>3, EventsType, EvidenceUntouched, RetiringKeepsApproved, DecisionsUntouched
<1>5. \A q \in Active' : policy[q].corpus \notin contaminated' /\ q \notin incidents'
  BY <1>1, <1>3, StillActive DEF evidence
<1>6. UNCHANGED <<corpus, answers, approved, report, ballot, ended>>
  BY <1>1 DEF evidence
<1> QED
  BY <1>1, <1>2, <1>3, <1>4, <1>5, <1>6, RetiringStep

\* What ends at a time is looked at when it is used.
LEMMA EndingKeeps ==
  ASSUME Inv, ended' \subseteq Policies \cup Ballots, Happens,
         UNCHANGED <<evidence, answers, approved, policy, report, ballot, incidents, decisions>>
  PROVE  Inv'
<1>1. UNCHANGED <<corpus, contaminated, invocation, queue, approved, policy, report, ballot, incidents>>
  BY DEF evidence, answers
<1>2. PolicyTypes /\ ReportTypes /\ BallotTypes
  BY TypeParts DEF Inv
<1>3. PolicyTypes' /\ ReportTypes' /\ BallotTypes' /\ UnpromotedOK' /\ ActiveOK'
  BY <1>1, <1>2 DEF Inv, PolicyTypes, ReportTypes, BallotTypes, UnpromotedOK, ActiveOK, Active
<1>4. EarnedOK'
  BY <1>1, SameAnswers, SamePolicies, EarnedStays
<1>5. events' \in 0..MaxEvents
  BY EventsType
<1> QED
  BY <1>1, <1>3, <1>4, <1>5, SamePolicies, GoverningStep

LEMMA PolicyEndsKeeps ==
  ASSUME Inv, NEW p \in Policies, PolicyEnds(p)
  PROVE  Inv'
<1>1. /\ ended' = ended \cup {p} \cup {b \in Ballots : ballot[b].policy = p} /\ Happens
      /\ UNCHANGED <<evidence, answers, approved, policy, report, ballot, incidents, decisions>>
  BY DEF PolicyEnds
<1>2. ended' \subseteq Policies \cup Ballots
  BY <1>1, TypeParts DEF Inv, PolicyTypes
<1> QED
  BY <1>1, <1>2, EndingKeeps

LEMMA PromotionEndsKeeps ==
  ASSUME Inv, NEW b \in Ballots, PromotionEnds(b)
  PROVE  Inv'
<1>1. /\ ended' = ended \cup {b} /\ Happens
      /\ UNCHANGED <<evidence, answers, approved, policy, report, ballot, incidents, decisions>>
  BY DEF PromotionEnds
<1>2. ended' \subseteq Policies \cup Ballots
  BY <1>1, TypeParts DEF Inv, PolicyTypes
<1> QED
  BY <1>1, <1>2, EndingKeeps

-----------------------------------------------------------------------------
(* Resolutions and their audits.                                           *)

LEMMA ResolveKeeps ==
  ASSUME Inv, NEW p \in Policies, NEW i \in Invocations, Resolve(p, i)
  PROVE  Inv'
<1>1. p \in Active /\ UNCHANGED <<evidence, answers, approved, report, ballot, ended, events>>
  BY DEF Resolve
<1>2. UNCHANGED <<corpus, contaminated, answers, approved, report, ballot, ended>>
  BY <1>1 DEF evidence
<1>3. EvidenceTypes'
  BY <1>1, EventsType, EvidenceUntouched
<1>4. PolicyTypes /\ DecisionTypes /\ policy[p] \in PolicyRecords /\ policy[p].status = "active"
  BY <1>1, TypeParts DEF Inv, PolicyTypes, Active
<1>5. CASE Stops(p) /\ SuspendWithIncident({p}) /\ UNCHANGED decisions
  <2>1. Retires /\ incidents' \subseteq Policies /\ policy'[p].status = "suspended"
    BY <1>4, <1>5, SuspensionRetires
  <2>2. incidents' = incidents \cup {p}
    BY <1>5 DEF SuspendWithIncident
  <2>3. DecisionTypes' /\ FindingsOK'
    BY <1>5, <2>1, <2>2, RetiringKeepsApproved, DecisionsUntouched
  <2>4. \A q \in Active' : policy[q].corpus \notin contaminated' /\ q \notin incidents'
    BY <1>2, <2>1, <2>2, StillActive DEF Active
  <2> QED
    BY <1>2, <1>3, <2>1, <2>2, <2>3, <2>4, RetiringStep
<1>6. CASE /\ ~Stops(p) /\ About[i] \in Packets /\ packet[About[i]] = "open"
           /\ Applied(p, About[i]) /\ UNCHANGED incidents
  <2>1. PICK d \in Packets : d = About[i]
    BY <1>6
  <2>2. /\ packet[d] = "open" /\ packet' = [packet EXCEPT ![d] = p]
        /\ policy' = [policy EXCEPT ![p].count = @ + 1]
    BY <1>6, <2>1 DEF Applied
  <2>3. PICK selected \in BOOLEAN :
          audit' = [audit EXCEPT ![d] = IF selected THEN "pending" ELSE "none"]
    BY <1>6, <2>1 DEF Applied, Sampled
  <2>4. policy[p].count + 1 \in 0..Limit
    BY <1>4, <1>6, AdvisorAssumption DEF Stops, Exhausted, PolicyRecords
  <2>5. /\ policy' \in [Policies -> PolicyRecords]
        /\ \A q \in Policies : /\ policy'[q].status = policy[q].status
                               /\ policy'[q].corpus = policy[q].corpus
                               /\ policy'[q].ballot = policy[q].ballot
    <3>1. policy'[p] = [policy[p] EXCEPT !.count = policy[p].count + 1]
      BY <1>4, <2>2 DEF PolicyTypes
    <3>2. policy'[p] \in PolicyRecords
      BY <1>4, <2>4, <3>1 DEF PolicyRecords
    <3> QED
      BY <1>4, <2>2, <3>1, <3>2 DEF PolicyTypes, PolicyRecords
  <2>6. PolicyTypes' /\ UnpromotedOK'
    BY <1>2, <1>4, <1>6, <2>5 DEF Inv, PolicyTypes, UnpromotedOK
  <2>7. BallotTypes' /\ ReportTypes'
    <3>1. BallotTypes /\ ReportTypes
      BY TypeParts DEF Inv
    <3> QED
      BY <1>2, <2>5, <3>1 DEF BallotTypes, ReportTypes, answers
  <2>8. EarnedOK'
    <3>1. KeepsApproved
      BY <2>5 DEF KeepsApproved
    <3> QED
      BY <1>2, <3>1, SameAnswers, EarnedStays DEF answers
  <2>9. ActiveOK'
    BY <1>2, <1>6, <2>5 DEF Inv, ActiveOK, Active
  <2>10. DecisionTypes'
    BY <1>4, <2>2, <2>3 DEF DecisionTypes
  <2>11. FindingsOK'
    BY <1>4, <1>6, <2>2, <2>3, <2>5 DEF Inv, FindingsOK, DecisionTypes
  <2>12. TypeOK'
    <3>1. AnswerTypes'
      BY <1>2, AnswersUntouched
    <3> QED
      BY <1>3, <2>6, <2>7, <2>10, <3>1, TypesAfter
  <2> QED
    BY <2>6, <2>8, <2>9, <2>11, <2>12 DEF Inv
<1> QED
  BY <1>5, <1>6 DEF Resolve

LEMMA RecordAuditKeeps ==
  ASSUME Inv, NEW d \in Packets, RecordAudit(d)
  PROVE  Inv'
<1>1. /\ audit[d] \in {"pending", "overdue"}
      /\ UNCHANGED <<evidence, answers, approved, report, ballot, ended, packet, events>>
  BY DEF RecordAudit
<1>2. UNCHANGED <<corpus, contaminated, answers, approved, report, ballot, ended>>
  BY <1>1 DEF evidence
<1>3. PolicyTypes /\ DecisionTypes
  BY TypeParts DEF Inv
<1>4. EvidenceTypes'
  BY <1>1, EventsType, EvidenceUntouched
<1>5. PICK p \in Policies : p = packet[d]
  BY <1>1, <1>3 DEF DecisionTypes
<1>6. CASE audit' = [audit EXCEPT ![d] = "fine"] /\ UNCHANGED <<policy, incidents>>
  <2>1. Retires /\ incidents' \subseteq Policies
    BY <1>3, <1>6 DEF Retires, PolicyTypes
  <2>2. DecisionTypes' /\ FindingsOK'
    BY <1>1, <1>3, <1>5, <1>6 DEF Inv, DecisionTypes, FindingsOK
  <2>3. \A q \in Active' : policy[q].corpus \notin contaminated' /\ q \notin incidents'
    BY <1>2, <1>6, <2>1, StillActive
  <2> QED
    BY <1>2, <1>4, <1>6, <2>1, <2>2, <2>3, RetiringStep
<1>7. CASE audit' = [audit EXCEPT ![d] = "serious"] /\ SuspendWithIncident({packet[d]})
  <2>1. policy[p].status # "none"
    BY <1>5 DEF Inv, FindingsOK
  <2>2. Retires /\ incidents' \subseteq Policies /\ policy'[p].status = "suspended"
    BY <1>5, <1>7, <2>1, SuspensionRetires
  <2>3. incidents' = incidents \cup {p}
    BY <1>5, <1>7 DEF SuspendWithIncident
  <2>4. DecisionTypes' /\ FindingsOK'
    BY <1>1, <1>3, <1>5, <1>7, <2>2, <2>3, RetiringKeepsApproved
    DEF Inv, DecisionTypes, FindingsOK, KeepsApproved
  <2>5. \A q \in Active' : policy[q].corpus \notin contaminated' /\ q \notin incidents'
    BY <1>2, <2>2, <2>3, StillActive DEF Active
  <2> QED
    BY <1>2, <1>4, <2>2, <2>3, <2>4, <2>5, RetiringStep
<1> QED
  BY <1>6, <1>7 DEF RecordAudit

\* A step of decisions that concerns no policy.
LEMMA DecisionStep ==
  ASSUME Inv, Happens, UNCHANGED <<evidence, answers, authority>>, DecisionTypes', FindingsOK'
  PROVE  Inv'
<1>1. EvidenceTypes /\ UNCHANGED <<corpus, contaminated, policy, incidents>>
  BY TypeParts DEF Inv, evidence, authority
<1>2. corpus' \in Nat /\ corpus <= corpus'
  BY <1>1, AdvisorAssumption DEF EvidenceTypes
<1>3. PolicyTypes' /\ ReportTypes' /\ BallotTypes' /\ UnpromotedOK' /\ EarnedOK' /\ Active' = Active
  BY <1>2, PoliciesUntouched
<1>4. AnswerTypes' /\ EvidenceTypes'
  BY EventsType, EvidenceUntouched, AnswersUntouched
<1>5. ActiveOK'
  BY <1>1, <1>3 DEF Inv, ActiveOK
<1>6. TypeOK'
  BY <1>3, <1>4, TypesAfter
<1> QED
  BY <1>3, <1>5, <1>6 DEF Inv

LEMMA SettleKeeps ==
  ASSUME Inv, NEW d \in Packets, Settle(d)
  PROVE  Inv'
<1>1. /\ packet[d] = "open" /\ Happens /\ packet' = [packet EXCEPT ![d] = "settled"]
      /\ UNCHANGED <<evidence, answers, authority, audit>>
  BY DEF Settle
<1>2. DecisionTypes /\ audit[d] = "none"
  BY <1>1, TypeParts, AdvisorAssumption DEF Inv, DecisionTypes
<1>3. DecisionTypes'
  BY <1>1, <1>2 DEF DecisionTypes
<1>4. FindingsOK'
  BY <1>1, <1>2, AdvisorAssumption DEF Inv, FindingsOK, DecisionTypes, authority
<1> QED
  BY <1>1, <1>3, <1>4, DecisionStep

LEMMA AuditFallsDueKeeps ==
  ASSUME Inv, NEW d \in Packets, AuditFallsDue(d)
  PROVE  Inv'
<1>1. /\ audit[d] = "pending" /\ Happens /\ audit' = [audit EXCEPT ![d] = "overdue"]
      /\ UNCHANGED <<evidence, answers, authority, packet>>
  BY DEF AuditFallsDue
<1>2. DecisionTypes
  BY TypeParts DEF Inv
<1>3. DecisionTypes' /\ FindingsOK'
  BY <1>1, <1>2 DEF Inv, FindingsOK, DecisionTypes, authority
<1> QED
  BY <1>1, <1>3, DecisionStep

-----------------------------------------------------------------------------
(* The specification.                                                      *)

LEMMA InitInv ==
  ASSUME Init
  PROVE  Inv
<1>1. EvidenceTypes
  BY AdvisorAssumption DEF Init, EvidenceTypes
<1>2. AnswerTypes
  BY AdvisorAssumption DEF Init, AnswerTypes, InvocationRecords, NotAsked, IsInjective, ToSet
<1>3. PolicyTypes
  BY AdvisorAssumption DEF Init, PolicyTypes, PolicyRecords, Unapproved, IsInjective, ToSet
<1>4. ReportTypes
  BY DEF Init, ReportTypes, Reports, NoReport
<1>5. BallotTypes
  BY DEF Init, BallotTypes, BallotRecords, NoBallot, NoReport, Reports, Unapproved
<1>6. DecisionTypes
  BY DEF Init, DecisionTypes
<1>7. UnpromotedOK /\ EarnedOK
  BY DEF Init, UnpromotedOK, EarnedOK, Unapproved, NoReport, NoBallot
<1>8. ActiveOK /\ FindingsOK
  BY AdvisorAssumption DEF Init, ActiveOK, Active, FindingsOK, Unapproved
<1>9. TypeOK
  BY <1>1, <1>2, <1>3, <1>4, <1>5, <1>6, TypeParts
<1> QED
  BY <1>7, <1>8, <1>9 DEF Inv

LEMMA NextInv ==
  ASSUME Inv, [Next]_vars
  PROVE  Inv'
<1>1. CASE Evidence
  BY <1>1, ApproveSubjectKeeps, RecordCaseKeeps, ApproveCorpusKeeps, RecordContaminationKeeps DEF Evidence
<1>2. ASSUME NEW i \in Invocations, Invoking(i)
      PROVE  Inv'
  BY <1>2, QueueInvocationKeeps, AcquireLeaseKeeps, LeaseExpiresKeeps, CompleteKeeps, FailKeeps,
     CancelKeeps DEF Invoking
<1>3. ASSUME NEW p \in Policies, Governing(p)
      PROVE  Inv'
  BY <1>3, ApprovePolicyKeeps, CompileEvaluationKeeps, SuspendPolicyKeeps, PolicyEndsKeeps,
     CompilePromotionKeeps, ResolveKeeps DEF Governing
<1>4. ASSUME NEW b \in Ballots, Promote(b) \/ PromotionEnds(b)
      PROVE  Inv'
  BY <1>4, PromoteKeeps, PromotionEndsKeeps
<1>5. ASSUME NEW d \in Packets, RecordAudit(d) \/ Settle(d) \/ AuditFallsDue(d)
      PROVE  Inv'
  BY <1>5, RecordAuditKeeps, SettleKeeps, AuditFallsDueKeeps
<1>6. CASE UNCHANGED vars
  <2>1. UNCHANGED <<evidence, answers, authority, decisions, events, contaminated>>
    BY <1>6 DEF vars, evidence, answers, authority, decisions
  <2>2. EvidenceTypes /\ EvidenceTypes' /\ corpus' = corpus
    BY <1>6, <2>1, EventsType, EvidenceUntouched, TypeParts DEF Inv, vars
  <2>3. corpus' \in Nat /\ corpus <= corpus'
    BY <2>2, AdvisorAssumption DEF EvidenceTypes
  <2> QED
    BY <2>1, <2>2, <2>3, EvidenceStep
<1> QED
  BY <1>1, <1>2, <1>3, <1>4, <1>5, <1>6 DEF Next

LEMMA InvIsInvariant == Spec => []Inv
<1>1. Init => Inv
  BY InitInv
<1>2. Inv /\ [Next]_vars => Inv'
  BY NextInv
<1> QED
  BY <1>1, <1>2, PTL DEF Spec

LEMMA InvImpliesAdvisorInv ==
  ASSUME Inv
  PROVE  AdvisorInv
<1>1. PolicyTypes /\ BallotTypes /\ DecisionTypes
  BY TypeParts DEF Inv
<1>2. ASSUME NEW p \in Active
      PROVE  /\ ballot[policy[p].ballot].status = "resolved"
             /\ Passes(SubjectOf[p], HoldoutOf[policy[p].corpus], GroundsOf(p).answered)
             /\ policy[p].corpus \notin contaminated /\ p \notin incidents
             /\ \A d \in ResolvedBy(p) : audit[d] # "serious"
  <2>1. p \in Policies /\ policy[p].status = "active"
    BY DEF Active
  <2>2. policy[p].ballot \in Ballots
    BY <1>1, <2>1 DEF PolicyTypes, PolicyRecords
  <2>3. ballot[policy[p].ballot].status = "resolved" /\ ballot[policy[p].ballot].policy = p
    BY <1>1, <2>1 DEF PolicyTypes, BallotTypes
  <2>4. Passes(SubjectOf[p], HoldoutOf[policy[p].corpus], GroundsOf(p).answered)
    <3>1. PICK r \in Reports : r = ballot[policy[p].ballot].report
      BY <1>1, <2>2 DEF BallotTypes, BallotRecords
    <3>2. Grounded(p, r)
      BY <2>1, <2>2, <2>3, <3>1 DEF Inv, EarnedOK
    <3>3. PICK k \in Nat : k = policy[p].corpus
      BY <1>1, <2>1, AdvisorAssumption DEF PolicyTypes, PolicyRecords
    <3> QED
      BY <3>1, <3>2, <3>3 DEF Grounded, GroundsOf
  <2>5. policy[p].corpus \notin contaminated /\ p \notin incidents
    BY DEF Inv, ActiveOK
  <2>6. \A d \in ResolvedBy(p) : audit[d] # "serious"
    BY <2>5 DEF Inv, FindingsOK, ResolvedBy
  <2> QED
    BY <2>3, <2>4, <2>5, <2>6
<1> QED
  BY <1>2 DEF Inv, AdvisorInv, AuthorityIsBacked

(* Authority is earned and nothing is known against it (decision.promote-  *)
(* advisor-policy and whatever suspends), for any answers and audits.      *)
THEOREM AdvisorInvHolds == Spec => []AdvisorInv
<1>1. Inv => AdvisorInv
  BY InvImpliesAdvisorInv
<1> QED
  BY <1>1, InvIsInvariant, PTL

-----------------------------------------------------------------------------
(* What has lost its authority.                                            *)

LEMMA NeverBack ==
  ASSUME Inv, [Next]_vars, NEW p \in Policies, policy[p].status \in {"suspended", "superseded"}
  PROVE  policy'[p].status \in {"suspended", "superseded"}
<1>1. PolicyTypes /\ BallotTypes /\ DecisionTypes
  BY TypeParts DEF Inv
<1>2. policy[p] \in PolicyRecords
  BY <1>1 DEF PolicyTypes
<1>3. ASSUME NEW ps, SuspendWithIncident(ps)
      PROVE  policy'[p].status \in {"suspended", "superseded"}
  BY <1>2, <1>3 DEF SuspendWithIncident, PolicyRecords
<1>4. ASSUME UNCHANGED policy
      PROVE  policy'[p].status \in {"suspended", "superseded"}
  BY <1>4
<1>5. CASE Evidence
  BY <1>3, <1>4, <1>5 DEF Evidence, ApproveSubject, RecordCase, ApproveCorpus, RecordContamination, authority
<1>6. ASSUME NEW i \in Invocations, Invoking(i)
      PROVE  policy'[p].status \in {"suspended", "superseded"}
  BY <1>4, <1>6 DEF Invoking, QueueInvocation, AcquireLease, LeaseExpires, Complete, Fail, Cancel, authority
<1>7. ASSUME NEW q \in Policies, ApprovePolicy(q)
      PROVE  policy'[p].status \in {"suspended", "superseded"}
  <2>1. p # q
    BY <1>1, <1>7 DEF ApprovePolicy, PolicyTypes
  <2>2. CASE Foremost(p)
    <3>1. policy'[p] = [policy[p] EXCEPT !.status = "superseded"]
      BY <1>7, <2>1, <2>2 DEF ApprovePolicy
    <3> QED
      BY <1>2, <3>1 DEF PolicyRecords
  <2>3. CASE ~Foremost(p)
    BY <1>7, <2>1, <2>3 DEF ApprovePolicy
  <2> QED
    BY <2>2, <2>3
<1>8. ASSUME NEW q \in Policies, SuspendPolicy(q)
      PROVE  policy'[p].status \in {"suspended", "superseded"}
  BY <1>1, <1>8 DEF SuspendPolicy, PolicyTypes
<1>9. ASSUME NEW q \in Policies, NEW i \in Invocations, Resolve(q, i)
      PROVE  policy'[p].status \in {"suspended", "superseded"}
  <2>1. CASE SuspendWithIncident({q})
    BY <1>3, <2>1
  <2>2. CASE policy' = [policy EXCEPT ![q].count = @ + 1]
    BY <1>1, <1>2, <2>2 DEF PolicyTypes, PolicyRecords
  <2> QED
    BY <1>9, <2>1, <2>2 DEF Resolve, Applied
<1>10. ASSUME NEW q \in Policies, Governing(q)
       PROVE  policy'[p].status \in {"suspended", "superseded"}
  <2>1. CASE CompileEvaluation(q) \/ PolicyEnds(q) \/ \E b \in Ballots : CompilePromotion(b, q)
    BY <1>4, <2>1 DEF CompileEvaluation, PolicyEnds, CompilePromotion
  <2> QED
    BY <1>7, <1>8, <1>9, <1>10, <2>1 DEF Governing
<1>11. ASSUME NEW b \in Ballots, Promote(b)
       PROVE  policy'[p].status \in {"suspended", "superseded"}
  <2>1. policy[ballot[b].policy].status = "shadow"
    BY <1>11 DEF Promote, Promotable
  <2>2. policy'[p] = policy[p]
    BY <1>1, <1>11, <2>1 DEF Promote, Promoted, PolicyTypes
  <2> QED
    BY <2>2
<1>12. ASSUME NEW b \in Ballots, PromotionEnds(b)
       PROVE  policy'[p].status \in {"suspended", "superseded"}
  BY <1>4, <1>12 DEF PromotionEnds
<1>13. ASSUME NEW d \in Packets, RecordAudit(d) \/ Settle(d) \/ AuditFallsDue(d)
       PROVE  policy'[p].status \in {"suspended", "superseded"}
  BY <1>3, <1>4, <1>13 DEF RecordAudit, Settle, AuditFallsDue, authority
<1>14. CASE UNCHANGED vars
  BY <1>14 DEF vars
<1> QED
  BY <1>5, <1>6, <1>10, <1>11, <1>12, <1>13, <1>14 DEF Next

(* What was suspended or superseded never has authority again: a promotion *)
(* packet is about a policy in shadow, which no command makes it again.    *)
THEOREM SuspendedForGoodHolds == Spec => SuspendedForGood
<1>1. Inv /\ [Next]_vars =>
        [\A p \in Policies : policy[p].status \in {"suspended", "superseded"} =>
           policy'[p].status \in {"suspended", "superseded"}]_vars
  BY NeverBack
<1> QED
  BY <1>1, InvIsInvariant, PTL DEF Spec, SuspendedForGood
=============================================================================
