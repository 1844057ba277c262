------------------------------ MODULE Advisor ------------------------------
(***************************************************************************)
(* The advisor of packages/kernel/src/advisor.ts: who may decide a routine *)
(* decision without an operator.                                           *)
(*                                                                         *)
(* A subject (a model and its prompt) answers cases whose right option is  *)
(* known.  The answers earn a policy an evaluation report; an operator     *)
(* promotes the policy on it; then the subject's recommendations resolve   *)
(* decision packets, some of them audited, until the policy is suspended.  *)
(* Every command is one transaction of the kernel.  Supervisors            *)
(* (packages/runtime/src/advisor-supervisor.ts) lease the questions.       *)
(*                                                                         *)
(* All cases match the matcher of every policy, as do the packets.  How    *)
(* many cases a report needs (fifty, a hundred) is left out; the share of  *)
(* them that must be answered is Coverage.  As no answer may be wrong, the *)
(* Wilson bound of 0.95 is met from 52 answers on, and 80 are asked for.   *)
(***************************************************************************)
EXTENDS Integers, Sequences, FiniteSets, SequencesExt

CONSTANTS
  Subjects,
  PriorOf,      \* subject -> the subject it revises, or None
  Cases, Packets,
  CasesOf,      \* corpus revision, from 1 on -> the cases in it
  HoldoutOf,    \* corpus revision -> those that are held out, not for calibration
  Coverage,     \* per cent of the cases that must be answered, 80 in the code
  Policies,     \* revisions of one policy
  SubjectOf,    \* policy revision -> its subject
  Invocations,
  Asked,        \* invocation -> the subject that is asked
  About,        \* invocation -> the case or packet; about packets in purpose promoted
  Ballots,      \* promotion packets
  None,
  Supervisors,  \* how many supervisors answer invocations
  Tries,        \* attempts after which a failed invocation is not tried again
  Limit,        \* maxAutomaticResolutions
  AuditFirst,   \* automatic resolutions of a policy that are audited in any case
  MaxAsked,     \* bound: invocations that are queued
  MaxEvents     \* bound: what is revised, expires, is cancelled, contaminated or suspended,
                \* or decided by an operator

Corpora == 1..Len(CasesOf)

ASSUME AdvisorAssumption ==
  /\ PriorOf \in [Subjects -> Subjects \cup {None}]
  /\ None \notin Subjects \cup Policies \cup Ballots /\ Policies \cap {"open", "settled"} = {}
  /\ CasesOf \in Seq(SUBSET Cases) /\ IsFiniteSet(Cases) /\ Coverage \in 0..100
  /\ HoldoutOf \in [Corpora -> SUBSET Cases] /\ \A k \in Corpora : HoldoutOf[k] \subseteq CasesOf[k]
  /\ SubjectOf \in [Policies -> Subjects] /\ Cases \cap Packets = {}
  /\ Asked \in [Invocations -> Subjects] /\ About \in [Invocations -> Cases \cup Packets]
  /\ Supervisors \in Nat /\ Tries \in Nat \ {0} /\ Limit \in Nat /\ AuditFirst \in Nat
  /\ MaxAsked \in Nat /\ MaxEvents \in Nat

VARIABLES
  subjects,     \* subjects that are approved
  cases,        \* cases that are recorded
  corpus,       \* the corpus revision in force, 0 before the first
  contaminated, \* corpus revisions with a contaminated case
  invocation,   \* invocation -> its status, attempts, lease and answer
  queue,        \* invocations about cases in the order in which they were queued
  approved,     \* policy revisions in the order in which they were approved
  policy,       \* policy revision -> status, corpus, promotion packet, resolutions
  report,       \* policy revision -> its latest evaluation report
  ballot,       \* promotion packet -> status, policy and the report it shows
  ended,        \* policies and promotions whose expiresAt has passed
  incidents,    \* policies with an incident; none is ever closed
  packet,       \* packet revision -> open, settled, or the policy that resolved it
  audit,        \* packet -> audit of its automatic resolution
  events        \* how often something happened of itself

evidence == <<subjects, cases, corpus, contaminated>>
answers == <<invocation, queue>>
authority == <<approved, policy, report, ballot, ended, incidents>>
decisions == <<packet, audit>>
vars == <<subjects, cases, corpus, contaminated, invocation, queue, approved, policy,
          report, ballot, ended, incidents, packet, audit, events>>

-----------------------------------------------------------------------------
NotAsked == [status |-> "none", attempt |-> 0, expired |-> FALSE, answer |-> "none"]
Unapproved == [status |-> "none", corpus |-> 0, ballot |-> None, count |-> 0]
NoReport == [eligible |-> FALSE, cases |-> {}, queued |-> 0, answered |-> {}]
NoBallot == [status |-> "none", policy |-> None, report |-> NoReport]

InvocationRecords ==
  [status: {"none", "pending", "leased", "succeeded", "failed", "cancelled"},
   attempt: 0..Tries, expired: BOOLEAN, answer: {"none", "right", "wrong", "abstains"}]
PolicyRecords ==
  [status: {"none", "shadow", "active", "suspended", "superseded"},
   corpus: 0..Len(CasesOf), ballot: Ballots \cup {None}, count: 0..Limit]
\* What a report has seen: throughPosition tells what was recorded, asked and answered by then.
Reports ==
  [eligible: BOOLEAN, cases: SUBSET Cases, queued: Nat, answered: SUBSET Invocations]
BallotRecords ==
  [status: {"none", "open", "resolved"}, policy: Policies \cup {None}, report: Reports]
ResolvedBy(p) == {d \in Packets : packet[d] = p}

\* Statuses, and what goes with them.
TypeOK ==
  /\ subjects \subseteq Subjects /\ cases \subseteq Cases
  /\ corpus \in 0..Len(CasesOf) /\ contaminated \subseteq 1..corpus
  /\ invocation \in [Invocations -> InvocationRecords]
  /\ queue \in Seq(Invocations) /\ IsInjective(queue)
  /\ approved \in Seq(Policies) /\ IsInjective(approved)
  /\ policy \in [Policies -> PolicyRecords] /\ report \in [Policies -> Reports]
  /\ ballot \in [Ballots -> BallotRecords]
  /\ ended \subseteq Policies \cup Ballots /\ incidents \subseteq Policies
  /\ packet \in [Packets -> {"open", "settled"} \cup Policies]
  /\ audit \in [Packets -> {"none", "pending", "overdue", "fine", "serious"}]
  /\ events \in 0..MaxEvents
  /\ \A i \in Invocations :
       /\ invocation[i].expired => invocation[i].status = "leased"
       /\ invocation[i].answer # "none" <=> invocation[i].status = "succeeded"
       /\ i \in ToSet(queue) <=> About[i] \in Cases /\ invocation[i].status # "none"
  /\ \A p \in Policies :
       /\ policy[p].status = "none" <=> p \notin ToSet(approved)
       /\ policy[p].corpus <= corpus /\ report[p].queued <= Len(queue)
       /\ policy[p].status = "active" => policy[p].ballot # None
       /\ policy[p].ballot # None =>
            ballot[policy[p].ballot].status = "resolved" /\ ballot[policy[p].ballot].policy = p
  /\ \A b \in Ballots :
       /\ ballot[b].status # "none" => ballot[b].policy \in Policies /\ ballot[b].report.eligible
       /\ ballot[b].status = "resolved" => policy[ballot[b].policy].ballot = b
  /\ \A d \in Packets : audit[d] # "none" => packet[d] \in Policies

Init ==
  /\ subjects = {} /\ cases = {} /\ corpus = 0 /\ contaminated = {}
  /\ invocation = [i \in Invocations |-> NotAsked] /\ queue = <<>>
  /\ approved = <<>> /\ policy = [p \in Policies |-> Unapproved]
  /\ report = [p \in Policies |-> NoReport] /\ ballot = [b \in Ballots |-> NoBallot]
  /\ ended = {} /\ incidents = {}
  /\ packet = [d \in Packets |-> "open"] /\ audit = [d \in Packets |-> "none"]
  /\ events = 0

Happens == events < MaxEvents /\ events' = events + 1
HappensIf(condition) == IF condition THEN Happens ELSE UNCHANGED events

-----------------------------------------------------------------------------
(* Suspension.                                                             *)

\* suspensionEvents: an incident, and the policy is suspended.
SuspendWithIncident(ps) ==
  /\ policy' = [p \in Policies |->
                  IF p \in ps THEN [policy[p] EXCEPT !.status = "suspended"] ELSE policy[p]]
  /\ incidents' = incidents \cup ps

Active == {p \in Policies : policy[p].status = "active"}

-----------------------------------------------------------------------------
(* Evidence: subjects, cases and corpora.                                  *)

\* The revision of a subject takes authority from the policies of the prior one.
ApproveSubject(s) ==
  /\ s \notin subjects /\ PriorOf[s] \in subjects \cup {None} /\ HappensIf(subjects # {})
  /\ subjects' = subjects \cup {s}
  /\ SuspendWithIncident({p \in Active : SubjectOf[p] = PriorOf[s]})
  /\ UNCHANGED <<cases, corpus, contaminated, answers, approved, report, ballot, ended, decisions>>

RecordCase(c) ==
  /\ c \notin cases /\ HappensIf(corpus > 0)
  /\ cases' = cases \cup {c}
  /\ UNCHANGED <<subjects, corpus, contaminated, answers, authority, decisions>>

\* A corpus revision supersedes the one in force; policies stay what they are.
ApproveCorpus ==
  /\ corpus + 1 \in Corpora /\ CasesOf[corpus + 1] \subseteq cases /\ HappensIf(corpus > 0)
  /\ corpus' = corpus + 1
  /\ UNCHANGED <<subjects, cases, contaminated, answers, authority, decisions>>

RecordContamination(k) ==
  /\ k \in 1..corpus \ contaminated /\ Happens
  /\ contaminated' = contaminated \cup {k}
  /\ SuspendWithIncident({p \in Active : policy[p].corpus = k})
  /\ UNCHANGED <<subjects, cases, corpus, answers, approved, report, ballot, ended, decisions>>

-----------------------------------------------------------------------------
(* Invocations.                                                            *)

QueueInvocation(i) ==
  /\ Cardinality({k \in Invocations : invocation[k].status # "none"}) < MaxAsked
  /\ invocation[i].status = "none" /\ Asked[i] \in subjects
  /\ About[i] \in cases \cup Packets
  /\ invocation' = [invocation EXCEPT ![i].status = "pending"]
  /\ queue' = IF About[i] \in Cases THEN Append(queue, i) ELSE queue
  /\ UNCHANGED <<evidence, authority, decisions, events>>

Becomes(i, new) == invocation' = [invocation EXCEPT ![i] = new]

Leased(i, expired) == invocation[i].status = "leased" /\ invocation[i].expired = expired

\* tick: a supervisor stays with its live lease, then takes an expired one, then
\* what is pending and due.
Claimable(i) ==
  /\ Cardinality({k \in Invocations : Leased(k, FALSE)}) < Supervisors
  /\ \/ Leased(i, TRUE)
     \/ invocation[i].status = "pending" /\ \A k \in Invocations : ~Leased(k, TRUE)

AcquireLease(i) ==
  /\ Claimable(i)
  /\ LET n == invocation[i].attempt
     IN Becomes(i, [NotAsked EXCEPT !.status = "leased", !.attempt = IF n < Tries THEN n + 1 ELSE n])
  /\ UNCHANGED <<queue, evidence, authority, decisions, events>>

LeaseExpires(i) ==
  /\ Leased(i, FALSE) /\ Happens
  /\ invocation' = [invocation EXCEPT ![i].expired = TRUE]
  /\ UNCHANGED <<queue, evidence, authority, decisions>>

\* What has ended is not attempted any more.
Ends(i, status, answer) == Becomes(i, [NotAsked EXCEPT !.status = status, !.answer = answer])

\* Only under a live lease. Of a case the label tells which option is right; of a packet
\* it is one that the policy allows.
Complete(i) ==
  /\ Leased(i, FALSE)
  /\ \E answer \in {"right", "wrong", "abstains"} : Ends(i, "succeeded", answer)
  /\ UNCHANGED <<queue, evidence, authority, decisions, events>>

TriedAgain(i) == Becomes(i, [invocation[i] EXCEPT !.expired = FALSE, !.status = "pending"])

\* Fault (FailuresEnd): after the last delay the first one is taken again.
FailAgain(i) ==
  /\ invocation[i].status = "leased"
  /\ Ends(i, "failed", "none") \/ TriedAgain(i)
  /\ UNCHANGED <<queue, evidence, authority, decisions, events>>

\* By the holder of the lease, expired or not; tried again while there is a delay.
Fail(i) ==
  /\ invocation[i].status = "leased"
  /\ \/ Ends(i, "failed", "none")
     \/ invocation[i].attempt < Tries /\ TriedAgain(i)
  /\ UNCHANGED <<queue, evidence, authority, decisions, events>>

Cancel(i) ==
  /\ invocation[i].status \in {"pending", "leased"} /\ Happens
  /\ Ends(i, "cancelled", "none")
  /\ UNCHANGED <<queue, evidence, authority, decisions>>

Answered == {i \in Invocations : invocation[i].status = "succeeded"}

\* evaluationForCases: of the answers to a case, among those given, the one that was
\* asked for last counts.
Counts(i, given) ==
  \E n \in DOMAIN queue :
    /\ queue[n] = i /\ i \in given
    /\ \A k \in n + 1 .. Len(queue) :
         ~(queue[k] \in given /\ Asked[queue[k]] = Asked[i] /\ About[queue[k]] = About[i])

\* The cases of cs that the answer of s that counts is right about, or wrong, or abstains from.
Scored(s, cs, given, answer) ==
  {c \in cs : \E i \in given : Asked[i] = s /\ About[i] = c
                               /\ Counts(i, given) /\ invocation[i].answer = answer}

\* A share of the cases is answered, and none of the answers is wrong.
Passes(s, cs, given) ==
  /\ Scored(s, cs, given, "wrong") = {}
  /\ Cardinality(Scored(s, cs, given, "right")) * 100 >= Coverage * Cardinality(cs)

-----------------------------------------------------------------------------
(* Policies: approval, evaluation and promotion.                           *)

\* The first revision that is not superseded, in the order of approval.
Foremost(p) ==
  \E n \in DOMAIN approved :
    /\ approved[n] = p /\ policy[p].status # "superseded"
    /\ \A k \in 1..(n - 1) : policy[approved[k]].status = "superseded"

\* The revision it continues is superseded, also when that is suspended.
ApprovePolicy(p) ==
  /\ p \notin ToSet(approved) /\ SubjectOf[p] \in subjects /\ corpus > 0 /\ HappensIf(approved # <<>>)
  /\ approved' = Append(approved, p)
  /\ policy' = [q \in Policies |->
                  CASE q = p -> [Unapproved EXCEPT !.status = "shadow", !.corpus = corpus]
                    [] q # p /\ Foremost(q) -> [policy[q] EXCEPT !.status = "superseded"]
                    [] OTHER -> policy[q]]
  /\ UNCHANGED <<evidence, answers, report, ballot, ended, incidents, decisions>>

\* Of the recent cases each must have been answered somehow.
RecentPass(s, recent) ==
  Passes(s, recent, Answered) /\ \A c \in recent : \E i \in Answered : Asked[i] = s /\ About[i] = c

\* Fault (AdvisorInv): a wrong answer about a case held out does not block the report.
EarnsByRecent(p, recent) ==
  corpus \notin contaminated /\ RecentPass(SubjectOf[p], recent)

\* The blockers of a report: contamination, and answers to the cases held out and to recent ones.
Earns(p, recent) ==
  /\ corpus \notin contaminated /\ RecentPass(SubjectOf[p], recent)
  /\ Passes(SubjectOf[p], HoldoutOf[corpus], Answered)

\* The caller names the recent cases. What a report that is not eligible has seen does
\* not matter, nor does a report about a policy of another status.
CompileEvaluation(p) ==
  /\ policy[p].status \in {"shadow", "active"} /\ policy[p].corpus = corpus
  /\ \E recent \in (SUBSET cases) \ {{}} :
       report' = [report EXCEPT ![p] =
         IF Earns(p, recent)
         THEN [eligible |-> TRUE, cases |-> cases, queued |-> Len(queue), answered |-> Answered]
         ELSE NoReport]
  /\ UNCHANGED <<evidence, answers, approved, policy, ballot, ended, incidents, decisions, events>>

\* A case recorded, or an answer to one asked for, after the report.
EvidenceChanged(p, r) ==
  \/ cases # r.cases
  \/ \E n \in r.queued + 1 .. Len(queue) : Asked[queue[n]] = SubjectOf[p] /\ About[queue[n]] \in cases

Promotable(p, r) ==
  /\ policy[p].status = "shadow" /\ r.eligible
  /\ policy[p].corpus = corpus /\ corpus \notin contaminated
  /\ p \notin incidents /\ p \notin ended
  /\ ~EvidenceChanged(p, r)

\* A packet for the operator, on the latest report of the policy.
CompilePromotion(b, p) ==
  /\ ballot[b].status = "none" /\ Promotable(p, report[p])
  /\ ballot' = [ballot EXCEPT ![b] = [status |-> "open", policy |-> p, report |-> report[p]]]
  /\ UNCHANGED <<evidence, answers, approved, policy, report, ended, incidents, decisions, events>>

Promoted(b) ==
  /\ policy' = [policy EXCEPT ![ballot[b].policy].status = "active", ![ballot[b].policy].ballot = b]
  /\ ballot' = [ballot EXCEPT ![b].status = "resolved"]

\* Fault (SuspendedForGood): the packet that is still open is enough.
PromoteByPacket(b) ==
  /\ ballot[b].status = "open" /\ b \notin ended
  /\ policy[ballot[b].policy].ballot = None
  /\ Promoted(b)
  /\ UNCHANGED <<evidence, answers, approved, report, ended, incidents, decisions, events>>

\* decision.promote-advisor-policy: all of it again, but not whether the report is the latest.
Promote(b) ==
  /\ ballot[b].status = "open" /\ b \notin ended
  /\ Promotable(ballot[b].policy, ballot[b].report)
  /\ Promoted(b)
  /\ UNCHANGED <<evidence, answers, approved, report, ended, incidents, decisions, events>>

\* The operator or the system suspends by hand, without an incident.
SuspendPolicy(p) ==
  /\ policy[p].status \in {"active", "shadow"} /\ Happens
  /\ policy' = [policy EXCEPT ![p].status = "suspended"]
  /\ UNCHANGED <<evidence, answers, approved, report, ballot, ended, incidents, decisions>>

-----------------------------------------------------------------------------
(* advisor.resolve, and the audits of what it has resolved.                *)

Exhausted(p) ==
  p \in ended \/ policy[p].ballot \in ended \/ policy[p].count >= Limit

Unhealthy(p) ==
  ~report[p].eligible \/ policy[p].corpus # corpus \/ EvidenceChanged(p, report[p]) \/ p \in incidents

Overdue(p) == \E d \in ResolvedBy(p) : audit[d] = "overdue"

Stops(p) == Exhausted(p) \/ Unhealthy(p) \/ Overdue(p)

\* automaticAuditSelected: the first ones all, of the others a share.
Sampled(p) == IF policy[p].count < AuditFirst THEN {TRUE} ELSE BOOLEAN

\* The decision and its resolution, and an audit of it if it is sampled.
Applied(p, d) ==
  /\ packet' = [packet EXCEPT ![d] = p]
  /\ \E selected \in Sampled(p) :
       audit' = [audit EXCEPT ![d] = IF selected THEN "pending" ELSE "none"]
  /\ policy' = [policy EXCEPT ![p].count = @ + 1]

\* What speaks against the policy suspends it, whatever recommendation has come.
Resolve(p, i) ==
  /\ p \in Active /\ invocation[i].status = "succeeded"
  /\ \/ Stops(p) /\ SuspendWithIncident({p}) /\ UNCHANGED decisions
     \/ /\ ~Stops(p) /\ About[i] \in Packets /\ packet[About[i]] = "open"
        /\ Asked[i] = SubjectOf[p] /\ invocation[i].answer = "right"
        /\ Applied(p, About[i]) /\ UNCHANGED incidents
  /\ UNCHANGED <<evidence, answers, approved, report, ballot, ended, events>>

\* A serious finding suspends the policy, whatever its status is, and is paged.
RecordAudit(d) ==
  /\ audit[d] \in {"pending", "overdue"}
  /\ \/ audit' = [audit EXCEPT ![d] = "fine"] /\ UNCHANGED <<policy, incidents>>
     \/ audit' = [audit EXCEPT ![d] = "serious"] /\ SuspendWithIncident({packet[d]})
  /\ UNCHANGED <<evidence, answers, approved, report, ballot, ended, packet, events>>

-----------------------------------------------------------------------------
(* What happens elsewhere.                                                 *)

\* An operator resolves the packet, or a new revision takes its place.
Settle(d) ==
  /\ packet[d] = "open" /\ Happens
  /\ packet' = [packet EXCEPT ![d] = "settled"]
  /\ UNCHANGED <<evidence, answers, authority, audit>>

AuditFallsDue(d) ==
  /\ audit[d] = "pending" /\ Happens
  /\ audit' = [audit EXCEPT ![d] = "overdue"]
  /\ UNCHANGED <<evidence, answers, authority, packet>>

PolicyEnds(p) ==
  /\ policy[p].status \in {"shadow", "active"} /\ p \notin ended /\ Happens
  /\ ended' = ended \cup {p} \cup {b \in Ballots : ballot[b].policy = p}
  /\ UNCHANGED <<evidence, answers, approved, policy, report, ballot, incidents, decisions>>

\* Thirty days after the packet was compiled.
PromotionEnds(b) ==
  /\ ballot[b].status # "none" /\ b \notin ended /\ Happens
  /\ ended' = ended \cup {b}
  /\ UNCHANGED <<evidence, answers, approved, policy, report, ballot, incidents, decisions>>

-----------------------------------------------------------------------------
Evidence ==
  \/ \E s \in Subjects : ApproveSubject(s)
  \/ \E c \in Cases : RecordCase(c)
  \/ ApproveCorpus
  \/ \E k \in Corpora : RecordContamination(k)

Invoking(i) ==
  QueueInvocation(i) \/ AcquireLease(i) \/ LeaseExpires(i) \/ Complete(i) \/ Fail(i) \/ Cancel(i)

Governing(p) ==
  \/ ApprovePolicy(p) \/ CompileEvaluation(p) \/ SuspendPolicy(p) \/ PolicyEnds(p)
  \/ \E b \in Ballots : CompilePromotion(b, p)
  \/ \E i \in Invocations : Resolve(p, i)

Next ==
  \/ Evidence
  \/ \E i \in Invocations : Invoking(i)
  \/ \E p \in Policies : Governing(p)
  \/ \E b \in Ballots : Promote(b) \/ PromotionEnds(b)
  \/ \E d \in Packets : RecordAudit(d) \/ Settle(d) \/ AuditFallsDue(d)

Spec == Init /\ [][Next]_vars

\* A supervisor is at work, and a call of the adapter returns: before its lease is over,
\* but for MaxEvents times.
FairSpec ==
  /\ Spec
  /\ \A i \in Invocations :
       WF_vars(AcquireLease(i)) /\ WF_vars(Leased(i, FALSE) /\ (Complete(i) \/ Fail(i)))

-----------------------------------------------------------------------------
\* The report on which an operator has promoted the policy.
GroundsOf(p) == ballot[policy[p].ballot].report

(* A policy with authority has earned it and nothing is known against it:  *)
(* its promotion was resolved by an operator, on a report about answers of *)
(* its subject of which none that counted then was wrong about a held out  *)
(* case and enough were right; the corpus is not contaminated, there is no *)
(* incident and no serious finding about what it resolved.                 *)
AuthorityIsBacked ==
  \A p \in Active :
    /\ ballot[policy[p].ballot].status = "resolved"
    /\ Passes(SubjectOf[p], HoldoutOf[policy[p].corpus], GroundsOf(p).answered)
    /\ policy[p].corpus \notin contaminated /\ p \notin incidents
    /\ \A d \in ResolvedBy(p) : audit[d] # "serious"

(* decision-policy.promote and what suspends: no step of the corpus, the   *)
(* audits or the subjects leaves authority without its grounds.            *)
AdvisorInv == TypeOK /\ AuthorityIsBacked

(* A policy that was suspended or superseded never has authority again: a  *)
(* promotion packet compiled before does not bring it back.                *)
SuspendedForGood ==
  [][\A p \in Policies : policy[p].status \in {"suspended", "superseded"} =>
       policy'[p].status \in {"suspended", "superseded"}]_vars

(* advisor.ts:1657, of a promoted policy: "Serious disagreement, drift,    *)
(* contamination, or overdue audit suspends authority".  Serious           *)
(* disagreement is what an evaluation calls a wrong answer that counts.    *)
(* So while there is one, about a held out case, the policy resolves no    *)
(* packet.                                                                 *)
SeriousDisagreementSuspends ==
  [][\A p \in Policies, d \in Packets : packet'[d] = p /\ packet[d] # p =>
       Scored(SubjectOf[p], HoldoutOf[policy[p].corpus], Answered, "wrong") = {}]_vars

(* What is asked is answered, fails or is cancelled, however often a call  *)
(* of the adapter fails, as long as leases run out only MaxEvents times: a *)
(* call that fails is counted, a lease that was lost is not.               *)
FailuresEnd ==
  <>[](\A i \in Invocations : invocation[i].status \notin {"pending", "leased"})

=============================================================================
