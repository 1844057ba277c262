----------------------------- MODULE Attention -----------------------------
(***************************************************************************)
(* What the kernel puts before the operator (packages/kernel/src/domain.ts,*)
(* model.ts and sqlite-kernel.ts), and the notifications about it that     *)
(* packages/runtime/src/attention-delivery.ts sends.                       *)
(*                                                                         *)
(* Routed issues, denied capabilities, outcome packets and requests of the *)
(* operator are sources.  A supervisor compiles them, the oldest first,    *)
(* into decision packets: one for each source and kinds of options, with a *)
(* new revision whenever what it shows has changed.  A revision is queued  *)
(* or paged; a page is leased, sent and recorded by delivery supervisors.  *)
(*                                                                         *)
(* compileAttention reads the state and executes attention.compile later,  *)
(* with the position it has read: any event in between makes it stale.     *)
(***************************************************************************)
EXTENDS Integers, Sequences, FiniteSets

CONSTANTS
  Sources,
  Kind,         \* source -> what it is
  Reserved,     \* sources that are reserved or safety critical
  OneWay,       \* other sources that are one-way doors
  Versioned,    \* requests whose target or evidence is the program in one version
  Timed,        \* requests with a deadline
  PagesRoutine, \* policies that page what is routine
  PageBudget,   \* policy -> the routine pages it allows in its window
  Retries,      \* how many delays retryDelaysMs has
  Compilers, Pagers, None,
  MaxPolicy,    \* bound: policy revisions an operator approves
  MaxRun,       \* bound: source -> version its affected run reaches
  MaxRevision,  \* bound: revisions of a packet
  MaxSources,   \* bound: sources that occur
  MaxChanges    \* bound: runs and programs that move, policies, deadlines, leases
                \* that expire and crashes

\* sourceMaterial: a denied capability is reserved and safety critical, an outcome
\* never is, and only a request has a deadline or names a version of the program.
Classified ==
  /\ \A s \in Sources : Kind[s] = "approval" => s \in Reserved
  /\ \A s \in Reserved : Kind[s] # "outcome"
  /\ \A s \in Versioned \cup Timed : Kind[s] = "request"

WellFormed ==
  /\ Kind \in [Sources -> {"issue", "approval", "outcome", "request"}]
  /\ Reserved \cup OneWay \cup Versioned \cup Timed \subseteq Sources
  /\ Classified
  /\ MaxPolicy \in Nat /\ PagesRoutine \subseteq 1..MaxPolicy
  /\ PageBudget \in [0..MaxPolicy -> Nat] /\ PageBudget[0] = 0
  /\ MaxRun \in [Sources -> Nat] /\ MaxRevision \in Nat /\ Retries \in Nat
  /\ MaxSources \in Nat /\ MaxChanges \in Nat
  /\ None \notin Compilers \cup Pagers

ASSUME AttentionAssumption == WellFormed

VARIABLES
  source,   \* source -> absent, open or over
  order,    \* the sources in the order in which they occurred
  run,      \* source -> version of the run it offers to cancel, 0: none is live
  inScope,  \* versioned requests whose program still has the version
  late,     \* requests whose deadline has passed
  policy,   \* the active attention policy, 0: the default of the kernel
  packet,   \* packet -> status, current revision and what that shows
  page,     \* packet -> revision -> its delivery
  reading,  \* compiler -> the candidates compileAttention has read
  calling,  \* pager -> the delivery it is about to send or has sent
  receipts, \* deliveries the provider has accepted, by idempotency key
  changes   \* how often something changed from outside

questions == <<source, order, run, inScope, late>>
deliveries == <<calling, receipts>>
vars == <<source, order, run, inScope, late, policy, packet, page, reading, calling, receipts, changes>>

-----------------------------------------------------------------------------
\* The kinds of its options are part of a packet's key: whether it can cancel.
Packets == {p \in Sources \X BOOLEAN : p[2] => MaxRun[p[1]] > 0}
PacketOf(s) == <<s, run[s] > 0>>
PacketsOf(s) == {p \in Packets : p[1] = s}
Deliveries == Packets \X (1..MaxRevision)

Unopened == [status |-> "none", revision |-> 0, acked |-> FALSE, run |-> 0, policy |-> 0]
NoPage == [status |-> "none", attempts |-> 0, owner |-> None, lease |-> "none"]
NotCalling == [delivery |-> None, fence |-> 0, answer |-> "none"]

Closed(s) == \E p \in PacketsOf(s) : packet[p].status \in {"resolved", "expired"}
Live(d) == d.status \in {"pending", "leased"}
Settled(status) == [NoPage EXCEPT !.status = status]

PacketRecords ==
  [status: {"none", "open", "resolved", "expired"}, revision: 0..MaxRevision,
   acked: BOOLEAN, run: Nat, policy: 0..MaxPolicy]
PageRecords ==
  [status: {"none", "pending", "leased", "delivered", "failed", "obsolete"},
   attempts: Nat, owner: Pagers \cup {None}, lease: {"none", "held", "expired"}]
Calls ==
  [delivery: Deliveries \cup {None}, fence: Nat,
   answer: {"none", "accepted", "refused", "permanent"}]

TypeOK ==
  /\ source \in [Sources -> {"absent", "open", "over"}] /\ order \in Seq(Sources)
  /\ run \in [Sources -> Nat] /\ \A s \in Sources : run[s] <= MaxRun[s]
  /\ inScope \subseteq Versioned /\ late \subseteq Timed /\ policy \in 0..MaxPolicy
  /\ packet \in [Packets -> PacketRecords] /\ page \in [Packets -> [1..MaxRevision -> PageRecords]]
  /\ \A p \in Packets :
       /\ packet[p].status = "none" <=> packet[p].revision = 0
       /\ packet[p].status = "open" => (packet[p].run > 0) = p[2]
       /\ packet[p].policy <= policy
       /\ \A n \in 1..MaxRevision :
            /\ page[p][n].status # "none" => n <= packet[p].revision
            /\ page[p][n].status = "leased" <=> page[p][n].lease # "none"
            /\ page[p][n].status = "delivered" => <<p, n>> \in receipts
  /\ reading \in [Compilers -> SUBSET Sources]
  /\ calling \in [Pagers -> Calls] /\ receipts \subseteq Deliveries
  /\ changes \in 0..MaxChanges

Init ==
  /\ source = [s \in Sources |-> "absent"] /\ order = <<>>
  /\ run = [s \in Sources |-> 0] /\ inScope = {} /\ late = {}
  /\ policy = 0
  /\ packet = [p \in Packets |-> Unopened]
  /\ page = [p \in Packets |-> [n \in 1..MaxRevision |-> NoPage]]
  /\ reading = [c \in Compilers |-> {}]
  /\ calling = [w \in Pagers |-> NotCalling]
  /\ receipts = {} /\ changes = 0

-----------------------------------------------------------------------------
(* compileAttentionEvents: a new revision of what a source asks.           *)

Change == changes < MaxChanges /\ changes' = changes + 1

\* After an event attention.compile is refused with the position read before it,
\* and compileAttention returns that.
Stale == [c \in Compilers |-> {}]

\* Every delivery counts that is not obsolete; the window of the budget does not end here.
Used == Cardinality({d \in Packets \X (1..MaxRevision) :
          page[d[1]][d[2]].status \notin {"none", "obsolete"}})

\* The first rule that matches, or the default route of the policy.
RoutedToPage(s) == s \in OneWay \/ policy \in PagesRoutine

\* What is over the budget is queued instead.
Paged(s) == s \in Reserved \/ (RoutedToPage(s) /\ Used < PageBudget[policy])

\* The deliveries of a packet when those of a revision that wait become obsolete.
WithoutPages(p) ==
  [page[p] EXCEPT ![packet[p].revision] = IF Live(@) THEN Settled("obsolete") ELSE @]

\* sourceMaterial and the policy's binding: what a revision shows of a source.
Material(s) == [run |-> run[s], policy |-> policy]

Unchanged(s) ==
  LET p == packet[PacketOf(s)]
  IN p.status = "open" /\ [run |-> p.run, policy |-> p.policy] = Material(s)

\* The packet with its new revision.
Revised(s, n) ==
  [status |-> "open", revision |-> n, acked |-> FALSE,
   run |-> Material(s).run, policy |-> Material(s).policy]

\* The packet of these options is opened or gets its next revision.
Revises(s) ==
  LET p == PacketOf(s)
      n == packet[p].revision + 1
      kept == IF packet[p].status = "open" THEN WithoutPages(p) ELSE page[p]
  IN /\ n <= MaxRevision
     /\ packet' = [packet EXCEPT ![p] = Revised(s, n)]
     /\ page' = [page EXCEPT ![p] = IF Paged(s) THEN [kept EXCEPT ![n] = Settled("pending")] ELSE kept]

-----------------------------------------------------------------------------
(* compileAttention, called at the start of every tick of the supervisor.  *)

\* attentionOptionInScope: the target of its options is in the version they carry.
InScope(s) == s \in Versioned => s \in inScope

\* A request is refused once what it cites or targets has moved on.
Rejected(s) == ~InScope(s)

Candidates == {s \in Sources : source[s] = "open" /\ ~Closed(s)}

\* Of these sources the one that occurred first.
First(todo) ==
  order[CHOOSE i \in DOMAIN order :
          order[i] \in todo /\ \A k \in DOMAIN order : order[k] \in todo => i <= k]

\* The first candidate whose command is rejected or has events ends the loop;
\* without one nothing comes of the whole call.
\* Fault (QuestionsAreShownUnlessJammed): only the first candidate is compiled.
EffectiveAtOnce(todo) == {s \in todo : s = First(todo) /\ (Rejected(s) \/ ~Unchanged(s))}

Effective(todo) == {s \in todo : Rejected(s) \/ ~Unchanged(s)}
Foremost(todo) == First(Effective(todo))

ReadSources(c) ==
  /\ reading[c] = {} /\ Effective(Candidates) # {}
  /\ reading' = [reading EXCEPT ![c] = Candidates]
  /\ UNCHANGED <<questions, policy, packet, page, deliveries, changes>>

CompileSources(c) ==
  /\ reading[c] # {}
  /\ IF Effective(reading[c]) = {} \/ Rejected(Foremost(reading[c])) THEN UNCHANGED <<packet, page>>
     ELSE Revises(Foremost(reading[c]))
  /\ reading' = IF packet' = packet THEN [reading EXCEPT ![c] = {}] ELSE Stale
  /\ UNCHANGED <<questions, policy, deliveries, changes>>

-----------------------------------------------------------------------------
(* Where sources come from and what becomes of them without a decision.    *)

\* An issue, a denied capability or an outcome, while its run is live or not.
RaiseSource(s) ==
  /\ source[s] = "absent" /\ Len(order) < MaxSources /\ Kind[s] # "request"
  /\ \E live \in {0} \cup (IF Kind[s] = "outcome" THEN {} ELSE 1..MaxRun[s]) :
       live \in {0, 1} /\ run' = [run EXCEPT ![s] = live]
  /\ source' = [source EXCEPT ![s] = "open"] /\ order' = Append(order, s)
  /\ reading' = Stale
  /\ UNCHANGED <<inScope, late, policy, packet, page, deliveries, changes>>

\* decision.request records the question and compiles it at once.
RequestDecision(s) ==
  /\ source[s] = "absent" /\ Len(order) < MaxSources /\ Kind[s] = "request"
  /\ source' = [source EXCEPT ![s] = "open"] /\ order' = Append(order, s)
  /\ inScope' = inScope \cup ({s} \cap Versioned)
  /\ Revises(s)
  /\ reading' = Stale
  /\ UNCHANGED <<run, late, policy, deliveries, changes>>

\* Anything the run records changes its version; in the end there is none to cancel.
RunMoves(s) ==
  /\ run[s] > 0 /\ Change
  /\ \E version \in {0, run[s] + 1} \cap 0..MaxRun[s] : run' = [run EXCEPT ![s] = version]
  /\ reading' = Stale
  /\ UNCHANGED <<source, order, inScope, late, policy, packet, page, deliveries>>

\* The program advances, is parked or resumed by other commands.
ProgramMoves ==
  /\ inScope # {} /\ Change
  /\ inScope' = {}
  /\ reading' = Stale
  /\ UNCHANGED <<source, order, run, late, policy, packet, page, deliveries>>

\* issue.resolve and outcome-packet.disposition leave the packets as they are.
ResolveDirectly(s) ==
  /\ source[s] = "open" /\ Kind[s] \in {"issue", "outcome"}
  /\ source' = [source EXCEPT ![s] = "over"]
  /\ reading' = Stale
  /\ UNCHANGED <<order, run, inScope, late, policy, packet, page, deliveries, changes>>

DeadlinePasses(s) ==
  /\ s \in Timed \ late /\ source[s] = "open" /\ Change
  /\ late' = late \cup {s}
  /\ UNCHANGED <<source, order, run, inScope, policy, packet, page, reading, deliveries>>

\* attention-policy.approve: the next revision of the chain.
ApprovePolicy ==
  /\ policy < MaxPolicy /\ Change
  /\ policy' = policy + 1
  /\ reading' = Stale
  /\ UNCHANGED <<questions, packet, page, deliveries>>

-----------------------------------------------------------------------------
(* The operator acknowledges and decides on the current revision.          *)

Acknowledged(p) == packet' = [packet EXCEPT ![p].acked = TRUE]
Ends(p, status) == packet' = [packet EXCEPT ![p].status = status]

\* Fault (AttentionInv): the page of an acknowledged revision stays.
AcknowledgeOnly(p) ==
  /\ packet[p].status = "open" /\ ~packet[p].acked
  /\ Acknowledged(p)
  /\ UNCHANGED page /\ reading' = Stale
  /\ UNCHANGED <<questions, policy, deliveries, changes>>

\* decision.acknowledge
Acknowledge(p) ==
  /\ packet[p].status = "open" /\ ~packet[p].acked
  /\ Acknowledged(p)
  /\ page' = [page EXCEPT ![p] = WithoutPages(p)]
  /\ reading' = Stale
  /\ UNCHANGED <<questions, policy, deliveries, changes>>

\* decisionOption and finalizedDecisionEvents: deliveries are left alone.
Resolves(p) ==
  /\ packet[p].status = "open" /\ p[1] \notin late
  /\ Ends(p, "resolved")
  /\ reading' = Stale
  /\ UNCHANGED <<order, late, policy, page, deliveries, changes>>

\* decision.approve: the issue is resolved, the outcome gets its disposition.
DecideSource(p) ==
  /\ Kind[p[1]] \in {"issue", "outcome"} /\ source[p[1]] = "open"
  /\ Resolves(p)
  /\ source' = [source EXCEPT ![p[1]] = "over"]
  /\ UNCHANGED <<run, inScope>>

\* decision.approve of an option that only records the answer; a request may have
\* one beside those about the program, and it asks nothing of the program.
ApproveRecord(p) ==
  /\ Kind[p[1]] \in {"approval", "request"}
  /\ Resolves(p)
  /\ UNCHANGED <<source, run, inScope>>

\* decision.reprioritize, .park, .retry or .approve of a program in the version
\* that was shown, which is another one then.
DecideProgram(p) ==
  /\ p[1] \in Versioned /\ InScope(p[1])
  /\ Resolves(p)
  /\ inScope' = {}
  /\ UNCHANGED <<source, run>>

\* decision.cancel of the run in the version that was shown.
CancelRun(p) ==
  /\ p[2] /\ packet[p].run = run[p[1]]
  /\ Resolves(p)
  /\ run' = [run EXCEPT ![p[1]] = 0]
  /\ UNCHANGED <<source, inScope>>

\* decision.expire
ExpireDecision(p) ==
  /\ packet[p].status = "open" /\ p[1] \in late
  /\ Ends(p, "expired")
  /\ reading' = Stale
  /\ UNCHANGED <<questions, policy, page, deliveries, changes>>

-----------------------------------------------------------------------------
(* Deliveries: leases, calls of the provider and what is recorded of them. *)

Delivery(d) == page[d[1]][d[2]]
Delivered(d, rec) == page' = [page EXCEPT ![d[1]][d[2]] = rec]
Held(w, d) == Delivery(d).status = "leased" /\ Delivery(d).owner = w /\ Delivery(d).lease = "held"

\* Fault (PagesSettle): an expired lease is not claimed again.
AcquirePending(w, d) ==
  /\ calling[w] = NotCalling /\ \A e \in Deliveries : ~Held(w, e)
  /\ Delivery(d).status = "pending" /\ ~packet[d[1]].acked
  /\ Delivered(d, [Delivery(d) EXCEPT !.status = "leased", !.attempts = @ + 1, !.owner = w, !.lease = "held"])
  /\ reading' = Stale
  /\ UNCHANGED <<questions, policy, packet, deliveries, changes>>

\* attention-delivery.lease.acquire; what a supervisor holds itself goes first.
AcquireDelivery(w, d) ==
  /\ calling[w] = NotCalling /\ \A e \in Deliveries : ~Held(w, e)
  /\ \/ Delivery(d).status = "pending" /\ \A e \in Deliveries : Delivery(e).lease # "expired"
     \/ Delivery(d).lease = "expired"
  /\ ~packet[d[1]].acked
  /\ Delivered(d, [Delivery(d) EXCEPT !.status = "leased", !.attempts = @ + 1, !.owner = w, !.lease = "held"])
  /\ reading' = Stale
  /\ UNCHANGED <<questions, policy, packet, deliveries, changes>>

\* A tick that finds its own live lease calls the provider, which answers with
\* the same receipt when it has one for the key.
CallProvider(w, d) ==
  /\ calling[w] = NotCalling /\ Held(w, d)
  /\ \E answer \in IF d \in receipts THEN {"accepted"} ELSE {"accepted", "refused", "permanent"} :
       /\ calling' = [calling EXCEPT ![w] = [delivery |-> d, fence |-> Delivery(d).attempts, answer |-> answer]]
       /\ receipts' = IF answer = "accepted" THEN receipts \cup {d} ELSE receipts
  /\ UNCHANGED <<questions, policy, packet, page, reading, changes>>

\* Whether the call was made under the lease the delivery still has.
Current(w) ==
  LET d == Delivery(calling[w].delivery)
  IN d.status = "leased" /\ d.owner = w /\ d.attempts = calling[w].fence

Recorded(w, rec) ==
  /\ Delivered(calling[w].delivery, rec)
  /\ reading' = Stale

Forgotten == UNCHANGED <<page, reading>>

\* attention-delivery.succeed is refused once the lease has expired.
ReportSuccess(w) ==
  /\ calling[w].answer = "accepted"
  /\ IF Current(w) /\ Held(w, calling[w].delivery)
     THEN Recorded(w, Settled("delivered"))
     ELSE Forgotten
  /\ calling' = [calling EXCEPT ![w] = NotCalling]
  /\ UNCHANGED <<questions, policy, packet, receipts, changes>>

GivesUp(d, answer) == answer = "permanent" \/ d.attempts > Retries

\* attention-delivery.fail does not look at the end of the lease.
ReportFailure(w) ==
  /\ calling[w].answer \in {"refused", "permanent"}
  /\ LET d == Delivery(calling[w].delivery)
     IN IF Current(w)
        THEN Recorded(w, IF GivesUp(d, calling[w].answer) THEN Settled("failed")
                         ELSE [Settled("pending") EXCEPT !.attempts = d.attempts])
        ELSE Forgotten
  /\ calling' = [calling EXCEPT ![w] = NotCalling]
  /\ UNCHANGED <<questions, policy, packet, receipts, changes>>

LeaseExpires(d) ==
  /\ Delivery(d).lease = "held" /\ Change
  /\ Delivered(d, [Delivery(d) EXCEPT !.lease = "expired"])
  /\ UNCHANGED <<questions, policy, packet, reading, deliveries>>

\* A delivery supervisor restarts, with the same identity.
Crash(w) ==
  /\ calling[w] # NotCalling /\ Change
  /\ calling' = [calling EXCEPT ![w] = NotCalling]
  /\ UNCHANGED <<questions, policy, packet, page, reading, receipts>>

-----------------------------------------------------------------------------
Compiling == \E c \in Compilers : ReadSources(c) \/ CompileSources(c)
Asking == \E s \in Sources : RaiseSource(s) \/ RequestDecision(s) \/ RunMoves(s)
                             \/ ResolveDirectly(s) \/ DeadlinePasses(s)
Deciding == \E p \in Packets : Acknowledge(p) \/ DecideSource(p) \/ ApproveRecord(p) \/ DecideProgram(p)
                               \/ CancelRun(p) \/ ExpireDecision(p)
Paging(w) == ReportSuccess(w) \/ ReportFailure(w)
             \/ \E d \in Deliveries : AcquireDelivery(w, d) \/ CallProvider(w, d)
Waiting == \E d \in Deliveries : LeaseExpires(d)

Next ==
  \/ Compiling \/ Asking \/ Deciding \/ Waiting
  \/ ProgramMoves \/ ApprovePolicy
  \/ \E w \in Pagers : Paging(w) \/ Crash(w)

Fairness ==
  /\ \A c \in Compilers : WF_vars(ReadSources(c) \/ CompileSources(c))
  /\ \A w \in Pagers : WF_vars(Paging(w))

Spec == Init /\ [][Next]_vars
FairSpec == Spec /\ Fairness

-----------------------------------------------------------------------------
(* A delivery that waits or is leased is one of the current revision of    *)
(* its packet, which nobody has acknowledged: acknowledging and revising   *)
(* take back what is still under way.                                      *)
LiveDeliveriesAreCurrent ==
  \A p \in Packets, n \in 1..MaxRevision :
    Live(page[p][n]) => n = packet[p].revision /\ ~packet[p].acked

(* An open reserved decision nobody has acknowledged has a page for the    *)
(* revision it shows, whatever the budget and the policy are by now.       *)
ReservedIsPaged ==
  \A p \in Packets :
    p[1] \in Reserved /\ packet[p].status = "open" /\ ~packet[p].acked =>
      page[p][packet[p].revision].status \notin {"none", "obsolete"}

(* attention.compile, attention.acknowledge and the deliveries agree on     *)
(* what the operator has been shown.                                       *)
AttentionInv == TypeOK /\ LiveDeliveriesAreCurrent /\ ReservedIsPaged

\* A request whose target has moved is refused by every compilation.
Jammed == \E s \in Sources : source[s] = "open" /\ ~Closed(s) /\ Rejected(s)

Shown(s) == source[s] = "open" /\ ~Closed(s) => Unchanged(s)

(* The compilation catches up: in time everything that is open comes before *)
(* the operator as it is by then, since compileAttention compiles every    *)
(* eligible source, also its new revisions; unless a request that is       *)
(* refused keeps what comes after it from being compiled.                  *)
QuestionsAreShownUnlessJammed ==
  (\E s \in Sources : ~Shown(s)) ~> Jammed \/ (\A s \in Sources : Shown(s))

(* The deliveries catch up: in time every page is delivered, given up or   *)
(* obsolete, whatever leases expire and supervisors restart.               *)
PagesSettle ==
  (\E d \in Deliveries : Live(Delivery(d))) ~> (\A d \in Deliveries : ~Live(Delivery(d)))
=============================================================================
