-------------------------- MODULE OutboundEffects --------------------------
(***************************************************************************)
(* Effects on GitHub: the authority of packages/kernel/src/                *)
(* outbound-authority.ts, an append-only log of policies, authorizations,  *)
(* receipts and failures, and the deliveries of packages/adapter-github/   *)
(* src/index.ts, which look at GitHub, ask the authority, write, look      *)
(* again and record what they have seen.                                   *)
(*                                                                         *)
(* Each method of the authority replays the log and then appends to it,    *)
(* not in one transaction: what it appends rests on the log it has read.   *)
(* Between the two no other code of the same process runs.                 *)
(***************************************************************************)
EXTENDS Integers, FiniteSets

CONSTANTS
  Effects,     \* effect keys
  Exclusive,   \* those that GitHub refuses to create twice: branches, pull requests
  Unmarked,    \* those found by their name, whoever made them: branches, labels
  Policies,
  PolicyOf,    \* effect -> the promotion its request names
  Workers,     \* deliveries at work
  Handles,     \* worker -> the effects it delivers
  Processes,
  ProcessOf,   \* worker -> the process it runs in
  NoKey,
  Threshold,   \* suspensionThreshold
  MaxFailures, \* bound: failures recorded of an effect
  MaxEvents    \* bound: crashes, and what others do on GitHub

ASSUME OutboundAssumption ==
  /\ Exclusive \cup Unmarked \subseteq Effects /\ NoKey \notin Effects
  /\ PolicyOf \in [Effects -> Policies]
  /\ Handles \in [Workers -> SUBSET Effects] /\ ProcessOf \in [Workers -> Processes]
  /\ IsFiniteSet(Workers)
  /\ Threshold \in Nat \ {0} /\ MaxFailures \in Nat /\ MaxEvents \in Nat

\* What the operator has to see to: an effect is delivered by one process, as
\* nothing but its event loop orders a replay and the append after it, and by
\* one worker unless its second creation is refused or changes nothing.
EffectsAreLocal ==
  \A v, w \in Workers : Handles[v] \cap Handles[w] # {} => ProcessOf[v] = ProcessOf[w]
SharedAreMadeOnce ==
  \A v, w \in Workers : v # w => Handles[v] \cap Handles[w] \subseteq Exclusive \cup Unmarked

VARIABLES
  promotion, \* policy -> none, active or suspended
  expired,   \* policies past their end
  effect,    \* effect -> what the log says of it
  live,      \* effect -> what is found of it on GitHub: absent, exact or conflict
  writes,    \* effect -> how often it was written there
  removals,  \* effect -> how often what was there was gone again
  shown,     \* effects that GitHub has had exactly as asked for
  worker,    \* worker -> its step, its effect and what it has seen
  known,     \* process -> effects whose receipt the adapter remembers
  events     \* crashes and acts of others so far

github == <<live, writes, removals, shown>>
authority == <<promotion, expired, effect>>
effectVars == <<promotion, expired, effect, github, worker, known, events>>

-----------------------------------------------------------------------------
NoEffect == [status |-> "none", receipt |-> FALSE, failures |-> 0]
Idle == [step |-> "idle", effect |-> NoKey, exact |-> FALSE, retryable |-> FALSE,
         prior |-> NoEffect, active |-> FALSE]

\* Steps that call the authority, and the same once it has replayed the log.
Methods == {"authorize", "record", "fail"}
Replayed == {"authorizing", "recording", "failing"}
AfterReplay == [c \in Methods |-> CASE c = "authorize" -> "authorizing"
                                  [] c = "record" -> "recording"
                                  [] c = "fail" -> "failing"]

EffectRecord == [status: {"none", "authorized", "delivered", "failed"},
                 receipt: BOOLEAN, failures: 0..MaxFailures]
WorkerRecord == [step: {"idle", "perform", "confirm"} \cup Methods \cup Replayed,
                 effect: Effects \cup {NoKey}, exact: BOOLEAN, retryable: BOOLEAN,
                 prior: EffectRecord, active: BOOLEAN]

EffectTypes ==
  /\ promotion \in [Policies -> {"none", "active", "suspended"}] /\ expired \subseteq Policies
  /\ effect \in [Effects -> EffectRecord]
  /\ live \in [Effects -> {"absent", "exact", "conflict"}] /\ shown \subseteq Effects
  /\ writes \in [Effects -> Nat] /\ removals \in [Effects -> Nat]
  /\ worker \in [Workers -> WorkerRecord]
  /\ known \in [Processes -> SUBSET Effects] /\ events \in 0..MaxEvents
  /\ \A w \in Workers : worker[w].step = "idle" <=> worker[w] = Idle
  /\ \A e \in Effects :
       /\ effect[e].status = "none" => effect[e] = NoEffect
       /\ effect[e].status = "delivered" => effect[e].receipt
       /\ live[e] = "exact" => e \in shown
       /\ (\E p \in Processes : e \in known[p]) => effect[e].status = "delivered"

\* What others make: only what is found by its name can be exactly what is asked for,
\* and a pull request of the branch may be another one. (A pull request that is to be
\* updated and is not a managed draft fails like a request.)
MayBe(e) == {"absent"} \cup (IF e \in Unmarked THEN {"exact"} ELSE {})
                       \cup (IF e \in Unmarked \cup Exclusive THEN {"conflict"} ELSE {})

EffectInit ==
  /\ promotion = [p \in Policies |-> "none"] /\ expired = {}
  /\ effect = [e \in Effects |-> NoEffect]
  /\ live \in [Effects -> {"absent", "exact", "conflict"}] /\ \A e \in Effects : live[e] \in MayBe(e)
  /\ shown = {e \in Effects : live[e] = "exact"}
  /\ writes = [e \in Effects |-> 0] /\ removals = [e \in Effects |-> 0]
  /\ worker = [w \in Workers |-> Idle]
  /\ known = [p \in Processes |-> {}] /\ events = 0

-----------------------------------------------------------------------------
(* deliver of the adapter: what it sees and writes on GitHub.              *)

\* Nothing else of the process runs between a replay and what follows it.
Alone(w) ==
  \A v \in Workers \ {w} : ProcessOf[v] = ProcessOf[w] => worker[v].step \notin Replayed

At(w, step) == worker[w].step = step /\ Alone(w)
Goes(w, step) == worker' = [worker EXCEPT ![w].step = step]
Returns(w) == worker' = [worker EXCEPT ![w] = Idle]

\* The catch of deliver: what may be tried again is read off the message.
Throws(w, retryable) ==
  worker' = [worker EXCEPT ![w].step = "fail", ![w].retryable = retryable]

\* A failing request: 408, 409, 429, 5xx and no answer may be tried again.
RequestFails(w) == \E retryable \in BOOLEAN : Throws(w, retryable)

\* What is found under the marker of the effect, or by its name, is what is asked for
\* or something else.
Seen(w, e, step, retryable) ==
  worker' = [worker EXCEPT ![w] = [Idle EXCEPT !.step = step, !.effect = e,
               !.exact = live[e] = "exact", !.retryable = retryable]]

\* An effect in memory is returned at once, another is looked for.
Observe(w, e) ==
  /\ At(w, "idle") /\ e \in Handles[w] /\ e \notin known[ProcessOf[w]]
  /\ effect[e].failures + Cardinality({v \in Workers : worker[v].effect = e}) < MaxFailures
  /\ \/ Seen(w, e, IF live[e] = "conflict" THEN "fail" ELSE "authorize", FALSE)
     \/ \E retryable \in BOOLEAN : Seen(w, e, "fail", retryable)
  /\ UNCHANGED <<authority, github, known, events>>

\* Fault (EffectInv): what was seen is not asked before writing.
NextIsPerform(w) == "perform"
NextAfterGrant(w) == IF worker[w].exact THEN "record" ELSE "perform"

\* What has a name and is there is not made again: a label's 422 is accepted.
Writes(e) ==
  IF e \in Unmarked /\ live[e] # "absent"
  THEN UNCHANGED github
  ELSE /\ live' = [live EXCEPT ![e] = IF @ = "absent" THEN "exact" ELSE @]
       /\ writes' = [writes EXCEPT ![e] = @ + 1]
       /\ shown' = shown \cup {e}
       /\ UNCHANGED removals

\* The request may arrive and its answer be lost; it arrives now or never. What
\* is exclusive and there already is refused, with 422.
Perform(w) ==
  LET e == worker[w].effect
  IN /\ At(w, "perform")
     /\ \/ /\ ~(e \in Exclusive /\ live[e] # "absent")
           /\ Writes(e)
           /\ Goes(w, "confirm") \/ Throws(w, TRUE)
        \/ UNCHANGED github /\ RequestFails(w)
     /\ UNCHANGED <<authority, known, events>>

\* The state after the effect must be exactly what was asked for.
Confirm(w) ==
  /\ At(w, "confirm")
  /\ \/ IF live[worker[w].effect] = "exact" THEN Goes(w, "record") ELSE Throws(w, TRUE)
     \/ RequestFails(w)
  /\ UNCHANGED <<authority, github, known, events>>

-----------------------------------------------------------------------------
(* The methods of the authority.                                           *)

\* replay(loadEvents(...))
Replay(w) ==
  LET e == worker[w].effect
  IN /\ worker[w].step \in Methods /\ Alone(w)
     /\ worker' = [worker EXCEPT ![w].step = AfterReplay[@], ![w].prior = effect[e],
                                 ![w].active = promotion[PolicyOf[e]] = "active"]
     /\ UNCHANGED <<authority, github, known, events>>

Granted(w) == worker' = [worker EXCEPT ![w].step = NextAfterGrant(w),
                                       ![w].prior = NoEffect, ![w].active = FALSE]

\* Fault (ReceiptsAreKept): an effect is authorized whether or not it was before.
AuthorizeAgain(w) ==
  LET e == worker[w].effect
  IN /\ At(w, "authorizing")
     /\ IF worker[w].active /\ PolicyOf[e] \notin expired
        THEN effect' = [effect EXCEPT ![e] = [NoEffect EXCEPT !.status = "authorized"]] /\ Granted(w)
        ELSE Throws(w, TRUE) /\ UNCHANGED effect
     /\ UNCHANGED <<promotion, expired, github, known, events>>

\* authorize: an effect that was authorized stays so, whatever became of its
\* policy; that one failed terminally counts as a failure to try again.
Authorize(w) ==
  LET e == worker[w].effect
      prior == worker[w].prior.status
  IN /\ At(w, "authorizing")
     /\ \/ prior \in {"authorized", "delivered"} /\ Granted(w) /\ UNCHANGED effect
        \/ prior = "failed" /\ Throws(w, TRUE) /\ UNCHANGED effect
        \/ /\ prior = "none" /\ ~(worker[w].active /\ PolicyOf[e] \notin expired)
           /\ Throws(w, TRUE) /\ UNCHANGED effect
        \/ /\ prior = "none" /\ worker[w].active /\ PolicyOf[e] \notin expired
           /\ effect' = [effect EXCEPT ![e] = [NoEffect EXCEPT !.status = "authorized"]]
           /\ Granted(w)
     /\ UNCHANGED <<promotion, expired, github, known, events>>

\* recordReceipt: the time of a receipt makes it differ from any other.
Record(w) ==
  LET e == worker[w].effect
  IN /\ At(w, "recording")
     /\ IF worker[w].prior.receipt
        THEN Throws(w, FALSE) /\ UNCHANGED <<effect, known>>
        ELSE /\ effect' = [effect EXCEPT ![e].status = "delivered", ![e].receipt = TRUE]
             /\ known' = [known EXCEPT ![ProcessOf[w]] = @ \cup {e}]
             /\ Returns(w)
     /\ UNCHANGED <<promotion, expired, github, events>>

\* Fault (FailuresSuspend): the failure that is being recorded does not count.
EnoughBefore(w) == ~worker[w].retryable \/ worker[w].prior.failures >= Threshold
Enough(w) == ~worker[w].retryable \/ worker[w].prior.failures + 1 >= Threshold

\* recordFailure: of an effect without receipt that was authorized; for the
\* others it throws, or returns, and nothing is recorded.
Fail(w) ==
  LET e == worker[w].effect
      p == PolicyOf[e]
  IN /\ At(w, "failing")
     /\ IF worker[w].prior.status = "none" \/ worker[w].prior.receipt
        THEN UNCHANGED <<effect, promotion>>
        ELSE /\ effect' = [effect EXCEPT ![e].failures = @ + 1,
                             ![e].status = IF worker[w].retryable THEN "authorized" ELSE "failed"]
             /\ promotion' = [promotion EXCEPT ![p] = IF Enough(w) /\ worker[w].active THEN "suspended" ELSE @]
     /\ Returns(w)
     /\ UNCHANGED <<expired, github, known, events>>

-----------------------------------------------------------------------------
(* The operator, time, other people on GitHub and the end of a process.    *)

\* A promoted revision is immutable: promoting it again returns what it is.
PromotePolicy(p) ==
  /\ promotion[p] = "none" /\ promotion' = [promotion EXCEPT ![p] = "active"]
  /\ UNCHANGED <<expired, effect, github, worker, known, events>>

SuspendPolicy(p) ==
  /\ promotion[p] = "active" /\ promotion' = [promotion EXCEPT ![p] = "suspended"]
  /\ UNCHANGED <<expired, effect, github, worker, known, events>>

PolicyExpires(p) ==
  /\ promotion[p] # "none" /\ p \notin expired /\ expired' = expired \cup {p}
  /\ UNCHANGED <<promotion, effect, github, worker, known, events>>

Happens == events < MaxEvents /\ events' = events + 1

\* Somebody else makes what is asked for, or something in its place.
Create(e) ==
  /\ live[e] = "absent" /\ Happens
  /\ \E there \in MayBe(e) \ {"absent"} :
       /\ live' = [live EXCEPT ![e] = there]
       /\ shown' = IF there = "exact" THEN shown \cup {e} ELSE shown
  /\ UNCHANGED <<authority, writes, removals, worker, known>>

\* Somebody edits what is there, or puts back what it was.
Edit(e) ==
  /\ live[e] # "absent" /\ e \in shown /\ Happens
  /\ live' = [live EXCEPT ![e] = IF @ = "exact" THEN "conflict" ELSE "exact"]
  /\ UNCHANGED <<authority, writes, removals, shown, worker, known>>

\* It is deleted, its marker is taken out or replaced by the one of a later update
\* of the pull request, or it is not among the check runs of the first page.
Remove(e) ==
  /\ live[e] # "absent" /\ Happens
  /\ live' = [live EXCEPT ![e] = "absent"]
  /\ removals' = [removals EXCEPT ![e] = @ + 1]
  /\ UNCHANGED <<authority, writes, shown, worker, known>>

\* With a process its deliveries and the memory of its adapter are gone.
ProcessDies(p) ==
  /\ Happens
  /\ worker' = [w \in Workers |-> IF ProcessOf[w] = p THEN Idle ELSE worker[w]]
  /\ known' = [known EXCEPT ![p] = {}]
  /\ UNCHANGED <<authority, github>>

-----------------------------------------------------------------------------
Delivering(w) ==
  \/ \E e \in Effects : Observe(w, e)
  \/ Perform(w) \/ Confirm(w)
  \/ Replay(w) \/ Authorize(w) \/ Record(w) \/ Fail(w)

Operating == \E p \in Policies : PromotePolicy(p) \/ SuspendPolicy(p) \/ PolicyExpires(p)

EffectNext ==
  \/ \E w \in Workers : Delivering(w)
  \/ Operating
  \/ \E e \in Effects : Create(e) \/ Edit(e) \/ Remove(e)
  \/ \E p \in Processes : ProcessDies(p)

EffectSpec == EffectInit /\ [][EffectNext]_effectVars

-----------------------------------------------------------------------------
(* However answers are lost, processes die and deliveries are repeated,    *)
(* an effect is written again only when what was there is gone: each       *)
(* delivery looks first whether the effect of its key is there, and two at *)
(* once are at work only on what GitHub creates once.                      *)
There(e) == IF live[e] = "absent" THEN 0 ELSE 1
PostedOnce == \A e \in Effects : writes[e] <= removals[e] + There(e)

(* A recorded receipt is evidence that GitHub has had the effect exactly   *)
(* as it was asked for, and of a write unless it is found by its name: a   *)
(* branch or a label that was there already is taken for the effect.       *)
ReceiptsAreEvidence ==
  \A e \in Effects :
    effect[e].receipt => e \in shown /\ (e \notin Unmarked => writes[e] > 0)

(* A receipt stays in the replayed log, as does its effect: no later event *)
(* of the log replaces it.                                                 *)
ReceiptsAreKept ==
  [][\A e \in Effects : effect[e].receipt => effect'[e] = effect[e]]_effectVars

(* A policy has an effect that failed for good, or too often, only when it *)
(* is suspended: recordFailure stops it with the failure that does.        *)
FailuresSuspend ==
  \A e \in Effects :
    effect[e].status = "failed" \/ effect[e].failures >= Threshold =>
      promotion[PolicyOf[e]] = "suspended"

(* deliver: nothing is written again that is there, and no receipt is      *)
(* recorded for what never was.                                            *)
EffectInv == EffectTypes /\ PostedOnce /\ ReceiptsAreEvidence
=============================================================================
