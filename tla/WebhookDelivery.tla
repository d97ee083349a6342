--------------------------- MODULE WebhookDelivery ---------------------------
(***************************************************************************)
(* packages/go/webhooks/delivery: Deliverer.Deliver makes one attempt to   *)
(* POST an event to a subscriber and answers success, retry or deadletter. *)
(* The task queue around it is external: it runs a task, and again with a  *)
(* higher Attempt after a retry answer, and again with the same one when   *)
(* the worker died; an event may be enqueued more than once.               *)
(*                                                                         *)
(* Claims live for 7 days, longer than the whole retry schedule, and do    *)
(* not expire here.  Failures (of a store, the network, the subscriber, a  *)
(* worker) are at most MaxFaults in a behaviour.                           *)
(***************************************************************************)
EXTENDS Integers, FiniteSets

CONSTANTS
    Tasks, EventOf,  \* queued tasks, and the (subscription, event) pair each carries
    Delays,          \* length of the retry schedule
    Configured,      \* WithMaxAttempts
    MaxFaults        \* bound

ASSUME ScheduleAssumption ==
    Delays \in Nat /\ Configured \in Nat \ {0} /\ MaxFaults \in Nat

Events == {EventOf[t] : t \in Tasks}

\* New: maxAttempts is capped to what the schedule can serve.
MaxAttempts == IF Configured > Delays + 1 THEN Delays + 1 ELSE Configured

VARIABLES
    wired,        \* whether the Deliverer has an IdempotencyStore
    stage,        \* stage[t]: where the task's current Deliver is, or how it ended
    attempt,      \* attempt[t]: Payload.Attempt
    claim,        \* events whose claim is in the store
    requests,     \* requests[e]: POSTs of e that reached the subscriber
    accepted,     \* events the subscriber answered 2xx
    audit,        \* audit[t]: "none", "written" or "failed"
    degrade,      \* degrade[t]: likewise, for MarkDegraded
    refused,      \* history: tasks answered deadletter by validation or request building
    faults

recordVars == <<audit, degrade, refused>>
wireVars == <<claim, requests, accepted>>
vars == <<wired, stage, attempt, wireVars, recordVars, faults>>

Running == {"claiming", "resolving", "posting", "auditing", "degrading"}
Settled == {"ok", "dead"}
Write == {"none", "written", "failed"}

\* Types; attempts stay within the schedule.
TypeOK ==
    /\ wired \in BOOLEAN
    /\ stage \in [Tasks -> Running \cup Settled \cup {"queued"}]
    /\ attempt \in [Tasks -> 1 .. MaxAttempts]
    /\ claim \subseteq Events /\ accepted \subseteq Events
    /\ requests \in [Events -> Nat]
    /\ audit \in [Tasks -> Write] /\ degrade \in [Tasks -> Write]
    /\ refused \subseteq Tasks /\ faults \in 0 .. MaxFaults

Init ==
    /\ wired \in BOOLEAN
    /\ stage = [t \in Tasks |-> "queued"]
    /\ attempt = [t \in Tasks |-> 1]
    /\ claim = {} /\ accepted = {}
    /\ requests = [e \in Events |-> 0]
    /\ audit = [t \in Tasks |-> "none"] /\ degrade = [t \in Tasks |-> "none"]
    /\ refused = {} /\ faults = 0

Goto(t, s) == stage' = [stage EXCEPT ![t] = s]
Fault == faults < MaxFaults /\ faults' = faults + 1

\* NextDelay is exhausted, or the attempts are.
Exhausted(a) == a > Delays \/ a >= MaxAttempts

\* A transient failure of attempt attempt[t]: exhaust starts the dead-letter
\* pipeline, else the queue runs the task again later with the next Attempt.
RetryOrExhaust(t) ==
    IF Exhausted(attempt[t])
    THEN Goto(t, "auditing") /\ UNCHANGED attempt
    ELSE Goto(t, "queued") /\ attempt' = [attempt EXCEPT ![t] = @ + 1]

-----------------------------------------------------------------------------
(* Deliver.                                                                *)

\* The task carries a valid payload and subscription: the claim is next, if wired.
Begin(t) ==
    /\ stage[t] = "queued"
    /\ Goto(t, IF wired THEN "claiming" ELSE "resolving")
    /\ UNCHANGED <<wired, attempt, wireVars, recordVars, faults>>

\* Deliver answers deadletter itself, without the pipeline.
Refuse(t) == Goto(t, "dead") /\ refused' = refused \cup {t}

\* The payload or the subscription is invalid.
BeginInvalid(t) ==
    /\ stage[t] = "queued" /\ Fault
    /\ Refuse(t)
    /\ UNCHANGED <<wired, attempt, wireVars, audit, degrade>>

ClaimWon(t) ==
    /\ stage[t] = "claiming" /\ EventOf[t] \notin claim
    /\ claim' = claim \cup {EventOf[t]}
    /\ Goto(t, "resolving")
    /\ UNCHANGED <<wired, attempt, requests, accepted, recordVars, faults>>

\* A live claim: answered as success without a request.
ClaimLostWaits(t) ==
    /\ stage[t] = "claiming" /\ EventOf[t] \in claim
    /\ Goto(t, "queued")
    /\ UNCHANGED <<wired, attempt, wireVars, recordVars, faults>>
ClaimLost(t) ==
    /\ stage[t] = "claiming" /\ EventOf[t] \in claim
    /\ Goto(t, "ok")
    /\ UNCHANGED <<wired, attempt, wireVars, recordVars, faults>>

\* The store fails, before or after its effect.
ClaimFailsOpen(t) ==
    /\ stage[t] = "claiming" /\ Fault
    /\ Goto(t, "resolving")
    /\ UNCHANGED <<wired, attempt, wireVars, recordVars>>
ClaimFails(t) ==
    /\ stage[t] = "claiming" /\ Fault
    /\ claim' \in {claim, claim \cup {EventOf[t]}}
    /\ RetryOrExhaust(t)
    /\ UNCHANGED <<wired, requests, accepted, recordVars>>

Resolve(t) ==
    /\ stage[t] = "resolving"
    /\ Goto(t, "posting")
    /\ UNCHANGED <<wired, attempt, wireVars, recordVars, faults>>

ResolveFails(t) ==
    /\ stage[t] = "resolving" /\ Fault
    /\ RetryOrExhaust(t)
    /\ UNCHANGED <<wired, wireVars, recordVars>>

\* The request cannot be built.
BuildFails(t) ==
    /\ stage[t] = "resolving" /\ Fault
    /\ Refuse(t)
    /\ UNCHANGED <<wired, attempt, wireVars, audit, degrade>>

Reaches(t) == requests' = [requests EXCEPT ![EventOf[t]] = @ + 1]

PostAccepted(t) ==
    /\ stage[t] = "posting" /\ Reaches(t)
    /\ accepted' = accepted \cup {EventOf[t]}
    /\ Goto(t, "ok")
    /\ UNCHANGED <<wired, attempt, claim, recordVars, faults>>

\* classifyHTTPStatus, netClass: 408, 429, 5xx, a time-out or a refused connection
\* are transient; the request may have arrived, and its 2xx may be what was lost.
PostTransientIgnored(t) ==
    /\ stage[t] = "posting" /\ Fault
    /\ Goto(t, "ok")
    /\ UNCHANGED <<wired, attempt, wireVars, recordVars>>
PostTransient(t) ==
    /\ stage[t] = "posting" /\ Fault
    /\ \/ UNCHANGED <<requests, accepted>>
       \/ Reaches(t) /\ accepted' \in {accepted, accepted \cup {EventOf[t]}}
    /\ RetryOrExhaust(t)
    /\ UNCHANGED <<wired, claim, recordVars>>

\* classifyHTTPStatus: any other 4xx goes straight to the pipeline.
PostPermanent(t) ==
    /\ stage[t] = "posting" /\ Fault /\ Reaches(t)
    /\ Goto(t, "auditing")
    /\ UNCHANGED <<wired, attempt, claim, accepted, recordVars>>

\* netClass: so does a redirect, which was answered, or a blocked address, never dialled.
PostBlocked(t) ==
    /\ stage[t] = "posting" /\ Fault
    /\ Reaches(t) \/ UNCHANGED requests
    /\ Goto(t, "auditing")
    /\ UNCHANGED <<wired, attempt, claim, accepted, recordVars>>

\* deadletterPipeline.trigger: RecordDeadletter, then MarkDegraded even when the
\* first one failed; neither error reaches the caller.
TriggerAuditOrStop(t) ==
    /\ stage[t] = "auditing"
    /\ \/ audit' = [audit EXCEPT ![t] = "written"] /\ UNCHANGED faults /\ Goto(t, "degrading")
       \/ audit' = [audit EXCEPT ![t] = "failed"] /\ Fault /\ Goto(t, "dead")
    /\ UNCHANGED <<wired, attempt, wireVars, degrade, refused>>
TriggerAudit(t) ==
    /\ stage[t] = "auditing"
    /\ \/ audit' = [audit EXCEPT ![t] = "written"] /\ UNCHANGED faults
       \/ audit' = [audit EXCEPT ![t] = "failed"] /\ Fault
    /\ Goto(t, "degrading")
    /\ UNCHANGED <<wired, attempt, wireVars, degrade, refused>>

TriggerDegrade(t) ==
    /\ stage[t] = "degrading"
    /\ \/ degrade' = [degrade EXCEPT ![t] = "written"] /\ UNCHANGED faults
       \/ degrade' = [degrade EXCEPT ![t] = "failed"] /\ Fault
    /\ Goto(t, "dead")
    /\ UNCHANGED <<wired, attempt, wireVars, audit, refused>>

\* The worker dies; the queue runs the task again as it was.
WorkerDies(t) ==
    /\ stage[t] \in Running /\ Fault
    /\ Goto(t, "queued")
    /\ UNCHANGED <<wired, attempt, wireVars, recordVars>>

Deliver(t) ==
    \/ Begin(t) \/ BeginInvalid(t) \/ ClaimWon(t) \/ ClaimLost(t) \/ ClaimFails(t)
    \/ Resolve(t) \/ ResolveFails(t) \/ BuildFails(t)
    \/ PostAccepted(t) \/ PostTransient(t) \/ PostPermanent(t) \/ PostBlocked(t)
    \/ TriggerAudit(t) \/ TriggerDegrade(t)

Next == \E t \in Tasks : Deliver(t) \/ WorkerDies(t)
Spec == Init /\ [][Next]_vars

\* The queue runs every task until it is settled.
FairSpec == Spec /\ \A t \in Tasks : WF_vars(Deliver(t))

-----------------------------------------------------------------------------
(* Properties.                                                             *)

\* With a claim store wired no event reaches its subscriber twice: not when it is
\* enqueued twice, when a worker dies after the POST, when the answer is lost or
\* when the claim's own answer is.
OneRequest == wired => \A e \in Events : requests[e] <= 1

\* Success without a store means that the subscriber accepted the event.
UnclaimedSuccess == \A t \in Tasks : ~wired /\ stage[t] = "ok" => EventOf[t] \in accepted

\* A task the subscriber or the network failed for good has been through the whole
\* pipeline: an audit failure does not keep the subscription from being marked degraded,
\* and a worker that dies in between leaves the task to be run again.  Not so a task that
\* validation or request building refused: it ends with the same StatusDeadletter and
\* neither write, where task.go:195-196 ("On a permanent failure ... Deliver runs the
\* dead-letter pipeline before returning") and types.go:117-121 promise both.
DeadIsRecorded ==
    \A t \in Tasks :
        stage[t] = "dead" => t \in refused \/ (audit[t] # "none" /\ degrade[t] # "none")

\* Every task is settled: attempts run out, nobody waits for a claim.
Settles == \A t \in Tasks : <>(stage[t] \in Settled)

\* "Already delivered - success-as-noop": when all tasks of an event are settled and
\* one of them as success, the subscriber accepted the event.
SuccessMeansDelivered ==
    \A t \in Tasks :
        stage[t] = "ok" /\ (\A u \in Tasks : EventOf[u] = EventOf[t] => stage[u] \in Settled)
            => EventOf[t] \in accepted
=============================================================================
