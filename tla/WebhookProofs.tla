---------------------------- MODULE WebhookProofs ----------------------------
(***************************************************************************)
(* Proofs about WebhookDelivery for any tasks and events, any length of    *)
(* the retry schedule and any number of failures.                          *)
(***************************************************************************)
EXTENDS WebhookDelivery, TLAPS

\* The cap leaves at least one attempt.
LEMMA OneAttempt == MaxAttempts \in Nat \ {0}
BY ScheduleAssumption DEF MaxAttempts

\* A task's event is one of the events.
LEMMA EventOfTask == ASSUME NEW t \in Tasks PROVE EventOf[t] \in Events
BY DEF Events

-----------------------------------------------------------------------------
(* Types.                                                                  *)

Stages == Running \cup Settled \cup {"queued"}

\* A move to a stage keeps the stages typed.
LEMMA GotoType ==
    ASSUME TypeOK, NEW t \in Tasks, NEW s \in Stages, Goto(t, s)
    PROVE  stage' \in [Tasks -> Stages]
BY DEF TypeOK, Goto, Stages

\* A retry is within the schedule.
LEMMA RetryType ==
    ASSUME TypeOK, NEW t \in Tasks, RetryOrExhaust(t)
    PROVE  stage' \in [Tasks -> Stages] /\ attempt' \in [Tasks -> 1 .. MaxAttempts]
<1>1. CASE Exhausted(attempt[t])
  BY <1>1, GotoType DEF RetryOrExhaust, TypeOK, Stages, Running
<1>2. CASE ~Exhausted(attempt[t])
  <2>1. attempt[t] \in 1 .. MaxAttempts  BY DEF TypeOK
  <2>2. attempt[t] + 1 \in 1 .. MaxAttempts
    BY <1>2, <2>1, OneAttempt DEF Exhausted
  <2>3. stage' \in [Tasks -> Stages]
    BY <1>2, GotoType DEF RetryOrExhaust, Stages
  <2> QED BY <1>2, <2>2, <2>3 DEF RetryOrExhaust, TypeOK
<1> QED BY <1>1, <1>2

\* A counted failure stays below the bound.
LEMMA FaultType == ASSUME TypeOK, Fault PROVE faults' \in 0 .. MaxFaults
BY ScheduleAssumption DEF TypeOK, Fault

\* A request that arrives is counted.
LEMMA ReachesType ==
    ASSUME TypeOK, NEW t \in Tasks, Reaches(t)
    PROVE  requests' \in [Events -> Nat]
BY EventOfTask DEF TypeOK, Reaches

\* Every step keeps the types.
LEMMA TypeStep == ASSUME TypeOK, [Next]_vars PROVE TypeOK'
<1> USE DEF Stages, Running, Settled, Write, recordVars, wireVars
<1>1. ASSUME NEW t \in Tasks, Begin(t) PROVE TypeOK'
  BY <1>1, GotoType DEF Begin, TypeOK
<1>2. ASSUME NEW t \in Tasks, BeginInvalid(t) PROVE TypeOK'
  BY <1>2, GotoType, FaultType DEF BeginInvalid, Refuse, TypeOK
<1>3. ASSUME NEW t \in Tasks, ClaimWon(t) PROVE TypeOK'
  BY <1>3, GotoType, EventOfTask DEF ClaimWon, TypeOK
<1>4. ASSUME NEW t \in Tasks, ClaimLost(t) PROVE TypeOK'
  BY <1>4, GotoType DEF ClaimLost, TypeOK
<1>5. ASSUME NEW t \in Tasks, ClaimFails(t) PROVE TypeOK'
  BY <1>5, RetryType, FaultType, EventOfTask DEF ClaimFails, TypeOK
<1>6. ASSUME NEW t \in Tasks, Resolve(t) PROVE TypeOK'
  BY <1>6, GotoType DEF Resolve, TypeOK
<1>7. ASSUME NEW t \in Tasks, ResolveFails(t) PROVE TypeOK'
  BY <1>7, RetryType, FaultType DEF ResolveFails, TypeOK
<1>8. ASSUME NEW t \in Tasks, BuildFails(t) PROVE TypeOK'
  BY <1>8, GotoType, FaultType DEF BuildFails, Refuse, TypeOK
<1>9. ASSUME NEW t \in Tasks, PostAccepted(t) PROVE TypeOK'
  BY <1>9, GotoType, ReachesType, EventOfTask DEF PostAccepted, TypeOK
<1>10. ASSUME NEW t \in Tasks, PostTransient(t) PROVE TypeOK'
  BY <1>10, RetryType, FaultType, ReachesType, EventOfTask DEF PostTransient, TypeOK
<1>11. ASSUME NEW t \in Tasks, PostPermanent(t) PROVE TypeOK'
  BY <1>11, GotoType, FaultType, ReachesType DEF PostPermanent, TypeOK
<1>16. ASSUME NEW t \in Tasks, PostBlocked(t) PROVE TypeOK'
  BY <1>16, GotoType, FaultType, ReachesType DEF PostBlocked, TypeOK
<1>12. ASSUME NEW t \in Tasks, TriggerAudit(t) PROVE TypeOK'
  BY <1>12, GotoType, FaultType DEF TriggerAudit, TypeOK
<1>13. ASSUME NEW t \in Tasks, TriggerDegrade(t) PROVE TypeOK'
  BY <1>13, GotoType, FaultType DEF TriggerDegrade, TypeOK
<1>14. ASSUME NEW t \in Tasks, WorkerDies(t) PROVE TypeOK'
  BY <1>14, GotoType, FaultType DEF WorkerDies, TypeOK
<1>15. ASSUME UNCHANGED vars PROVE TypeOK'
  BY <1>15 DEF vars, TypeOK
<1> QED
  BY <1>1, <1>2, <1>3, <1>4, <1>5, <1>6, <1>7, <1>8, <1>9, <1>10, <1>11, <1>12,
     <1>13, <1>14, <1>15, <1>16 DEF Next, Deliver

\* Attempts never leave the retry schedule, whatever fails.
THEOREM TypeCorrect == Spec => []TypeOK
<1>1. Init => TypeOK
  BY OneAttempt, ScheduleAssumption DEF Init, TypeOK, Running, Settled, Write
<1> QED BY <1>1, TypeStep, PTL DEF Spec

-----------------------------------------------------------------------------
(* One request per event.                                                  *)

Sending == {"resolving", "posting"}

\* With a store wired: a task on its way to the subscriber holds the claim of its
\* event, alone and before any request; an event without a claim had no request.
HoldsClaim == \A t \in Tasks :
    stage[t] \in Sending => EventOf[t] \in claim /\ requests[EventOf[t]] = 0
Alone == \A t, u \in Tasks :
    stage[t] \in Sending /\ stage[u] \in Sending /\ EventOf[t] = EventOf[u] => t = u
Counted == \A e \in Events : requests[e] <= 1 /\ (e \notin claim => requests[e] = 0)
ClaimInv == wired => HoldsClaim /\ Alone /\ Counted

\* A task that does not enter Sending, nothing being sent: claims may only grow.
LEMMA ClaimKept ==
    ASSUME TypeOK, ClaimInv, NEW t \in Tasks, NEW s \in Stages,
           stage' = [stage EXCEPT ![t] = s], s \in Sending => stage[t] \in Sending,
           wired' = wired, requests' = requests, claim \subseteq claim'
    PROVE  ClaimInv'
BY DEF TypeOK, ClaimInv, HoldsClaim, Alone, Counted, Sending

\* A task that leaves "posting" with at most one request more.
LEMMA ClaimSent ==
    ASSUME TypeOK, ClaimInv, NEW t \in Tasks, NEW s \in Stages,
           stage[t] = "posting", s \notin Sending, stage' = [stage EXCEPT ![t] = s],
           wired' = wired, claim' = claim, Reaches(t)
    PROVE  ClaimInv'
<1> SUFFICES ASSUME wired PROVE (HoldsClaim /\ Alone /\ Counted)'
  BY DEF ClaimInv
<1>1. EventOf[t] \in claim /\ requests[EventOf[t]] = 0
  BY DEF ClaimInv, HoldsClaim, Sending
<1>2. \A u \in Tasks : stage'[u] \in Sending =>
        stage[u] \in Sending /\ u # t /\ EventOf[u] # EventOf[t]
  BY DEF ClaimInv, Alone, Sending, TypeOK
<1>3. \A e \in Events : requests'[e] = IF e = EventOf[t] THEN 1 ELSE requests[e]
  BY <1>1, EventOfTask DEF Reaches, TypeOK
<1>4. HoldsClaim'  BY <1>2, <1>3, EventOfTask DEF ClaimInv, HoldsClaim
<1>5. Alone'  BY <1>2 DEF ClaimInv, Alone
<1>6. Counted'  BY <1>1, <1>3 DEF ClaimInv, Counted
<1> QED BY <1>4, <1>5, <1>6

\* A task that retries or gives up moves outside Sending.
LEMMA RetryStage ==
    ASSUME NEW t \in Tasks, RetryOrExhaust(t)
    PROVE  \E s \in {"auditing", "queued"} : stage' = [stage EXCEPT ![t] = s]
BY DEF RetryOrExhaust, Goto

\* Every step keeps the claim discipline.
LEMMA ClaimStep == ASSUME TypeOK, ClaimInv, [Next]_vars PROVE ClaimInv'
<1> USE DEF Stages, Running, Settled, Sending, wireVars, Goto
<1>1. ASSUME NEW t \in Tasks, Begin(t) PROVE ClaimInv'
  <2>1. CASE wired  BY <1>1, <2>1, ClaimKept DEF Begin
  <2>2. CASE ~wired  BY <1>1, <2>2 DEF Begin, ClaimInv
  <2> QED BY <2>1, <2>2
<1>2. ASSUME NEW t \in Tasks, BeginInvalid(t) PROVE ClaimInv'
  BY <1>2, ClaimKept DEF BeginInvalid, Refuse
<1>3. ASSUME NEW t \in Tasks, ClaimWon(t) PROVE ClaimInv'
  <2> SUFFICES ASSUME wired PROVE (HoldsClaim /\ Alone /\ Counted)'
    BY <1>3 DEF ClaimInv, ClaimWon
  <2>1. \A u \in Tasks : stage[u] \in Sending => EventOf[u] # EventOf[t]
    BY <1>3 DEF ClaimWon, ClaimInv, HoldsClaim
  <2>2. requests[EventOf[t]] = 0
    BY <1>3, EventOfTask DEF ClaimWon, ClaimInv, Counted
  <2>3. \A u \in Tasks : stage'[u] = IF u = t THEN "resolving" ELSE stage[u]
    BY <1>3 DEF ClaimWon, TypeOK
  <2>4. HoldsClaim'  BY <1>3, <2>2, <2>3 DEF ClaimWon, ClaimInv, HoldsClaim
  <2>5. Alone'  BY <2>1, <2>3 DEF ClaimInv, Alone
  <2>6. Counted'  BY <1>3 DEF ClaimWon, ClaimInv, Counted
  <2> QED BY <2>4, <2>5, <2>6
<1>4. ASSUME NEW t \in Tasks, ClaimLost(t) PROVE ClaimInv'
  BY <1>4, ClaimKept DEF ClaimLost
<1>5. ASSUME NEW t \in Tasks, ClaimFails(t) PROVE ClaimInv'
  BY <1>5, ClaimKept, RetryStage DEF ClaimFails
<1>6. ASSUME NEW t \in Tasks, Resolve(t) PROVE ClaimInv'
  BY <1>6, ClaimKept DEF Resolve
<1>7. ASSUME NEW t \in Tasks, ResolveFails(t) PROVE ClaimInv'
  BY <1>7, ClaimKept, RetryStage DEF ResolveFails
<1>8. ASSUME NEW t \in Tasks, BuildFails(t) PROVE ClaimInv'
  BY <1>8, ClaimKept DEF BuildFails, Refuse
<1>9. ASSUME NEW t \in Tasks, PostAccepted(t) PROVE ClaimInv'
  BY <1>9, ClaimSent DEF PostAccepted
<1>10. ASSUME NEW t \in Tasks, PostTransient(t) PROVE ClaimInv'
  BY <1>10, ClaimKept, ClaimSent, RetryStage DEF PostTransient
<1>11. ASSUME NEW t \in Tasks, PostPermanent(t) PROVE ClaimInv'
  BY <1>11, ClaimKept, ClaimSent DEF PostPermanent
<1>16. ASSUME NEW t \in Tasks, PostBlocked(t) PROVE ClaimInv'
  BY <1>16, ClaimKept, ClaimSent DEF PostBlocked
<1>12. ASSUME NEW t \in Tasks, TriggerAudit(t) PROVE ClaimInv'
  BY <1>12, ClaimKept DEF TriggerAudit
<1>13. ASSUME NEW t \in Tasks, TriggerDegrade(t) PROVE ClaimInv'
  BY <1>13, ClaimKept DEF TriggerDegrade
<1>14. ASSUME NEW t \in Tasks, WorkerDies(t) PROVE ClaimInv'
  BY <1>14, ClaimKept DEF WorkerDies
<1>15. ASSUME UNCHANGED vars PROVE ClaimInv'
  BY <1>15 DEF vars, ClaimInv, HoldsClaim, Alone, Counted
<1> QED
  BY <1>1, <1>2, <1>3, <1>4, <1>5, <1>6, <1>7, <1>8, <1>9, <1>10, <1>11, <1>12,
     <1>13, <1>14, <1>15, <1>16 DEF Next, Deliver

\* The Deliverer with an IdempotencyStore sends no event twice: a retry, a second
\* task of the event and a worker's death all meet the claim.
THEOREM AtMostOneRequest == Spec => []OneRequest
<1>1. Init => ClaimInv
  BY DEF Init, ClaimInv, HoldsClaim, Alone, Counted, Sending
<1>2. ClaimInv => OneRequest
  BY DEF ClaimInv, Counted, OneRequest
<1> QED BY <1>1, <1>2, ClaimStep, TypeCorrect, PTL DEF Spec

-----------------------------------------------------------------------------
(* How tasks end.                                                          *)

\* Without a store no task is at the claim, and success was answered by the
\* subscriber; behind the audit write there is an audit result.
OutcomeInv ==
    /\ \A t \in Tasks : ~wired => stage[t] # "claiming"
    /\ UnclaimedSuccess
    /\ \A t \in Tasks : stage[t] = "degrading" => audit[t] # "none"
    /\ DeadIsRecorded

\* A move that records nothing and does not end in success or behind a record.
LEMMA OutcomeKept ==
    ASSUME TypeOK, OutcomeInv, NEW t \in Tasks,
           NEW s \in {"queued", "resolving", "posting", "auditing"},
           stage' = [stage EXCEPT ![t] = s], accepted \subseteq accepted',
           UNCHANGED <<wired, audit, degrade, refused>>
    PROVE  OutcomeInv'
BY DEF TypeOK, OutcomeInv, UnclaimedSuccess, DeadIsRecorded

\* Every step keeps the outcomes.
LEMMA OutcomeStep == ASSUME TypeOK, OutcomeInv, [Next]_vars PROVE OutcomeInv'
<1> USE DEF wireVars, recordVars, Goto
<1>1. ASSUME NEW t \in Tasks, Begin(t) PROVE OutcomeInv'
  BY <1>1 DEF Begin, TypeOK, OutcomeInv, UnclaimedSuccess, DeadIsRecorded
<1>2. ASSUME NEW t \in Tasks, BeginInvalid(t) PROVE OutcomeInv'
  BY <1>2 DEF BeginInvalid, Refuse, TypeOK, OutcomeInv, UnclaimedSuccess, DeadIsRecorded
<1>3. ASSUME NEW t \in Tasks, ClaimWon(t) PROVE OutcomeInv'
  BY <1>3, OutcomeKept DEF ClaimWon
<1>4. ASSUME NEW t \in Tasks, ClaimLost(t) PROVE OutcomeInv'
  BY <1>4 DEF ClaimLost, TypeOK, OutcomeInv, UnclaimedSuccess, DeadIsRecorded
<1>5. ASSUME NEW t \in Tasks, ClaimFails(t) PROVE OutcomeInv'
  BY <1>5, OutcomeKept, RetryStage DEF ClaimFails
<1>6. ASSUME NEW t \in Tasks, Resolve(t) PROVE OutcomeInv'
  BY <1>6, OutcomeKept DEF Resolve
<1>7. ASSUME NEW t \in Tasks, ResolveFails(t) PROVE OutcomeInv'
  BY <1>7, OutcomeKept, RetryStage DEF ResolveFails
<1>8. ASSUME NEW t \in Tasks, BuildFails(t) PROVE OutcomeInv'
  BY <1>8 DEF BuildFails, Refuse, TypeOK, OutcomeInv, UnclaimedSuccess, DeadIsRecorded
<1>9. ASSUME NEW t \in Tasks, PostAccepted(t) PROVE OutcomeInv'
  BY <1>9 DEF PostAccepted, TypeOK, OutcomeInv, UnclaimedSuccess, DeadIsRecorded
<1>10. ASSUME NEW t \in Tasks, PostTransient(t) PROVE OutcomeInv'
  BY <1>10, OutcomeKept, RetryStage DEF PostTransient
<1>11. ASSUME NEW t \in Tasks, PostPermanent(t) PROVE OutcomeInv'
  BY <1>11, OutcomeKept DEF PostPermanent
<1>16. ASSUME NEW t \in Tasks, PostBlocked(t) PROVE OutcomeInv'
  BY <1>16, OutcomeKept DEF PostBlocked
<1>12. ASSUME NEW t \in Tasks, TriggerAudit(t) PROVE OutcomeInv'
  BY <1>12 DEF TriggerAudit, TypeOK, OutcomeInv, UnclaimedSuccess, DeadIsRecorded
<1>13. ASSUME NEW t \in Tasks, TriggerDegrade(t) PROVE OutcomeInv'
  BY <1>13 DEF TriggerDegrade, TypeOK, OutcomeInv, UnclaimedSuccess, DeadIsRecorded
<1>14. ASSUME NEW t \in Tasks, WorkerDies(t) PROVE OutcomeInv'
  BY <1>14, OutcomeKept DEF WorkerDies
<1>15. ASSUME UNCHANGED vars PROVE OutcomeInv'
  BY <1>15 DEF vars, OutcomeInv, UnclaimedSuccess, DeadIsRecorded
<1> QED
  BY <1>1, <1>2, <1>3, <1>4, <1>5, <1>6, <1>7, <1>8, <1>9, <1>10, <1>11, <1>12,
     <1>13, <1>14, <1>15, <1>16 DEF Next, Deliver

\* Outcomes hold throughout.
LEMMA Outcomes == Spec => []OutcomeInv
<1>1. Init => OutcomeInv
  BY DEF Init, OutcomeInv, UnclaimedSuccess, DeadIsRecorded
<1> QED BY <1>1, OutcomeStep, TypeCorrect, PTL DEF Spec

\* A Deliverer without a store answers success only for what the subscriber accepted.
THEOREM SuccessIsAccepted == Spec => []UnclaimedSuccess
<1>1. OutcomeInv => UnclaimedSuccess  BY DEF OutcomeInv
<1> QED BY <1>1, Outcomes, PTL

\* A task that ends as dead letter after the subscriber or the network failed it has been
\* through both steps of the pipeline, although a worker may die between them and either
\* write may fail; the only others are those Deliver refused before it had a request.
THEOREM PipelineIsComplete == Spec => []DeadIsRecorded
<1>1. OutcomeInv => DeadIsRecorded  BY DEF OutcomeInv
<1> QED BY <1>1, Outcomes, PTL
=============================================================================
