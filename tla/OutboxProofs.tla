---------------------------- MODULE OutboxProofs ----------------------------
(***************************************************************************)
(* Proofs about Outbox for every set of rows and pollers, every batch      *)
(* size, lease and backoff, and every number of failures.                  *)
(***************************************************************************)
EXTENDS Outbox, FiniteSetTheorems, TLAPS

\* The backoff of a failed row never leaves BackoffMin .. MaxBackoff.
LEMMA BackoffBounds ==
    ASSUME NEW n PROVE BackoffFor(n) \in 1 .. MaxBackoff
BY KnobsAssumption DEF BackoffFor, MaxBackoff

\* The knobs are natural numbers.
LEMMA MaxBackoffType == MaxBackoff \in Nat \ {0} /\ Lease \in Nat
BY KnobsAssumption DEF MaxBackoff

\* Initial states are well-typed.
LEMMA TypeInit == Init => TypeOK
BY MaxBackoffType, KnobsAssumption DEF TypeOK, Init, NoPoller, NoRow, TxnState, Phase

\* Every step keeps the types, action by action.
LEMMA TypeStep == ASSUME TypeOK, [Next]_vars PROVE TypeOK'
<1> USE MaxBackoffType DEF TypeOK, rowVars, pollerVars
<1>1. ASSUME NEW r \in Rows, Write(r) \/ EndTx(r) PROVE TypeOK'
  BY <1>1 DEF Write, EndTx, TxnState
<1>. DEFINE Columns == /\ claimed' \in [Rows -> BOOLEAN]
                       /\ claimedBy' \in [Rows -> Pollers \cup {NoPoller}]
                       /\ age' \in [Rows -> (-MaxBackoff) .. (Lease + 1)]
<1>a. ASSUME NEW p \in Pollers, StampClaim(p) PROVE Columns
  <2>1. claimed' \in [Rows -> BOOLEAN]  BY <1>a, Zenon DEF StampClaim
  <2>2. claimedBy' \in [Rows -> Pollers \cup {NoPoller}]  BY <1>a DEF StampClaim
  <2>3. age' \in [Rows -> (-MaxBackoff) .. (Lease + 1)]  BY <1>a DEF StampClaim
  <2> QED BY <2>1, <2>2, <2>3
<1>2. ASSUME NEW p \in Pollers, ClaimQuery(p) PROVE TypeOK'
  <2>1. Oldest(Eligible(p)) \in SUBSET Rows  BY DEF Oldest, Eligible
  <2> QED BY <1>2, <2>1 DEF ClaimQuery, Phase
<1>3. ASSUME NEW p \in Pollers, ClaimCommit(p) PROVE TypeOK'
  BY <1>3, <1>a DEF ClaimCommit, NoMishap, Phase
<1>4. ASSUME NEW p \in Pollers, ClaimFail(p) PROVE TypeOK'
  BY <1>4, <1>a, KnobsAssumption DEF ClaimFail, Mishap, Phase
<1>5. ASSUME NEW p \in Pollers, FinishBatch(p) \/ EnqueueOK(p) PROVE TypeOK'
  BY <1>5 DEF FinishBatch, EnqueueOK, Phase
<1>6. ASSUME NEW p \in Pollers, EnqueueError(p) PROVE TypeOK'
  BY <1>6, KnobsAssumption DEF EnqueueError, Mishap, Phase
<1>7. ASSUME NEW p \in Pollers, Delete(p) \/ DeleteError(p) PROVE TypeOK'
  BY <1>7, KnobsAssumption
  DEF Delete, DeleteError, DeleteEffect, NextRow, Mishap, NoMishap, NoRow, Phase, TxnState
<1>8. ASSUME NEW p \in Pollers, Release(p) \/ ReleaseError(p) PROVE TypeOK'
  <2>1. ASSUME ReleaseEffect(p)
        PROVE  /\ claimed' \in [Rows -> BOOLEAN]
               /\ age' \in [Rows -> (-MaxBackoff) .. (Lease + 1)]
               /\ attempts' \in [Rows -> Nat]
    <3> DEFINE stamp == - BackoffFor(attempts[cur[p]])
    <3>1. stamp \in (-MaxBackoff) .. (Lease + 1)
      BY BackoffBounds
    <3> HIDE DEF stamp
    <3>2. CASE txn[cur[p]] = "live"
      <4>1. /\ claimed' = [claimed EXCEPT ![cur[p]] = TRUE]
            /\ age' = [age EXCEPT ![cur[p]] = stamp]
            /\ attempts' = [attempts EXCEPT ![cur[p]] = @ + 1]
        BY <2>1, <3>2 DEF ReleaseEffect, stamp
      <4>2. age' \in [Rows -> (-MaxBackoff) .. (Lease + 1)]  BY <3>1, <4>1
      <4>3. attempts' \in [Rows -> Nat]
        <5>1. attempts \in [Rows -> Nat]  OBVIOUS
        <5> HIDE DEF TypeOK
        <5>2. CASE cur[p] \in Rows
          <6>1. attempts[cur[p]] + 1 \in Nat  BY <5>1, <5>2
          <6> QED BY <4>1, <5>1, <6>1
        <5>3. CASE cur[p] \notin Rows
          BY <4>1, <5>1, <5>3
        <5> QED BY <5>2, <5>3
      <4>4. claimed' \in [Rows -> BOOLEAN]  BY <4>1
      <4> QED BY <4>2, <4>3, <4>4
    <3>3. CASE txn[cur[p]] # "live"
      BY <2>1, <3>3 DEF ReleaseEffect
    <3> QED BY <3>2, <3>3
  <2> QED
    BY <1>8, <2>1, KnobsAssumption
    DEF Release, ReleaseError, NextRow, Mishap, NoMishap, NoRow, Phase
<1>9. ASSUME NEW p \in Pollers, Stop(p) \/ Crash(p) \/ Start(p) PROVE TypeOK'
  BY <1>9, KnobsAssumption DEF Stop, Crash, Start, Mishap, NoRow, Phase
<1>10. ASSUME Sweep PROVE TypeOK'
  <2>1. claimed' \in [Rows -> BOOLEAN]  BY <1>10, Zenon DEF Sweep
  <2> QED BY <1>10, <2>1 DEF Sweep, NoPoller
<1>11. ASSUME Tick PROVE TypeOK'
  BY <1>11, KnobsAssumption DEF Tick, Older, Mishap, NoMishap
<1>12. CASE UNCHANGED vars
  BY <1>12 DEF vars
<1> QED
  BY <1>1, <1>2, <1>3, <1>4, <1>5, <1>6, <1>7, <1>8, <1>9, <1>10, <1>11, <1>12
  DEF Next, PollerStep

\* Every step keeps the types of the columns and of the pollers' variables.
THEOREM TypeCorrect == Spec => []TypeOK
BY TypeInit, TypeStep, PTL DEF Spec

-----------------------------------------------------------------------------
\* No step of any poller, however stale, breaks the claim discipline or drops a
\* row that Redis has not received.
SafetyInv == ClaimDiscipline /\ NoLoss /\ NoPhantom

\* An empty outbox is safe.
LEMMA SafetyInit == Init => SafetyInv
BY DEF Init, SafetyInv, ClaimDiscipline, BatchCommitted, WorksOnBatch, DeletesDelivered,
       LocksExclusive, OwnerHasClaim, NoLoss, NoPhantom

\* Every step of every poller, handler and sweep keeps the three parts.
LEMMA SafetyStep == ASSUME TypeOK, SafetyInv, [Next]_vars PROVE SafetyInv'
<1> USE DEF SafetyInv, ClaimDiscipline, BatchCommitted, WorksOnBatch, DeletesDelivered,
            LocksExclusive, LockedByOther, OwnerHasClaim, NoLoss, NoPhantom,
            TypeOK, rowVars, pollerVars
<1>1. ASSUME NEW r \in Rows, Write(r) \/ EndTx(r) PROVE SafetyInv'
  BY <1>1 DEF Write, EndTx
<1>2. ASSUME NEW p \in Pollers, ClaimQuery(p) PROVE SafetyInv'
  <2>1. Oldest(Eligible(p)) \subseteq Eligible(p)  BY DEF Oldest
  <2> QED BY <1>2, <2>1 DEF ClaimQuery, Eligible
<1>3. ASSUME NEW p \in Pollers, ClaimCommit(p) PROVE SafetyInv'
  <2>1. BatchCommitted'  BY <1>3 DEF ClaimCommit, StampClaim
  <2>2. WorksOnBatch'  BY <1>3 DEF ClaimCommit, StampClaim
  <2>3. DeletesDelivered'  BY <1>3 DEF ClaimCommit, StampClaim
  <2>4. LocksExclusive'  BY <1>3 DEF ClaimCommit, StampClaim
  <2>5. OwnerHasClaim'  BY <1>3 DEF ClaimCommit, StampClaim
  <2>6. NoLoss'  BY <1>3 DEF ClaimCommit, StampClaim
  <2>7. NoPhantom'  BY <1>3 DEF ClaimCommit, StampClaim
  <2> QED BY <2>1, <2>2, <2>3, <2>4, <2>5, <2>6, <2>7
<1>4. ASSUME NEW p \in Pollers, ClaimFail(p) PROVE SafetyInv'
  <2>1. BatchCommitted'  BY <1>4 DEF ClaimFail, StampClaim
  <2>2. WorksOnBatch'  BY <1>4 DEF ClaimFail, StampClaim
  <2>3. DeletesDelivered'  BY <1>4 DEF ClaimFail, StampClaim
  <2>4. LocksExclusive'  BY <1>4 DEF ClaimFail, StampClaim
  <2>5. OwnerHasClaim'
    <3>1. CASE UNCHANGED <<claimed, claimedBy, age>>  BY <3>1
    <3>2. CASE StampClaim(p)  BY <3>2 DEF StampClaim
    <3> QED BY <1>4, <3>1, <3>2 DEF ClaimFail
  <2>6. NoLoss'  BY <1>4 DEF ClaimFail, StampClaim
  <2>7. NoPhantom'  BY <1>4 DEF ClaimFail, StampClaim
  <2> QED BY <2>1, <2>2, <2>3, <2>4, <2>5, <2>6, <2>7
<1>5. ASSUME NEW p \in Pollers, FinishBatch(p) \/ EnqueueOK(p) \/ EnqueueError(p) PROVE SafetyInv'
  BY <1>5 DEF FinishBatch, EnqueueOK, EnqueueError
<1>6. ASSUME NEW p \in Pollers, Delete(p) \/ DeleteError(p) PROVE SafetyInv'
  <2>1. BatchCommitted'  BY <1>6 DEF Delete, DeleteError, DeleteEffect, NextRow
  <2>2. WorksOnBatch'  BY <1>6 DEF Delete, DeleteError, DeleteEffect, NextRow
  <2>3. DeletesDelivered'  BY <1>6 DEF Delete, DeleteError, DeleteEffect, NextRow
  <2>4. LocksExclusive'  BY <1>6 DEF Delete, DeleteError, DeleteEffect, NextRow
  <2>5. OwnerHasClaim'  BY <1>6 DEF Delete, DeleteError, DeleteEffect, NextRow
  <2>6. NoLoss'  BY <1>6 DEF Delete, DeleteError, DeleteEffect, NextRow
  <2>7. NoPhantom'  BY <1>6 DEF Delete, DeleteError, DeleteEffect, NextRow
  <2> QED BY <2>1, <2>2, <2>3, <2>4, <2>5, <2>6, <2>7
<1>7. ASSUME NEW p \in Pollers, Release(p) \/ ReleaseError(p) PROVE SafetyInv'
  <2>1. BatchCommitted'  BY <1>7 DEF Release, ReleaseError, ReleaseEffect, NextRow
  <2>2. WorksOnBatch'  BY <1>7 DEF Release, ReleaseError, ReleaseEffect, NextRow
  <2>3. DeletesDelivered'  BY <1>7 DEF Release, ReleaseError, ReleaseEffect, NextRow
  <2>4. LocksExclusive'  BY <1>7 DEF Release, ReleaseError, ReleaseEffect, NextRow
  <2>5. OwnerHasClaim'  BY <1>7 DEF Release, ReleaseError, ReleaseEffect, NextRow
  <2>6. NoLoss'  BY <1>7 DEF Release, ReleaseError, ReleaseEffect, NextRow
  <2>7. NoPhantom'  BY <1>7 DEF Release, ReleaseError, ReleaseEffect, NextRow
  <2> QED BY <2>1, <2>2, <2>3, <2>4, <2>5, <2>6, <2>7
<1>8. ASSUME NEW p \in Pollers, Stop(p) \/ Crash(p) \/ Start(p) PROVE SafetyInv'
  BY <1>8 DEF Stop, Crash, Start
<1>9. ASSUME Sweep PROVE SafetyInv'
  BY <1>9 DEF Sweep, Expired
<1>10. ASSUME Tick PROVE SafetyInv'
  BY <1>10 DEF Tick
<1>11. CASE UNCHANGED vars
  BY <1>11 DEF vars
<1> QED
  BY <1>1, <1>2, <1>3, <1>4, <1>5, <1>6, <1>7, <1>8, <1>9, <1>10, <1>11
  DEF Next, PollerStep

\* The three hold together, for any number of rows, pollers and failures.
THEOREM SafetyCorrect == Spec => []SafetyInv
BY TypeCorrect, SafetyInit, SafetyStep, PTL DEF Spec

\* No committed row leaves the outbox before Redis has received it.
THEOREM NeverLost == Spec => []NoLoss
BY SafetyCorrect, PTL DEF SafetyInv

\* Nothing of a rolled back or open handler transaction reaches Redis.
THEOREM NeverPhantom == Spec => []NoPhantom
BY SafetyCorrect, PTL DEF SafetyInv

\* Locks are exclusive and a poller deletes only what it has delivered.
THEOREM ClaimsAreDisciplined == Spec => []ClaimDiscipline
BY SafetyCorrect, PTL DEF SafetyInv

-----------------------------------------------------------------------------
\* No claim passes from one poller to another: only an expired one is cleared.
THEOREM HandoverByExpiry == Spec => ClaimHandover
<1> DEFINE Handover == \A r \in Rows :
        claimedBy[r] # NoPoller /\ claimedBy'[r] # claimedBy[r]
            => Expired(r) /\ claimedBy'[r] = NoPoller
<1>1. ASSUME TypeOK, SafetyInv, [Next]_vars PROVE Handover
  <2> SUFFICES ASSUME NEW r \in Rows, claimedBy[r] # NoPoller, claimedBy'[r] # claimedBy[r]
               PROVE  Expired(r) /\ claimedBy'[r] = NoPoller
    OBVIOUS
  <2>1. claimed[r]  BY <1>1 DEF SafetyInv, ClaimDiscipline, OwnerHasClaim
  <2>2. ASSUME NEW p \in Pollers, phase[p] = "claiming", StampClaim(p) PROVE FALSE
    BY <1>1, <2>1, <2>2 DEF SafetyInv, ClaimDiscipline, LocksExclusive, StampClaim
  <2>3. Sweep
    BY <1>1, <2>2
    DEF Next, PollerStep, vars, rowVars, pollerVars, Write, EndTx, ClaimQuery, ClaimCommit,
        ClaimFail, FinishBatch, EnqueueOK, EnqueueError, Delete, DeleteError, Release,
        ReleaseError, Stop, Crash, Start, Tick
  <2> QED BY <2>3 DEF Sweep
<1>2. ASSUME TypeOK, SafetyInv, [Next]_vars PROVE [Handover]_vars
  BY <1>1, <1>2
<1> QED BY <1>2, TypeCorrect, SafetyCorrect, PTL DEF Spec, ClaimHandover

-----------------------------------------------------------------------------
(* The delivery budget.  A step may move a unit of a row's budget between  *)
(* "claimable", "being delivered" and "delivered", or drop it; only the    *)
(* sweep grants a new one.                                                 *)

\* A poller names a current row only while it deletes or releases it.
CurInv == \A p \in Pollers : phase[p] \notin {"deleting", "releasing"} => cur[p] = NoRow

\* What the budget of a row is spent on.
ClaimUnit(r) == IF Claimable(r) THEN 1 ELSE 0
BudgetOf(r) == enq[r] + Cardinality(Deliverers(r)) + ClaimUnit(r) <= 1 + sweeps[r]

\* Every step keeps CurInv.
LEMMA CurStep == ASSUME TypeOK, CurInv, [Next]_vars PROVE CurInv'
BY DEF CurInv, TypeOK, rowVars, pollerVars, Next, PollerStep, vars, Write, EndTx, ClaimQuery,
       ClaimCommit, ClaimFail, FinishBatch, EnqueueOK, EnqueueError, Delete, DeleteError,
       Release, ReleaseError, NextRow, Stop, Crash, Start, Sweep, Tick

\* The pollers working towards a delivery are finitely many, before and after.
LEMMA DeliverersFinite ==
    ASSUME NEW r \in Rows
    PROVE  /\ IsFiniteSet(Deliverers(r)) /\ Cardinality(Deliverers(r)) \in Nat
           /\ IsFiniteSet(Deliverers(r)') /\ Cardinality(Deliverers(r)') \in Nat
<1>1. Deliverers(r) \subseteq Pollers /\ Deliverers(r)' \subseteq Pollers  BY DEF Deliverers
<1> QED BY <1>1, PollersAssumption, FS_Subset, FS_CardinalityType

\* A row keeps its budget when nothing is added to what it is spent on.
LEMMA BudgetQuiet ==
    ASSUME TypeOK, NEW r \in Rows, BudgetOf(r),
           Deliverers(r)' \subseteq Deliverers(r),
           enq'[r] = enq[r], sweeps'[r] = sweeps[r],
           Claimable(r)' => Claimable(r)
    PROVE  BudgetOf(r)'
<1>1. Cardinality(Deliverers(r)') <= Cardinality(Deliverers(r))
  BY DeliverersFinite, FS_Subset
<1>2. ClaimUnit(r) \in {0, 1} /\ ClaimUnit(r)' \in {0, 1} /\ ClaimUnit(r)' <= ClaimUnit(r)
  BY DEF ClaimUnit
<1>3. enq[r] \in Nat /\ sweeps[r] \in Nat  BY DEF TypeOK
<1> QED BY <1>1, <1>2, <1>3, DeliverersFinite DEF BudgetOf

\* A claim spends the unit that made the row claimable.
LEMMA BudgetClaim ==
    ASSUME TypeOK, NEW r \in Rows, NEW p \in Pollers, BudgetOf(r),
           Deliverers(r)' \subseteq Deliverers(r) \cup {p},
           enq'[r] = enq[r], sweeps'[r] = sweeps[r],
           Claimable(r), ~ Claimable(r)'
    PROVE  BudgetOf(r)'
<1>1. Cardinality(Deliverers(r)') <= Cardinality(Deliverers(r)) + 1
  <2>1. /\ IsFiniteSet(Deliverers(r) \cup {p})
        /\ Cardinality(Deliverers(r) \cup {p}) \in Nat
        /\ Cardinality(Deliverers(r) \cup {p}) <= Cardinality(Deliverers(r)) + 1
    <3> DEFINE D == Deliverers(r)
    <3>1. IsFiniteSet(D) /\ Cardinality(D) \in Nat  BY DeliverersFinite
    <3> HIDE DEF D
    <3>2. /\ IsFiniteSet(D \cup {p})
          /\ Cardinality(D \cup {p}) \in {Cardinality(D), Cardinality(D) + 1}
      BY <3>1, FS_AddElement
    <3>3. Cardinality(D \cup {p}) \in Nat  BY <3>2, FS_CardinalityType
    <3>4. Cardinality(D \cup {p}) <= Cardinality(D) + 1  BY <3>1, <3>2
    <3> QED BY <3>2, <3>3, <3>4 DEF D
  <2>2. Cardinality(Deliverers(r)') <= Cardinality(Deliverers(r) \cup {p})
    BY <2>1, FS_Subset
  <2> QED BY <2>1, <2>2, DeliverersFinite
<1>2. ClaimUnit(r) = 1 /\ ClaimUnit(r)' = 0  BY DEF ClaimUnit
<1>3. enq[r] \in Nat /\ sweeps[r] \in Nat  BY DEF TypeOK
<1> QED BY <1>1, <1>2, <1>3, DeliverersFinite DEF BudgetOf

\* A poller that leaves the deliverers pays for one delivery, or for making the
\* row claimable again.
LEMMA BudgetPass ==
    ASSUME TypeOK, NEW r \in Rows, NEW p \in Deliverers(r), BudgetOf(r),
           Deliverers(r)' \subseteq Deliverers(r) \ {p},
           sweeps'[r] = sweeps[r],
           \/ enq'[r] = enq[r]
           \/ enq'[r] = enq[r] + 1 /\ (Claimable(r)' => Claimable(r))
    PROVE  BudgetOf(r)'
<1>1. Cardinality(Deliverers(r)') + 1 <= Cardinality(Deliverers(r))
  <2>1. /\ IsFiniteSet(Deliverers(r) \ {p})
        /\ Cardinality(Deliverers(r) \ {p}) = Cardinality(Deliverers(r)) - 1
    BY DeliverersFinite, FS_RemoveElement
  <2>2. Cardinality(Deliverers(r)') <= Cardinality(Deliverers(r) \ {p})
    BY <2>1, FS_Subset
  <2> QED BY <2>1, <2>2, DeliverersFinite
<1>2. ClaimUnit(r) \in {0, 1} /\ ClaimUnit(r)' \in {0, 1}  BY DEF ClaimUnit
<1>3. (Claimable(r)' => Claimable(r)) => ClaimUnit(r)' <= ClaimUnit(r)  BY DEF ClaimUnit
<1>4. enq[r] \in Nat /\ sweeps[r] \in Nat  BY DEF TypeOK
<1> QED BY <1>1, <1>2, <1>3, <1>4, DeliverersFinite DEF BudgetOf

\* A sweep makes a row claimable once more and counts it.
LEMMA BudgetGrant ==
    ASSUME TypeOK, NEW r \in Rows, BudgetOf(r),
           Deliverers(r)' \subseteq Deliverers(r),
           enq'[r] = enq[r], sweeps'[r] = sweeps[r] + 1
    PROVE  BudgetOf(r)'
<1>1. Cardinality(Deliverers(r)') <= Cardinality(Deliverers(r))
  BY DeliverersFinite, FS_Subset
<1>2. ClaimUnit(r) \in {0, 1} /\ ClaimUnit(r)' \in {0, 1}  BY DEF ClaimUnit
<1>3. enq[r] \in Nat /\ sweeps[r] \in Nat  BY DEF TypeOK
<1> QED BY <1>1, <1>2, <1>3, DeliverersFinite DEF BudgetOf

\* Every step keeps the budget of every row.
LEMMA BudgetStep ==
    ASSUME TypeOK, SafetyInv, CurInv, [Next]_vars, NEW r \in Rows, BudgetOf(r)
    PROVE  BudgetOf(r)'
<1>n. NoRow # r  BY RowsAssumption DEF NoRow
<1> USE DEF TypeOK, rowVars, pollerVars
<1>1. ASSUME NEW w \in Rows, Write(w) \/ EndTx(w) PROVE BudgetOf(r)'
  <2>1. Deliverers(r)' \subseteq Deliverers(r) /\ (Claimable(r)' => Claimable(r))
    BY <1>1 DEF Write, EndTx, Deliverers, Claimable
  <2>2. enq'[r] = enq[r] /\ sweeps'[r] = sweeps[r]  BY <1>1 DEF Write, EndTx
  <2> QED BY <2>1, <2>2, BudgetQuiet
<1>2. ASSUME NEW p \in Pollers, ClaimQuery(p) PROVE BudgetOf(r)'
  <2>0. enq'[r] = enq[r] /\ sweeps'[r] = sweeps[r]  BY <1>2 DEF ClaimQuery
  <2>1. CASE r \in batch'[p]
    <3>1. r \in Eligible(p)  BY <1>2, <2>1 DEF ClaimQuery, Oldest
    <3>2. Claimable(r)  BY <1>2, <3>1 DEF ClaimQuery, Eligible, LockedByOther, Claimable
    <3>3. ~ Claimable(r)'  BY <1>2, <2>1 DEF ClaimQuery, Claimable
    <3>4. Deliverers(r)' \subseteq Deliverers(r) \cup {p}  BY <1>2 DEF ClaimQuery, Deliverers
    <3> QED BY <2>0, <3>2, <3>3, <3>4, BudgetClaim
  <2>2. CASE r \notin batch'[p]
    <3>1. Deliverers(r)' \subseteq Deliverers(r)  BY <1>2, <2>2 DEF ClaimQuery, Deliverers
    <3>2. Claimable(r)' => Claimable(r)  BY <1>2, <2>2 DEF ClaimQuery, Claimable
    <3> QED BY <2>0, <3>1, <3>2, BudgetQuiet
  <2> QED BY <2>1, <2>2
<1>3. ASSUME NEW p \in Pollers, ClaimCommit(p) PROVE BudgetOf(r)'
  <2>1. Deliverers(r)' \subseteq Deliverers(r)
    BY <1>3 DEF ClaimCommit, Deliverers
  <2>2. Claimable(r)' => Claimable(r)
    BY <1>3 DEF ClaimCommit, StampClaim, Claimable
  <2>3. enq'[r] = enq[r] /\ sweeps'[r] = sweeps[r]  BY <1>3 DEF ClaimCommit
  <2> QED BY <2>1, <2>2, <2>3, BudgetQuiet
<1>4. ASSUME NEW p \in Pollers, ClaimFail(p) PROVE BudgetOf(r)'
  <2>0. enq'[r] = enq[r] /\ sweeps'[r] = sweeps[r]  BY <1>4 DEF ClaimFail
  <2>1. CASE r \in batch[p]
    <3>1. p \in Deliverers(r)  BY <1>4, <2>1 DEF ClaimFail, Deliverers
    <3>2. Deliverers(r)' \subseteq Deliverers(r) \ {p}  BY <1>4 DEF ClaimFail, Deliverers
    <3> QED BY <2>0, <3>1, <3>2, BudgetPass
  <2>2. CASE r \notin batch[p]
    <3>1. Deliverers(r)' \subseteq Deliverers(r)  BY <1>4 DEF ClaimFail, Deliverers
    <3>2. claimed'[r] = claimed[r]  BY <1>4, <2>2 DEF ClaimFail, StampClaim
    <3>3. Claimable(r)' => Claimable(r)  BY <1>4, <2>2, <3>2 DEF ClaimFail, Claimable
    <3> QED BY <2>0, <3>1, <3>3, BudgetQuiet
  <2> QED BY <2>1, <2>2
<1>5. ASSUME NEW p \in Pollers, FinishBatch(p) \/ Stop(p) \/ Start(p) PROVE BudgetOf(r)'
  <2>1. Deliverers(r)' \subseteq Deliverers(r)
    BY <1>5 DEF FinishBatch, Stop, Start, Deliverers
  <2>2. Claimable(r)' => Claimable(r)
    BY <1>5 DEF FinishBatch, Stop, Start, Claimable
  <2>3. enq'[r] = enq[r] /\ sweeps'[r] = sweeps[r]  BY <1>5 DEF FinishBatch, Stop, Start
  <2> QED BY <2>1, <2>2, <2>3, BudgetQuiet
<1>6. ASSUME NEW p \in Pollers, EnqueueOK(p) \/ EnqueueError(p) PROVE BudgetOf(r)'
  <2>0. cur[p] = NoRow /\ phase[p] = "loop" /\ sweeps'[r] = sweeps[r]
    BY <1>6 DEF EnqueueOK, EnqueueError, CurInv
  <2>1. Claimable(r)' => Claimable(r)  BY <1>6 DEF EnqueueOK, EnqueueError, Claimable
  <2>2. PICK w \in batch[p] :
            /\ cur' = [cur EXCEPT ![p] = w]
            /\ enq' = enq \/ enq' = [enq EXCEPT ![w] = @ + 1]
    BY <1>6 DEF EnqueueOK, EnqueueError
  <2>3. batch' = batch /\ phase'[p] # "claiming"
        /\ \A q \in Pollers \ {p} : phase'[q] = phase[q]
    BY <1>6 DEF EnqueueOK, EnqueueError
  <2>4. CASE w = r
    <3>1. p \in Deliverers(r)  BY <1>n, <2>0, <2>2, <2>4 DEF Deliverers
    <3>2. Deliverers(r)' \subseteq Deliverers(r) \ {p}
      BY <2>2, <2>3, <2>4 DEF Deliverers
    <3>3. enq'[r] = enq[r] \/ enq'[r] = enq[r] + 1  BY <2>2, <2>4
    <3> QED BY <2>0, <2>1, <3>1, <3>2, <3>3, BudgetPass
  <2>5. CASE w # r
    <3>1. Deliverers(r)' \subseteq Deliverers(r)
      BY <1>n, <2>0, <2>2, <2>3, <2>5 DEF Deliverers
    <3>2. enq'[r] = enq[r]  BY <2>2, <2>5
    <3> QED BY <2>0, <2>1, <3>1, <3>2, BudgetQuiet
  <2> QED BY <2>4, <2>5
<1>7. ASSUME NEW p \in Pollers,
             Delete(p) \/ DeleteError(p) \/ Release(p) \/ ReleaseError(p)
      PROVE  BudgetOf(r)'
  <2>1. /\ phase[p] \in {"deleting", "releasing"} /\ NextRow(p)
        /\ enq'[r] = enq[r] /\ sweeps'[r] = sweeps[r]
    BY <1>7 DEF Delete, DeleteError, Release, ReleaseError
  <2>2. Deliverers(r)' \subseteq Deliverers(r)  BY <2>1 DEF NextRow, Deliverers
  <2>3. txn'[r] = txn[r] \/ txn'[r] = "deleted"
    BY <1>7 DEF Delete, DeleteError, DeleteEffect, Release, ReleaseError
  <2>4. claimed[r] => claimed'[r]
    BY <1>7 DEF Delete, DeleteError, Release, ReleaseError, ReleaseEffect
  <2>5. Claimable(r)' => Claimable(r)
    BY <2>1, <2>3, <2>4 DEF NextRow, Claimable
  <2> QED BY <2>1, <2>2, <2>5, BudgetQuiet
<1>8. ASSUME NEW p \in Pollers, Crash(p) PROVE BudgetOf(r)'
  <2>0. enq'[r] = enq[r] /\ sweeps'[r] = sweeps[r]  BY <1>8 DEF Crash
  <2>1. CASE phase[p] = "claiming" /\ r \in batch[p]
    <3>1. p \in Deliverers(r)  BY <2>1 DEF Deliverers
    <3>2. Deliverers(r)' \subseteq Deliverers(r) \ {p}  BY <1>8 DEF Crash, Deliverers
    <3> QED BY <2>0, <3>1, <3>2, BudgetPass
  <2>2. CASE ~(phase[p] = "claiming" /\ r \in batch[p])
    <3>1. Deliverers(r)' \subseteq Deliverers(r)  BY <1>8 DEF Crash, Deliverers
    <3>2. Claimable(r)' => Claimable(r)  BY <1>8, <2>2 DEF Crash, Claimable
    <3> QED BY <2>0, <3>1, <3>2, BudgetQuiet
  <2> QED BY <2>1, <2>2
<1>9. ASSUME Sweep PROVE BudgetOf(r)'
  <2>1. Deliverers(r)' \subseteq Deliverers(r) /\ enq'[r] = enq[r]
    BY <1>9 DEF Sweep, Deliverers
  <2>2. CASE Expired(r)
    <3>1. sweeps'[r] = sweeps[r] + 1  BY <1>9, <2>2 DEF Sweep
    <3> QED BY <2>1, <3>1, BudgetGrant
  <2>3. CASE ~ Expired(r)
    <3>1. sweeps'[r] = sweeps[r]  BY <1>9, <2>3 DEF Sweep
    <3>2. Claimable(r)' => Claimable(r)  BY <1>9, <2>3 DEF Sweep, Claimable
    <3> QED BY <2>1, <3>1, <3>2, BudgetQuiet
  <2> QED BY <2>2, <2>3
<1>10. ASSUME Tick \/ UNCHANGED vars PROVE BudgetOf(r)'
  <2>1. Deliverers(r)' \subseteq Deliverers(r)  BY <1>10 DEF Tick, vars, Deliverers
  <2>2. Claimable(r)' => Claimable(r)  BY <1>10 DEF Tick, vars, Claimable
  <2>3. enq'[r] = enq[r] /\ sweeps'[r] = sweeps[r]  BY <1>10 DEF Tick, vars
  <2> QED BY <2>1, <2>2, <2>3, BudgetQuiet
<1> QED
  BY <1>1, <1>2, <1>3, <1>4, <1>5, <1>6, <1>7, <1>8, <1>9, <1>10 DEF Next, PollerStep

\* A row starts claimable, undelivered, with nobody working on it.
LEMMA BudgetInit == ASSUME Init PROVE CurInv /\ \A r \in Rows : BudgetOf(r)
<1>1. CurInv  BY DEF Init, CurInv
<1>2. ASSUME NEW r \in Rows PROVE BudgetOf(r)
  <2>1. Deliverers(r) = {}  BY DEF Init, Deliverers
  <2>2. Cardinality(Deliverers(r)) = 0  BY <2>1, FS_EmptySet
  <2>3. enq[r] = 0 /\ sweeps[r] = 0  BY DEF Init
  <2>4. ClaimUnit(r) \in {0, 1}  BY DEF ClaimUnit
  <2> QED BY <2>2, <2>3, <2>4 DEF BudgetOf
<1> QED BY <1>1, <1>2

\* However many pollers crash, stall or outlive their leases, a row is handed to
\* Redis at most once more than SweepOnce has recovered it.
THEOREM DuplicatesAreBounded == Spec => []DeliveryBudget
<1> DEFINE BudgetInv == CurInv /\ \A r \in Rows : BudgetOf(r)
<1>1. Init => BudgetInv  BY BudgetInit
<1>2. ASSUME TypeOK, SafetyInv, BudgetInv, [Next]_vars PROVE BudgetInv'
  <2>1. CurInv'  BY <1>2, CurStep
  <2>2. ASSUME NEW r \in Rows PROVE BudgetOf(r)'  BY <1>2, BudgetStep
  <2> QED BY <2>1, <2>2
<1>3. BudgetInv => DeliveryBudget
  BY DEF BudgetOf, ClaimUnit, DeliveryBudget
<1> QED BY <1>1, <1>2, <1>3, TypeCorrect, SafetyCorrect, PTL DEF Spec

-----------------------------------------------------------------------------
(* The outbox implements AtLeastOnce: commits, enqueues and deletes are    *)
(* its steps, everything else leaves a row's status and deliveries alone.  *)

\* An empty outbox is an empty channel.
LEMMA ContractInit == Init => Contract!Init
BY DEF Init, Contract!Init, Status

\* Every step is a commit, a delivery, a removal or invisible to the callers.
LEMMA ContractStep ==
    ASSUME TypeOK, SafetyInv, [Next]_vars PROVE [Contract!Next]_(Contract!vars)
<1> USE DEF TypeOK, rowVars, pollerVars, Contract!vars
<1>1. ASSUME NEW r \in Rows, Write(r) PROVE UNCHANGED Contract!vars
  BY <1>1 DEF Write, Status
<1>2. ASSUME NEW r \in Rows, EndTx(r) PROVE Contract!Commit(r) \/ UNCHANGED Contract!vars
  BY <1>2 DEF EndTx, Status, Contract!Commit
<1>3. ASSUME NEW p \in Pollers, EnqueueOK(p) \/ EnqueueError(p)
      PROVE  (\E r \in Rows : Contract!Deliver(r)) \/ UNCHANGED Contract!vars
  BY <1>3 DEF EnqueueOK, EnqueueError, SafetyInv, ClaimDiscipline, BatchCommitted, Status,
              Contract!Deliver
<1>4. ASSUME NEW p \in Pollers, Delete(p) \/ DeleteError(p)
      PROVE  (\E r \in Rows : Contract!Remove(r)) \/ UNCHANGED Contract!vars
  <2>1. cur[p] \in Rows /\ enq[cur[p]] > 0 /\ txn[cur[p]] \in {"live", "deleted"}
    BY <1>4 DEF Delete, DeleteError, SafetyInv, ClaimDiscipline, BatchCommitted, WorksOnBatch,
                DeletesDelivered
  <2>2. UNCHANGED enq  BY <1>4 DEF Delete, DeleteError
  <2>3. CASE UNCHANGED txn  BY <2>2, <2>3
  <2>4. CASE txn' = [txn EXCEPT ![cur[p]] = "deleted"]
    <3>1. CASE txn[cur[p]] = "deleted"  BY <2>1, <2>2, <2>4, <3>1
    <3>2. CASE txn[cur[p]] = "live"
      <4>1. Contract!Remove(cur[p])  BY <2>1, <2>2, <2>4, <3>2 DEF Status, Contract!Remove
      <4> QED BY <2>1, <4>1
    <3> QED BY <2>1, <3>1, <3>2
  <2> QED BY <1>4, <2>3, <2>4 DEF Delete, DeleteError, DeleteEffect
<1>5. ASSUME UNCHANGED <<txn, enq>> PROVE UNCHANGED Contract!vars
  BY <1>5
<1> QED
  BY <1>1, <1>2, <1>3, <1>4, <1>5
  DEF Next, PollerStep, vars, ClaimQuery, ClaimCommit, ClaimFail, FinishBatch, Release,
      ReleaseError, Stop, Crash, Start, Sweep, Tick, Contract!Next

\* The outbox with its pollers, claims, errors and sweeps is an at-least-once
\* channel for exactly the rows whose transaction committed.
THEOREM OutboxImplementsContract == Spec => ImplementsContract
BY TypeCorrect, SafetyCorrect, ContractInit, ContractStep, PTL
DEF Spec, ImplementsContract, Contract!Spec
=============================================================================
