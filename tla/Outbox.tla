------------------------------- MODULE Outbox -------------------------------
(***************************************************************************)
(* The transactional outbox of packages/go/jobs/outbox: handlers insert a  *)
(* row inside their own transaction (store.go), any number of pollers      *)
(* claim rows under FOR UPDATE SKIP LOCKED, enqueue them to Redis and      *)
(* delete them (poller.go), and a recovery sweep clears claims whose lease *)
(* has elapsed (recover.go).                                               *)
(*                                                                         *)
(* Rows are named by their created_at rank, so the number of a row is its  *)
(* place in ORDER BY created_at; commits still happen in any order.        *)
(* Payloads, queue names and task names are opaque and left out.           *)
(*                                                                         *)
(* Time is relative: age[r] is now - claimed_at of row r (negative while a *)
(* backoff stamp lies in the future).  The code only ever compares         *)
(* claimed_at with now - lease, so ages beyond the lease are not told      *)
(* apart.  All processes read one clock.                                   *)
(*                                                                         *)
(* A database or Redis call that returns an error may or may not have had  *)
(* its effect; both outcomes are modelled.  Everything that goes wrong (an *)
(* error, a crash, a cancelled context, a poller that outlives its lease)  *)
(* spends one unit of MaxMishaps.                                          *)
(***************************************************************************)
EXTENDS Integers, FiniteSets

CONSTANTS
    Rows,        \* row ids, in created_at order
    Pollers,     \* poller processes (WorkerID)
    BatchSize,   \* Poller.BatchSize
    Lease,       \* ClaimLeaseSec, in clock ticks
    BackoffMin,  \* Poller.BackoffMin, in clock ticks
    BackoffMax,  \* Poller.BackoffMax, in clock ticks
    MaxMishaps   \* bound: how many failures a behaviour contains

ASSUME RowsAssumption == Rows \subseteq Nat /\ IsFiniteSet(Rows)
ASSUME PollersAssumption == "nobody" \notin Pollers /\ IsFiniteSet(Pollers)
ASSUME KnobsAssumption ==
    /\ BatchSize \in Nat \ {0} /\ Lease \in Nat \ {0}
    /\ BackoffMin \in Nat \ {0} /\ BackoffMax \in Nat \ {0}
    /\ MaxMishaps \in Nat

VARIABLES
    txn,       \* txn[r]: life of row r, see TxnState
    claimed,   \* claimed[r]: claimed_at IS NOT NULL
    claimedBy, \* claimedBy[r]: column claimed_by, or NoPoller
    age,       \* age[r]: now - claimed_at, meaningful while claimed[r]
    attempts,  \* attempts[r]: column attempts
    phase,     \* phase[p]: where poller p is in Run / RunOnce
    batch,     \* batch[p]: the claimed rows p still has in memory
    cur,       \* cur[p]: the row p is enqueuing, deleting or releasing
    taken,     \* taken[p]: age of the time stamp of p's open claim tx
    mishaps,   \* how many mishaps happened so far
    enq,       \* enq[r]: how often Redis received row r
    sweeps     \* sweeps[r]: how often the recoverer released row r

rowVars == <<txn, claimed, claimedBy, age, attempts>>
pollerVars == <<phase, batch, cur, taken>>
vars == <<rowVars, pollerVars, mishaps, enq, sweeps>>

NoPoller == "nobody"
NoRow == -1
TxnState == {"none", "open", "live", "rolledback", "deleted"}
Phase == {"idle", "claiming", "loop", "deleting", "releasing", "stopped", "down"}

\* Inverted knobs use BackoffMin for both.
MaxBackoff == IF BackoffMin > BackoffMax THEN BackoffMin ELSE BackoffMax

\* Every column and every program variable has its type; a claim stamp lies at
\* most MaxBackoff in the future, whatever the number of failures.
TypeOK ==
    /\ txn \in [Rows -> TxnState]
    /\ claimed \in [Rows -> BOOLEAN]
    /\ claimedBy \in [Rows -> Pollers \cup {NoPoller}]
    /\ age \in [Rows -> (-MaxBackoff) .. (Lease + 1)]
    /\ attempts \in [Rows -> Nat]
    /\ phase \in [Pollers -> Phase]
    /\ batch \in [Pollers -> SUBSET Rows]
    /\ cur \in [Pollers -> Rows \cup {NoRow}]
    /\ taken \in [Pollers -> 0 .. (Lease + 1)]
    /\ mishaps \in 0 .. MaxMishaps
    /\ enq \in [Rows -> Nat]
    /\ sweeps \in [Rows -> Nat]

Init ==
    /\ txn = [r \in Rows |-> "none"]
    /\ claimed = [r \in Rows |-> FALSE]
    /\ claimedBy = [r \in Rows |-> NoPoller]
    /\ age = [r \in Rows |-> 0]
    /\ attempts = [r \in Rows |-> 0]
    /\ phase = [p \in Pollers |-> "idle"]
    /\ batch = [p \in Pollers |-> {}]
    /\ cur = [p \in Pollers |-> NoRow]
    /\ taken = [p \in Pollers |-> 0]
    /\ mishaps = 0
    /\ enq = [r \in Rows |-> 0]
    /\ sweeps = [r \in Rows |-> 0]

\* Something went wrong; the budget bounds how often.
Mishap == mishaps < MaxMishaps /\ mishaps' = mishaps + 1
NoMishap == UNCHANGED mishaps

-----------------------------------------------------------------------------
(* The producing handler's transaction: Store.Write, then COMMIT/ROLLBACK. *)

Write(r) ==
    /\ txn[r] = "none"
    /\ txn' = [txn EXCEPT ![r] = "open"]
    /\ UNCHANGED <<claimed, claimedBy, age, attempts, pollerVars, mishaps, enq, sweeps>>

EndTx(r) ==
    /\ txn[r] = "open"
    /\ \E outcome \in {"live", "rolledback"} : txn' = [txn EXCEPT ![r] = outcome]
    /\ UNCHANGED <<claimed, claimedBy, age, attempts, pollerVars, mishaps, enq, sweeps>>

-----------------------------------------------------------------------------
(* Poller.claim: one transaction that locks, stamps and commits.           *)

LockedByOther(p, r) == \E q \in Pollers \ {p} : phase[q] = "claiming" /\ r \in batch[q]

\* Rows the SELECT sees: committed, claimed_at IS NULL, not skipped as locked.
EligibleIgnoringLocks(p) == {r \in Rows : txn[r] = "live" /\ ~claimed[r]}
EligibleIgnoringClaims(p) == {r \in Rows : txn[r] = "live" /\ ~LockedByOther(p, r)}
EligibleDirtyRead(p) ==
    {r \in Rows : txn[r] \in {"open", "live"} /\ ~claimed[r] /\ ~LockedByOther(p, r)}
Eligible(p) ==
    {r \in Rows : txn[r] = "live" /\ ~claimed[r] /\ ~LockedByOther(p, r)}

\* ORDER BY created_at LIMIT BatchSize.
Oldest(S) == {r \in S : Cardinality({q \in S : q < r}) < BatchSize}

\* now is read before the query, so the stamp ages while the tx is open.  A
\* cycle that finds no row changes nothing.
ClaimQuery(p) ==
    /\ phase[p] = "idle"
    /\ Eligible(p) # {}
    /\ batch' = [batch EXCEPT ![p] = Oldest(Eligible(p))]
    /\ taken' = [taken EXCEPT ![p] = 0]
    /\ phase' = [phase EXCEPT ![p] = "claiming"]
    /\ UNCHANGED <<rowVars, cur, mishaps, enq, sweeps>>

\* The rows of p's open claim transaction become claimed by p.
StampClaim(p) ==
    /\ claimed' = [r \in Rows |-> claimed[r] \/ r \in batch[p]]
    /\ claimedBy' = [r \in Rows |-> IF r \in batch[p] THEN p ELSE claimedBy[r]]
    /\ age' = [r \in Rows |-> IF r \in batch[p] THEN taken[p] ELSE age[r]]

ClaimCommit(p) ==
    /\ phase[p] = "claiming"
    /\ StampClaim(p)
    /\ phase' = [phase EXCEPT ![p] = "loop"]
    /\ NoMishap
    /\ UNCHANGED <<txn, attempts, batch, cur, taken, enq, sweeps>>

\* A failed claim transaction rolls back, or commits with its answer lost.
ClaimFail(p) ==
    /\ phase[p] = "claiming"
    /\ Mishap
    /\ \/ UNCHANGED <<claimed, claimedBy, age>>
       \/ StampClaim(p)
    /\ phase' = [phase EXCEPT ![p] = "idle"]
    /\ batch' = [batch EXCEPT ![p] = {}]
    /\ UNCHANGED <<txn, attempts, cur, taken, enq, sweeps>>

-----------------------------------------------------------------------------
(* Poller.RunOnce: the loop over the claimed rows.                         *)

FinishBatch(p) ==
    /\ phase[p] = "loop" /\ batch[p] = {}
    /\ phase' = [phase EXCEPT ![p] = "idle"]
    /\ UNCHANGED <<rowVars, batch, cur, taken, mishaps, enq, sweeps>>

EnqueueOK(p) ==
    /\ phase[p] = "loop"
    /\ \E r \in batch[p] :
        /\ cur' = [cur EXCEPT ![p] = r]
        /\ enq' = [enq EXCEPT ![r] = @ + 1]
    /\ phase' = [phase EXCEPT ![p] = "deleting"]
    /\ UNCHANGED <<rowVars, batch, taken, mishaps, sweeps>>

EnqueueErrorIgnored(p) ==
    /\ phase[p] = "loop"
    /\ Mishap
    /\ \E r \in batch[p] : cur' = [cur EXCEPT ![p] = r]
    /\ phase' = [phase EXCEPT ![p] = "deleting"]
    /\ UNCHANGED <<rowVars, batch, taken, enq, sweeps>>
EnqueueError(p) ==
    /\ phase[p] = "loop"
    /\ Mishap
    /\ \E r \in batch[p] :
        /\ cur' = [cur EXCEPT ![p] = r]
        /\ \/ UNCHANGED enq
           \/ enq' = [enq EXCEPT ![r] = @ + 1]
    /\ phase' = [phase EXCEPT ![p] = "releasing"]
    /\ UNCHANGED <<rowVars, batch, taken, sweeps>>

\* p is done with its current row, whatever became of it.
NextRow(p) ==
    /\ batch' = [batch EXCEPT ![p] = @ \ {cur[p]}]
    /\ cur' = [cur EXCEPT ![p] = NoRow]
    /\ phase' = [phase EXCEPT ![p] = "loop"]
    /\ UNCHANGED taken

\* DELETE FROM outbox WHERE id = $1: no look at claimed_by, and no error when
\* the row is already gone.  It waits for a claim that has the row locked.
DeleteEffect(p) ==
    /\ ~LockedByOther(p, cur[p])
    /\ txn' = [txn EXCEPT ![cur[p]] = "deleted"]

Delete(p) ==
    /\ phase[p] = "deleting"
    /\ DeleteEffect(p)
    /\ NextRow(p)
    /\ NoMishap
    /\ UNCHANGED <<claimed, claimedBy, age, attempts, enq, sweeps>>

DeleteError(p) ==
    /\ phase[p] = "deleting"
    /\ Mishap
    /\ \/ UNCHANGED txn
       \/ DeleteEffect(p)
    /\ NextRow(p)
    /\ UNCHANGED <<claimed, claimedBy, age, attempts, enq, sweeps>>

\* backoffFor: BackoffMin doubled per earlier failure; a product that passed
\* the maximum (or overflowed) is the maximum.
BackoffForNewCount(prevAttempts) == BackoffMin * 2 ^ (prevAttempts + 1)
BackoffFor(prevAttempts) ==
    LET d == BackoffMin * 2 ^ prevAttempts
    IN  IF d \in BackoffMin .. MaxBackoff THEN d ELSE MaxBackoff

\* UPDATE ... SET claimed_at = now + backoff, attempts = attempts + 1 WHERE
\* id = $1.  A row that is gone makes the read of attempts fail: no effect.
\* claimed_by keeps its value, and a row some other poller holds by now is
\* restamped all the same.  SELECT ... FOR UPDATE waits for an open claim; that
\* now is read before the wait, so a stamp can only be older than this one.
ReleaseEffect(p) ==
    LET r == cur[p] IN
    /\ ~LockedByOther(p, r)
    /\ IF txn[r] = "live"
       THEN /\ claimed' = [claimed EXCEPT ![r] = TRUE]
            /\ age' = [age EXCEPT ![r] = - BackoffFor(attempts[r])]
            /\ attempts' = [attempts EXCEPT ![r] = @ + 1]
       ELSE UNCHANGED <<claimed, age, attempts>>

Release(p) ==
    /\ phase[p] = "releasing"
    /\ ReleaseEffect(p)
    /\ NextRow(p)
    /\ NoMishap
    /\ UNCHANGED <<txn, claimedBy, enq, sweeps>>

ReleaseError(p) ==
    /\ phase[p] = "releasing"
    /\ Mishap
    /\ \/ UNCHANGED <<claimed, age, attempts>>
       \/ ReleaseEffect(p)
    /\ NextRow(p)
    /\ UNCHANGED <<txn, claimedBy, enq, sweeps>>

-----------------------------------------------------------------------------
(* Stopping, crashing and starting a poller.                               *)

\* The context is cancelled: Run returns between cycles, RunOnce between two
\* rows.  Rows still in the batch keep their claim.
Stop(p) ==
    /\ phase[p] \in {"idle", "loop"}
    /\ Mishap
    /\ phase' = [phase EXCEPT ![p] = "stopped"]
    /\ batch' = [batch EXCEPT ![p] = {}]
    /\ UNCHANGED <<rowVars, cur, taken, enq, sweeps>>

\* The process dies; Postgres rolls its open claim transaction back.
Crash(p) ==
    /\ phase[p] \notin {"stopped", "down"}
    /\ Mishap
    /\ phase' = [phase EXCEPT ![p] = "down"]
    /\ batch' = [batch EXCEPT ![p] = {}]
    /\ cur' = [cur EXCEPT ![p] = NoRow]
    /\ UNCHANGED <<rowVars, taken, enq, sweeps>>

Start(p) ==
    /\ phase[p] \in {"stopped", "down"}
    /\ phase' = [phase EXCEPT ![p] = "idle"]
    /\ UNCHANGED <<rowVars, batch, cur, taken, mishaps, enq, sweeps>>

-----------------------------------------------------------------------------
(* Recoverer.SweepOnce and the clock.                                      *)

\* claimed_at < now - lease
Expired(r) == txn[r] = "live" /\ claimed[r] /\ age[r] > Lease

SweepKeepsStamp ==
    /\ \E r \in Rows : Expired(r)
    /\ claimedBy' = [r \in Rows |-> IF Expired(r) THEN NoPoller ELSE claimedBy[r]]
    /\ UNCHANGED <<txn, claimed, age, attempts, pollerVars, mishaps, enq, sweeps>>
Sweep ==
    /\ \E r \in Rows : Expired(r)
    /\ claimed' = [r \in Rows |-> claimed[r] /\ ~Expired(r)]
    /\ claimedBy' = [r \in Rows |-> IF Expired(r) THEN NoPoller ELSE claimedBy[r]]
    /\ sweeps' = [r \in Rows |-> IF Expired(r) THEN sweeps[r] + 1 ELSE sweeps[r]]
    /\ UNCHANGED <<txn, age, attempts, pollerVars, mishaps, enq>>

\* p has rows in memory whose claim expires with the next tick.
AboutToOutlive(p) ==
    \/ phase[p] = "claiming" /\ taken[p] = Lease
    \/ \E r \in batch[p] : phase[p] # "claiming" /\ claimed[r] /\ age[r] = Lease

Older(a) == IF a > Lease THEN a ELSE a + 1

Tick ==
    /\ IF \E p \in Pollers : AboutToOutlive(p) THEN Mishap ELSE NoMishap
    /\ age' = [r \in Rows |-> IF claimed[r] THEN Older(age[r]) ELSE age[r]]
    /\ taken' = [p \in Pollers |->
                    IF phase[p] = "claiming" THEN Older(taken[p]) ELSE taken[p]]
    /\ UNCHANGED <<txn, claimed, claimedBy, attempts, phase, batch, cur, enq, sweeps>>

-----------------------------------------------------------------------------

PollerStep(p) ==
    \/ ClaimQuery(p) \/ ClaimCommit(p) \/ ClaimFail(p)
    \/ FinishBatch(p) \/ EnqueueOK(p) \/ EnqueueError(p)
    \/ Delete(p) \/ DeleteError(p) \/ Release(p) \/ ReleaseError(p)

Next ==
    \/ \E r \in Rows : Write(r) \/ EndTx(r)
    \/ \E p \in Pollers : PollerStep(p) \/ Stop(p) \/ Crash(p) \/ Start(p)
    \/ Sweep
    \/ Tick

Spec == Init /\ [][Next]_vars

\* Pollers and the recoverer are loops that never give up, the supervisor
\* restarts a stopped poller, and time passes.  Handlers owe nothing.
Fairness ==
    /\ \A p \in Pollers : WF_vars(PollerStep(p)) /\ WF_vars(Start(p))
    /\ WF_vars(Sweep)
    /\ WF_vars(Tick)

FairSpec == Spec /\ Fairness

-----------------------------------------------------------------------------
(* What the outbox promises.                                               *)

Holding(p) == phase[p] \in {"loop", "deleting", "releasing"}

\* Pollers that will hand row r to Redis unless something stops them: they
\* have it in their batch, locked or claimed, and have not enqueued it yet.
Deliverers(r) ==
    {p \in Pollers : r \in batch[p] /\ ~(phase[p] # "claiming" /\ cur[p] = r)}

\* The row may still be claimed for the first time since it was released.
Claimable(r) ==
    /\ txn[r] \in {"none", "open", "live"}
    /\ ~claimed[r]
    /\ \A p \in Pollers : ~(phase[p] = "claiming" /\ r \in batch[p])

\* At-least-once: RunOnce deletes a row only after Redis acknowledged it, so no
\* interleaving of stale pollers, errors and sweeps drops an undelivered row.
NoLoss == \A r \in Rows : txn[r] = "deleted" => enq[r] > 0

\* A rolled back or uncommitted handler transaction never reaches Redis.
NoPhantom == \A r \in Rows : enq[r] > 0 => txn[r] \in {"live", "deleted"}

\* Duplicates are bounded by recoveries: SKIP LOCKED and the claim stamp let at
\* most one poller at a time work towards a delivery, and each expired lease
\* that SweepOnce clears grants one delivery more.  Stale deletes and stale
\* releases by a poller that outlived its lease never grant another.
DeliveryBudget ==
    \A r \in Rows :
        enq[r] + Cardinality(Deliverers(r)) + (IF Claimable(r) THEN 1 ELSE 0)
            <= 1 + sweeps[r]

\* Why a delete is safe, however stale the poller: what RunOnce deletes it has
\* enqueued, what it works on was committed, the rows of an open claim tx are
\* locked for it alone and unclaimed, and claimed_by is only set on claimed rows.
BatchCommitted == \A p \in Pollers : \A r \in batch[p] : txn[r] \in {"live", "deleted"}
WorksOnBatch == \A p \in Pollers : phase[p] \in {"deleting", "releasing"} => cur[p] \in batch[p]
DeletesDelivered == \A p \in Pollers : phase[p] = "deleting" => enq[cur[p]] > 0
LocksExclusive ==
    \A p \in Pollers : phase[p] = "claiming" => \A r \in batch[p] :
        /\ txn[r] = "live" /\ ~claimed[r]
        /\ ~LockedByOther(p, r)
OwnerHasClaim == \A r \in Rows : claimedBy[r] # NoPoller => claimed[r]
ClaimDiscipline ==
    /\ BatchCommitted
    /\ WorksOnBatch
    /\ DeletesDelivered
    /\ LocksExclusive
    /\ OwnerHasClaim

\* A claim ends only when SweepOnce finds it older than the lease: no poller
\* takes a row from another one directly.
ClaimHandover ==
    [][\A r \in Rows :
        claimedBy[r] # NoPoller /\ claimedBy'[r] # claimedBy[r]
            => Expired(r) /\ claimedBy'[r] = NoPoller]_vars

\* Every committed row leaves the table, delivered, once failures stop: no claim
\* of a crashed, stopped or failed poller keeps it there for ever.
Drained == \A r \in Rows : txn[r] = "live" ~> txn[r] = "deleted"

-----------------------------------------------------------------------------
(* The contract the outbox implements: a row is pending from the commit of *)
(* the handler's transaction until it is deleted.                          *)

Status(state) ==
    CASE state = "live" -> "pending"
      [] state = "deleted" -> "removed"
      [] OTHER -> "absent"

Contract == INSTANCE AtLeastOnce
    WITH status <- [r \in Rows |-> Status(txn[r])], delivered <- enq

\* The outbox implements at-least-once delivery of exactly the committed rows.
ImplementsContract == Contract!Spec
=============================================================================
