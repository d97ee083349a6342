------------------------- MODULE IdempotencyProofs -------------------------
(***************************************************************************)
(* Proofs about Idempotency for any number of requests, any TTL and any    *)
(* number of Redis and Postgres failures, crashes and flushes.             *)
(***************************************************************************)
EXTENDS Idempotency, TLAPS

\* The claim protocol: a Claim never reads a clock ahead of the real one, no row
\* outlives TTL from now, and while a promise of Postgres runs, its row is there
\* and lasts at least as long as the promise.
ClaimInv ==
    /\ clock \in Nat
    /\ since \in [Requests -> Int]
    /\ start \in [Requests -> Int]
    /\ honour \in [Requests -> Int]
    /\ \A r \in Requests : start[r] <= clock
    /\ pg # NoEntry => /\ pg.exp \in Int
                       /\ pg.exp <= clock + TTL
    /\ \A q \in Requests : honour[q] > clock => pg # NoEntry /\ honour[q] <= pg.exp

\* A row is not the absent row, and its fields are what it was made of.
LEMMA EntryFacts ==
    ASSUME NEW r, NEW h, NEW e
    PROVE  /\ InProgress(r, e) # NoEntry /\ InProgress(r, e).exp = e
           /\ Done(r, h, e) # NoEntry /\ Done(r, h, e).exp = e
           /\ NoEntry.status # "in_progress"
BY DEF InProgress, Done, NoEntry

\* Nothing is promised initially.
LEMMA ClaimInvInit == Init => ClaimInv
BY DEF Init, ClaimInv

\* A successful INSERT plants the only promise that is still running.
LEMMA InsertKeepsInv ==
    ASSUME ClaimInv, NEW r \in Requests, NEW now \in since[r] .. clock,
           InsertRow(r, now), UNCHANGED <<clock, since, start>>
    PROVE  ClaimInv'
<1>1. pg' # NoEntry /\ pg'.exp = now + TTL  BY EntryFacts DEF InsertRow
<1> QED BY <1>1, TTLAssumption DEF ClaimInv, InsertRow

\* A successful UPDATE extends the promise along with the row.
LEMMA FinishKeepsInv ==
    ASSUME ClaimInv, NEW r \in Requests, FinishRow(r), UNCHANGED <<clock, since, start>>
    PROVE  ClaimInv'
<1>1. CASE pg.status = "in_progress"
  <2>1. pg # NoEntry  BY <1>1, EntryFacts
  <2>2. pg' # NoEntry /\ pg'.exp = clock + TTL  BY <1>1, EntryFacts DEF FinishRow
  <2> QED BY <1>1, <2>1, <2>2, TTLAssumption DEF ClaimInv, FinishRow
<1>2. CASE pg.status # "in_progress"
  BY <1>2 DEF ClaimInv, FinishRow
<1> QED BY <1>1, <1>2

\* No step shortens the life of a row below what was promised.
LEMMA ClaimInvStep == ASSUME ClaimInv, [Next]_vars PROVE ClaimInv'
<1> USE TTLAssumption DEF reqVars
<1>1. ASSUME NEW r \in Requests, RedisClaim(r) \/ RedisClaimError(r) PROVE ClaimInv'
  BY <1>1 DEF ClaimInv, RedisClaim, RedisClaimError
<1>2. ASSUME NEW r \in Requests, PgInsert(r) \/ PgClaimError(r) PROVE ClaimInv'
  <2>1. ASSUME NEW now \in since[r] .. clock, InsertRow(r, now), UNCHANGED <<clock, since, start>>
        PROVE  ClaimInv'
    BY <2>1, InsertKeepsInv
  <2>2. CASE UNCHANGED <<pg, honour>>
    BY <1>2, <2>2 DEF ClaimInv, PgInsert, PgClaimError
  <2> QED BY <1>2, <2>1, <2>2 DEF PgInsert, PgClaimError
<1>3. ASSUME NEW r \in Requests, PgFinish(r) \/ PgFinishError(r) PROVE ClaimInv'
  <2>1. CASE FinishRow(r)
    BY <1>3, <2>1, FinishKeepsInv DEF PgFinish, PgFinishError
  <2>2. CASE UNCHANGED <<pg, honour>>
    BY <1>3, <2>2 DEF ClaimInv, PgFinish, PgFinishError
  <2> QED BY <1>3, <2>1, <2>2 DEF PgFinish, PgFinishError
<1>4. ASSUME UNCHANGED <<clock, since, start, pg, honour>> PROVE ClaimInv'
  BY <1>4 DEF ClaimInv
<1>5. ASSUME Tick PROVE ClaimInv'
  BY <1>5 DEF ClaimInv, Tick
<1>6. ASSUME Prune PROVE ClaimInv'
  BY <1>6 DEF ClaimInv, Prune
<1>7. ASSUME NEW r \in Requests, PgSelect(r) PROVE ClaimInv'
  BY <1>7 DEF ClaimInv, PgSelect
<1> QED
  BY <1>1, <1>2, <1>3, <1>4, <1>5, <1>6, <1>7
  DEF Next, Step, vars, Handle, RedisFinish, RedisFinishError, Crash, RedisFlush

\* A running promise is backed by the row of the key, for any number of
\* requests and faults.
THEOREM ClaimInvariant == Spec => []ClaimInv
BY ClaimInvInit, ClaimInvStep, PTL DEF Spec

\* Control stays within the phases of Middleware.Wrap.
PhaseOK == phase \in [Requests -> Phase]

\* Every step stays within the phases.
LEMMA PhaseStep == ASSUME PhaseOK, [Next]_vars PROVE PhaseOK'
BY DEF PhaseOK, Phase, Next, Step, vars, reqVars, RedisClaim, RedisClaimError, PgInsert, PgSelect, PgClaimError,
        Handle, PgFinish, PgFinishError, RedisFinish, RedisFinishError, Crash, Tick, Prune,
        RedisFlush, GoTo, Reply, Replay, Existing

\* Control never leaves the phases of the middleware.
LEMMA PhaseCorrect == Spec => []PhaseOK
<1>1. Init => PhaseOK  BY DEF Init, PhaseOK, Phase
<1> QED BY <1>1, PhaseStep, PTL DEF Spec

\* Once Postgres accepted a claim or a result, no other request reaches the
\* handler before that promise has run out, whatever fails.
THEOREM PlantedClaimIsHonoured == Spec => PlantedClaimHonoured
<1> DEFINE Kept == \A r, q \in Requests : Admitted(r) /\ q # r => honour[q] <= clock
<1>1. ASSUME ClaimInv, PhaseOK, [Next]_vars PROVE [Kept]_vars
  <2> SUFFICES ASSUME NEW r \in Requests, NEW q \in Requests, Admitted(r), honour[q] > clock
               PROVE  FALSE
    BY <1>1 DEF ClaimInv
  <2>1. pg # NoEntry /\ ~RowGone(r)  BY <1>1 DEF RowGone, ClaimInv
  <2>2. ASSUME NEW s \in Requests, Step(s) PROVE s = r /\ (PgInsert(r) \/ PgSelect(r))
    BY <1>1, <2>2
    DEF PhaseOK, Admitted, Step, RedisClaim, RedisClaimError, PgInsert, PgSelect, PgClaimError,
        Handle, PgFinish, PgFinishError, RedisFinish, RedisFinishError, Crash,
        GoTo, Reply, Replay, Existing
  <2>3. \E s \in Requests : Step(s)
    BY <1>1 DEF Admitted, Next, vars, reqVars, Tick, Prune, RedisFlush
  <2>4. phase' = [phase EXCEPT ![r] = "select"] \/ phase' = [phase EXCEPT ![r] = "over"]
    BY <2>1, <2>2, <2>3 DEF PgInsert, PgSelect, InsertRow, GoTo, Existing, Reply, Replay
  <2> QED BY <1>1, <2>4 DEF PhaseOK, Admitted
<1> QED BY <1>1, ClaimInvariant, PhaseCorrect, PTL DEF Spec, PlantedClaimHonoured

\* A stored response is never replaced; it leaves Postgres only by expiring.
THEOREM StoredResultIsFinal == Spec => StoredResultFinal
<1> DEFINE Final == pg.status = "done" => pg' = pg \/ (pg' = NoEntry /\ pg.exp < clock)
<1>1. ASSUME [Next]_vars PROVE [Final]_vars
  <2>1. NoEntry.status # "done"  BY DEF NoEntry
  <2> QED
    BY <1>1, <2>1
    DEF Next, Step, vars, RedisClaim, RedisClaimError, PgInsert, InsertRow, PgSelect,
        PgClaimError, Handle, PgFinish, FinishRow, PgFinishError, RedisFinish,
        RedisFinishError, Crash, Tick, Prune, RedisFlush
<1> QED BY <1>1, PTL DEF Spec, StoredResultFinal

-----------------------------------------------------------------------------
(* Types.                                                                  *)

\* An answer from an existing entry is well-typed.
LEMMA ExistingType ==
    ASSUME TypeOK, NEW r \in Requests, NEW e \in Entry, Existing(r, e)
    PROVE  /\ phase' \in [Requests -> Phase]
           /\ answer' \in [Requests -> Answer]
           /\ from' \in [Requests -> Requests \cup {NoOne}]
<1>1. e.result \in Requests  BY DEF Entry
<1> QED BY <1>1 DEF TypeOK, Existing, Reply, Replay, Phase, Answer

\* Initial states are well-typed.
LEMMA TypeInit == Init => TypeOK
<1> SUFFICES ASSUME Init PROVE TypeOK
  OBVIOUS
<1>1. late \in BOOLEAN /\ rowless \in BOOLEAN  BY Zenon DEF Init
<1>2. clock \in 0 .. MaxTime /\ redisFaults \in 0 .. MaxRedisFaults
      /\ hardFaults \in 0 .. MaxHardFaults
  BY TTLAssumption, FaultsAssumption DEF Init
<1>3. /\ redis = NoEntry /\ pg = NoEntry
      /\ hash \in [Requests -> Hashes] /\ phase \in [Requests -> Phase]
      /\ since \in [Requests -> 0 .. MaxTime] /\ start \in [Requests -> 0 .. MaxTime]
      /\ answer \in [Requests -> Answer] /\ from \in [Requests -> Requests \cup {NoOne}]
      /\ honour \in [Requests -> Int]
  BY TTLAssumption DEF Init, Phase, Answer
<1> QED BY <1>1, <1>2, <1>3 DEF TypeOK

\* A successful INSERT leaves a row that lasts at most TTL from now.
LEMMA InsertType ==
    ASSUME TypeOK, NEW r \in Requests, NEW now \in since[r] .. clock, InsertRow(r, now)
    PROVE  /\ pg' \in Entry \cup {NoEntry} /\ honour' \in [Requests -> Int]
           /\ pg'.exp <= clock + TTL
<1>1. now \in Int /\ now <= clock /\ clock \in Int  BY DEF TypeOK
<1>2. now + TTL \in Int  BY <1>1, TTLAssumption
<1>3. pg' \in Entry
  <2>1. hash[r] \in Hashes  BY DEF TypeOK
  <2> QED BY <1>2, <2>1 DEF InsertRow, InProgress, Entry
<1>4. pg'.exp = now + TTL  BY EntryFacts DEF InsertRow
<1>5. honour' \in [Requests -> Int]  BY <1>2 DEF InsertRow, TypeOK
<1> QED BY <1>1, <1>3, <1>4, <1>5, TTLAssumption

\* So does a successful UPDATE.
LEMMA FinishType ==
    ASSUME TypeOK, NEW r \in Requests, FinishRow(r)
    PROVE  /\ pg' \in Entry \cup {NoEntry} /\ honour' \in [Requests -> Int]
           /\ pg' # NoEntry => pg'.exp <= clock + TTL
<1>1. clock + TTL \in Int  BY TTLAssumption DEF TypeOK
<1>2. CASE pg.status = "in_progress"
  <2>1. pg \in Entry  BY <1>1, <1>2, EntryFacts DEF TypeOK
  <2>2. pg.hash \in Hashes  BY <2>1 DEF Entry
  <2>3. pg' \in Entry  BY <1>1, <1>2, <2>2 DEF FinishRow, Done, Entry
  <2>4. pg'.exp = clock + TTL  BY <1>2, EntryFacts DEF FinishRow
  <2>5. honour' \in [Requests -> Int]  BY <1>1, <1>2 DEF FinishRow, TypeOK
  <2> QED BY <1>1, <2>3, <2>4, <2>5
<1>3. CASE pg.status # "in_progress"
  BY <1>3 DEF FinishRow, TypeOK
<1> QED BY <1>2, <1>3

\* What Redis holds after a claim or a Finish is an entry that lives TTL.
LEMMA RedisWriteType ==
    ASSUME TypeOK, NEW r \in Requests,
           redis' = InProgress(r, clock + TTL) \/ redis' = Done(r, hash[r], clock + TTL)
    PROVE  /\ redis' \in Entry \cup {NoEntry}
           /\ redis' # NoEntry => redis'.exp \in (clock + 1) .. (clock + TTL)
<1>1. clock + TTL \in Int /\ hash[r] \in Hashes  BY TTLAssumption DEF TypeOK
<1>2. redis' \in Entry  BY <1>1 DEF InProgress, Done, Entry
<1>3. redis'.exp = clock + TTL  BY EntryFacts
<1> QED BY <1>1, <1>2, <1>3, TTLAssumption DEF TypeOK

\* Every step keeps the types, action by action.
LEMMA TypeStep == ASSUME TypeOK, [Next]_vars PROVE TypeOK'
<1> USE TTLAssumption, FaultsAssumption DEF reqVars, faultVars
<1>1. ASSUME NEW r \in Requests, RedisClaim(r) PROVE TypeOK'
  <2>1. CASE redis = NoEntry /\ redis' = InProgress(r, clock + TTL) /\ GoTo(r, "insert")
    BY <1>1, <2>1, RedisWriteType DEF TypeOK, RedisClaim, GoTo, Phase
  <2>2. CASE redis # NoEntry /\ UNCHANGED redis /\ Existing(r, redis)
    <3>1. redis \in Entry  BY <2>2 DEF TypeOK
    <3> QED BY <1>1, <2>2, <3>1, ExistingType DEF TypeOK, RedisClaim
  <2> QED BY <1>1, <2>1, <2>2 DEF RedisClaim
<1>2. ASSUME NEW r \in Requests, RedisClaimError(r) PROVE TypeOK'
  <2>1. /\ redis' \in Entry \cup {NoEntry}
        /\ redis' # NoEntry => redis'.exp \in (clock + 1) .. (clock + TTL)
    BY <1>2, RedisWriteType DEF TypeOK, RedisClaimError
  <2> QED BY <1>2, <2>1 DEF TypeOK, RedisClaimError, RedisFault, GoTo, Phase
<1>3. ASSUME NEW r \in Requests, PgInsert(r) PROVE TypeOK'
  <2>1. PICK now \in since[r] .. clock :
            \/ InsertRow(r, now) /\ UNCHANGED start /\ GoTo(r, "run")
            \/ /\ pg # NoEntry /\ UNCHANGED <<pg, honour>>
               /\ start' = [start EXCEPT ![r] = now]
               /\ GoTo(r, "select")
    BY <1>3 DEF PgInsert
  <2>2. CASE InsertRow(r, now) /\ UNCHANGED start /\ GoTo(r, "run")
    BY <1>3, <2>2, InsertType DEF TypeOK, PgInsert, GoTo, Phase
  <2>3. CASE /\ pg # NoEntry /\ UNCHANGED <<pg, honour>>
             /\ start' = [start EXCEPT ![r] = now] /\ GoTo(r, "select")
    <3>1. now \in 0 .. MaxTime  BY DEF TypeOK
    <3> QED BY <1>3, <2>3, <3>1 DEF TypeOK, PgInsert, GoTo, Phase
  <2> QED BY <2>1, <2>2, <2>3
<1>4. ASSUME NEW r \in Requests, PgSelect(r) PROVE TypeOK'
  <2>1. CASE RowGone(r) /\ GoTo(r, "run") /\ rowless' = TRUE
    BY <1>4, <2>1 DEF TypeOK, PgSelect, GoTo, Phase
  <2>2. CASE ~RowGone(r) /\ Existing(r, pg) /\ UNCHANGED rowless
    <3>1. pg \in Entry  BY <2>2 DEF TypeOK, RowGone
    <3> QED BY <1>4, <2>2, <3>1, ExistingType DEF TypeOK, PgSelect
  <2> QED BY <1>4, <2>1, <2>2 DEF PgSelect
<1>5. ASSUME NEW r \in Requests, PgClaimError(r) PROVE TypeOK'
  <2>1. /\ pg' \in Entry \cup {NoEntry} /\ honour' \in [Requests -> Int]
        /\ pg' # NoEntry => pg'.exp <= clock + TTL
    <3>1. CASE UNCHANGED <<pg, honour>>  BY <3>1 DEF TypeOK
    <3>2. ASSUME NEW now \in since[r] .. clock, InsertRow(r, now)
          PROVE  /\ pg' \in Entry \cup {NoEntry} /\ honour' \in [Requests -> Int]
                 /\ pg' # NoEntry => pg'.exp <= clock + TTL
      BY <3>2, InsertType
    <3> QED BY <1>5, <3>1, <3>2 DEF PgClaimError
  <2>2. hardFaults' \in 0 .. MaxHardFaults /\ redisFaults' = redisFaults
    BY <1>5 DEF TypeOK, PgClaimError, HardFault
  <2> QED BY <1>5, <2>1, <2>2 DEF TypeOK, PgClaimError, Reply, Phase, Answer
<1>6. ASSUME NEW r \in Requests, Handle(r) PROVE TypeOK'
  BY <1>6 DEF TypeOK, Handle, Phase, Answer
<1>7. ASSUME NEW r \in Requests, PgFinish(r) PROVE TypeOK'
  BY <1>7, FinishType DEF TypeOK, PgFinish, GoTo, Phase
<1>8. ASSUME NEW r \in Requests, PgFinishError(r) PROVE TypeOK'
  <2>1. /\ pg' \in Entry \cup {NoEntry} /\ honour' \in [Requests -> Int]
        /\ pg' # NoEntry => pg'.exp <= clock + TTL
    BY <1>8, FinishType DEF TypeOK, PgFinishError
  <2>2. hardFaults' \in 0 .. MaxHardFaults /\ redisFaults' = redisFaults
    BY <1>8 DEF TypeOK, PgFinishError, HardFault
  <2> QED BY <1>8, <2>1, <2>2 DEF TypeOK, PgFinishError, GoTo, Phase
<1>9. ASSUME NEW r \in Requests, RedisFinish(r) PROVE TypeOK'
  BY <1>9, RedisWriteType DEF TypeOK, RedisFinish, GoTo, Phase
<1>10. ASSUME NEW r \in Requests, RedisFinishError(r) PROVE TypeOK'
  <2>1. /\ redis' \in Entry \cup {NoEntry}
        /\ redis' # NoEntry => redis'.exp \in (clock + 1) .. (clock + TTL)
    BY <1>10, RedisWriteType DEF TypeOK, RedisFinishError
  <2> QED BY <1>10, <2>1 DEF TypeOK, RedisFinishError, RedisFault, GoTo, Phase
<1>11. ASSUME NEW r \in Requests, Crash(r) PROVE TypeOK'
  BY <1>11 DEF TypeOK, Crash, HardFault, GoTo, Phase
<1>12. ASSUME Tick PROVE TypeOK'
  <2>1. late' \in BOOLEAN  BY <1>12, Zenon DEF Tick
  <2>2. /\ redis' \in Entry \cup {NoEntry}
        /\ redis' # NoEntry => redis'.exp \in (clock' + 1) .. (clock' + TTL)
    <3>1. CASE redis # NoEntry /\ redis.exp <= clock + 1
      BY <1>12, <3>1 DEF Tick
    <3>2. CASE ~(redis # NoEntry /\ redis.exp <= clock + 1)
      BY <1>12, <3>2 DEF Tick, TypeOK
    <3> QED BY <3>1, <3>2
  <2>3. pg' # NoEntry => pg'.exp <= clock' + TTL
    <3>1. pg # NoEntry => pg.exp \in Int  BY DEF TypeOK, Entry
    <3> QED BY <1>12, <3>1 DEF Tick, TypeOK
  <2> QED BY <1>12, <2>1, <2>2, <2>3 DEF TypeOK, Tick
<1>13. ASSUME Prune PROVE TypeOK'
  BY <1>13 DEF TypeOK, Prune
<1>14. ASSUME RedisFlush PROVE TypeOK'
  BY <1>14 DEF TypeOK, RedisFlush, RedisFault
<1>15. CASE UNCHANGED vars
  BY <1>15 DEF TypeOK, vars
<1> QED
  BY <1>1, <1>2, <1>3, <1>4, <1>5, <1>6, <1>7, <1>8, <1>9, <1>10, <1>11, <1>12, <1>13, <1>14,
     <1>15
  DEF Next, Step

\* Entries, requests and counters keep their types, and no tier keeps an entry
\* for more than TTL from now.
THEOREM TypeCorrect == Spec => []TypeOK
BY TypeInit, TypeStep, PTL DEF Spec

-----------------------------------------------------------------------------
(* The Redis claim.  Every request that got past it, whether it reached    *)
(* the handler yet or not, has its claim covered by the Redis entry until  *)
(* TTL has passed, so the next one to get past it comes TTL later.         *)

Past(r) ==
    \/ phase[r] \in {"insert", "select", "run", "finish_pg", "finish_redis"}
    \/ answer[r] = "ran"
Covered(r) == clock < since[r] + TTL => redis # NoEntry /\ since[r] + TTL <= redis.exp
Apart(r, q) == since[q] + TTL <= since[r] \/ since[r] + TTL <= since[q]

\* Claims lie in the past, and a request has no response before its handler ran.
OrderInv ==
    /\ \A r \in Requests : since[r] <= clock
    /\ \A r \in Requests : phase[r] \in {"new", "insert", "select", "run"} => answer[r] # "ran"

\* The claims of the requests past Redis are covered and apart.
ExclusiveInv ==
    redisFaults = 0 =>
        /\ \A r \in Requests : Past(r) => Covered(r)
        /\ \A r, q \in Requests : r # q /\ Past(r) /\ Past(q) => Apart(r, q)

\* Every step keeps the order of claim and response.
LEMMA OrderStep == ASSUME TypeOK, OrderInv, [Next]_vars PROVE OrderInv'
<1> USE DEF TypeOK, OrderInv, reqVars, faultVars
<1>1. ASSUME NEW r \in Requests, RedisClaim(r) \/ RedisClaimError(r) PROVE OrderInv'
  BY <1>1 DEF RedisClaim, RedisClaimError, Existing, GoTo, Reply, Replay
<1>2. ASSUME NEW r \in Requests, PgInsert(r) \/ PgSelect(r) \/ PgClaimError(r) PROVE OrderInv'
  BY <1>2 DEF PgInsert, PgSelect, PgClaimError, Existing, GoTo, Reply, Replay
<1>3. ASSUME NEW r \in Requests, Handle(r) \/ PgFinish(r) \/ PgFinishError(r) PROVE OrderInv'
  BY <1>3 DEF Handle, PgFinish, PgFinishError, GoTo
<1>4. ASSUME NEW r \in Requests, RedisFinish(r) \/ RedisFinishError(r) \/ Crash(r) PROVE OrderInv'
  BY <1>4 DEF RedisFinish, RedisFinishError, Crash, GoTo
<1>5. ASSUME Tick \/ Prune \/ RedisFlush \/ UNCHANGED vars PROVE OrderInv'
  BY <1>5 DEF Tick, Prune, RedisFlush, vars
<1> QED BY <1>1, <1>2, <1>3, <1>4, <1>5 DEF Next, Step

\* Only a claim in Redis gets a request past Redis, and it alone dates it.
LEMMA PastStep ==
    ASSUME TypeOK, OrderInv, [Next]_vars, NEW q \in Requests,
           ~ (RedisClaim(q) \/ RedisClaimError(q))
    PROVE  since'[q] = since[q] /\ (Past(q)' => Past(q))
<1> USE DEF TypeOK, OrderInv, reqVars, faultVars, Past
<1> DEFINE Goal == since'[q] = since[q] /\ (Past(q)' => Past(q))
<1>1. ASSUME NEW r \in Requests, RedisClaim(r) \/ RedisClaimError(r) PROVE Goal
  <2>1. r # q  BY <1>1
  <2> QED BY <1>1, <2>1 DEF RedisClaim, RedisClaimError, Existing, GoTo, Reply, Replay
<1>2. ASSUME NEW r \in Requests, PgInsert(r) \/ PgSelect(r) \/ PgClaimError(r) PROVE Goal
  BY <1>2 DEF PgInsert, PgSelect, PgClaimError, Existing, GoTo, Reply, Replay
<1>3. ASSUME NEW r \in Requests, Handle(r) \/ PgFinish(r) \/ PgFinishError(r) PROVE Goal
  BY <1>3 DEF Handle, PgFinish, PgFinishError, GoTo
<1>4. ASSUME NEW r \in Requests, RedisFinish(r) \/ RedisFinishError(r) \/ Crash(r) PROVE Goal
  BY <1>4 DEF RedisFinish, RedisFinishError, Crash, GoTo
<1>5. ASSUME Tick \/ Prune \/ RedisFlush \/ UNCHANGED vars PROVE Goal
  BY <1>5 DEF Tick, Prune, RedisFlush, vars
<1> QED BY <1>1, <1>2, <1>3, <1>4, <1>5 DEF Next, Step

\* Without a Redis fault the entry of a covered claim is not dropped early.
LEMMA CoverStep ==
    ASSUME TypeOK, OrderInv, [Next]_vars, redisFaults = 0, redisFaults' = 0,
           NEW q \in Requests, since'[q] = since[q], Covered(q)
    PROVE  Covered(q)'
<1> USE TTLAssumption DEF reqVars, faultVars
<1>0. clock \in Int /\ since[q] \in Int /\ since[q] <= clock
      /\ (redis # NoEntry => redis.exp \in Int)
  BY DEF TypeOK, OrderInv, Entry
<1>1. ASSUME clock' = clock, redis' = redis PROVE Covered(q)'
  BY <1>1 DEF Covered
<1>2. ASSUME NEW r \in Requests, RedisClaim(r) PROVE Covered(q)'
  <2>1. CASE redis # NoEntry
    BY <1>1, <1>2, <2>1 DEF RedisClaim
  <2>2. CASE redis = NoEntry
    BY <1>0, <1>2, <2>2 DEF RedisClaim, Covered
  <2> QED BY <2>1, <2>2
<1>3. ASSUME NEW r \in Requests, RedisFinish(r) PROVE Covered(q)'
  <2>1. redis' # NoEntry /\ redis'.exp = clock + TTL /\ clock' = clock
    BY <1>3, EntryFacts DEF RedisFinish
  <2> QED BY <1>0, <2>1 DEF Covered
<1>4. ASSUME Tick PROVE Covered(q)'
  <2>1. clock' = clock + 1
        /\ redis' = IF redis # NoEntry /\ redis.exp <= clock + 1 THEN NoEntry ELSE redis
    BY <1>4 DEF Tick
  <2> QED BY <1>0, <2>1 DEF Covered
<1>5. ASSUME RedisFault PROVE FALSE
  BY <1>5 DEF RedisFault
<1> QED
  BY <1>1, <1>2, <1>3, <1>4, <1>5
  DEF Next, Step, vars, RedisClaimError, PgInsert, PgSelect, PgClaimError, Handle, PgFinish,
      PgFinishError, RedisFinishError, Crash, Prune, RedisFlush

\* A claim that finds Redis empty comes TTL after every covered claim.
LEMMA ExclusiveStep ==
    ASSUME TypeOK, OrderInv, ExclusiveInv, [Next]_vars PROVE ExclusiveInv'
<1> SUFFICES ASSUME redisFaults' = 0
             PROVE  /\ \A r \in Requests : Past(r)' => Covered(r)'
                    /\ \A r, q \in Requests : r # q /\ Past(r)' /\ Past(q)' => Apart(r, q)'
  BY DEF ExclusiveInv
<1>0. redisFaults = 0 /\ ~ RedisFault
  <2>1. redisFaults \in Nat  BY FaultsAssumption DEF TypeOK
  <2>2. ~ RedisFault  BY <2>1 DEF RedisFault
  <2>3. redisFaults' = redisFaults
    BY <2>2
    DEF Next, Step, vars, faultVars, RedisClaim, RedisClaimError, PgInsert, PgSelect,
        PgClaimError, Handle, PgFinish, PgFinishError, RedisFinish, RedisFinishError, Crash,
        Tick, Prune, RedisFlush, HardFault
  <2> QED BY <2>2, <2>3
<1>t. /\ clock \in Int /\ TTL \in Nat \ {0}
      /\ since \in [Requests -> Int]
      /\ \A r \in Requests : since[r] <= clock
  BY TTLAssumption DEF TypeOK, OrderInv
<1>1. ASSUME NEW r \in Requests, RedisClaim(r), Past(r)'
      PROVE  /\ redis = NoEntry /\ redis' = InProgress(r, clock + TTL)
             /\ since'[r] = clock /\ clock' = clock
             /\ \A q \in Requests : q # r => since'[q] = since[q] /\ (Past(q)' => Past(q))
  <2>1. phase[r] = "new" /\ answer[r] # "ran"  BY <1>1 DEF RedisClaim, OrderInv
  <2>2. ~ Existing(r, redis)
    BY <1>1, <2>1 DEF Existing, Reply, Replay, Past, TypeOK
  <2>3. since' = [since EXCEPT ![r] = clock] /\ clock' = clock  BY <1>1 DEF RedisClaim
  <2>4. \A q \in Requests : q # r => (Past(q)' => Past(q))
    BY <1>1, <2>2 DEF RedisClaim, GoTo, Past, TypeOK
  <2> QED BY <1>1, <1>t, <2>2, <2>3, <2>4 DEF RedisClaim
<1>2. \A r \in Requests : Past(r)' => Covered(r)'
  <2> SUFFICES ASSUME NEW r \in Requests, Past(r)' PROVE Covered(r)'
    OBVIOUS
  <2>1. CASE RedisClaim(r)
    <3>1. redis' = InProgress(r, clock + TTL) /\ since'[r] = clock /\ clock' = clock
      BY <1>1, <2>1
    <3>2. redis' # NoEntry /\ redis'.exp = clock + TTL  BY <3>1, EntryFacts
    <3> QED BY <1>t, <3>1, <3>2 DEF Covered
  <2>2. CASE ~ RedisClaim(r)
    <3>1. since'[r] = since[r] /\ Past(r)
      BY <1>0, <2>2, PastStep DEF RedisClaimError
    <3>2. Covered(r)  BY <1>0, <3>1 DEF ExclusiveInv
    <3> QED BY <1>0, <3>1, <3>2, CoverStep
  <2> QED BY <2>1, <2>2
<1>3. ASSUME NEW r \in Requests, NEW q \in Requests, r # q, Past(r)', Past(q)', RedisClaim(r)
      PROVE  Apart(r, q)' /\ Apart(q, r)'
  <2>1. redis = NoEntry /\ since'[r] = clock /\ since'[q] = since[q] /\ Past(q)
    BY <1>1, <1>3
  <2>2. Covered(q)  BY <1>0, <2>1 DEF ExclusiveInv
  <2>3. since[q] + TTL <= clock  BY <1>t, <2>1, <2>2 DEF Covered
  <2> QED BY <2>1, <2>3 DEF Apart
<1>4. \A r, q \in Requests : r # q /\ Past(r)' /\ Past(q)' => Apart(r, q)'
  <2> SUFFICES ASSUME NEW r \in Requests, NEW q \in Requests, r # q, Past(r)', Past(q)'
               PROVE  Apart(r, q)'
    OBVIOUS
  <2>1. CASE RedisClaim(r) \/ RedisClaim(q)
    BY <1>3, <2>1
  <2>2. CASE ~ RedisClaim(r) /\ ~ RedisClaim(q)
    <3>1. since'[r] = since[r] /\ since'[q] = since[q] /\ Past(r) /\ Past(q)
      BY <1>0, <2>2, PastStep DEF RedisClaimError
    <3>2. Apart(r, q)  BY <1>0, <3>1 DEF ExclusiveInv
    <3> QED BY <3>1, <3>2 DEF Apart
  <2> QED BY <2>1, <2>2
<1> QED BY <1>2, <1>4

\* The order of claims and the Redis exclusion, for any number of requests.
LEMMA ExclusiveInvariant == Spec => [](OrderInv /\ ExclusiveInv)
<1>1. Init => OrderInv /\ ExclusiveInv
  BY DEF Init, OrderInv, ExclusiveInv, Past
<1>2. ASSUME TypeOK, OrderInv /\ ExclusiveInv, [Next]_vars PROVE (OrderInv /\ ExclusiveInv)'
  BY <1>2, OrderStep, ExclusiveStep
<1> QED BY <1>1, <1>2, TypeCorrect, PTL DEF Spec

\* While Redis works, no two requests that reach the handler were claimed within
\* one TTL, whatever Postgres and the processes do.
THEOREM RedisClaimIsExclusive == Spec => []RedisClaimExclusive
<1>1. ExclusiveInv => RedisClaimExclusive
  BY DEF ExclusiveInv, RedisClaimExclusive, Claimed, Past, Apart
<1> QED BY <1>1, ExclusiveInvariant, PTL

-----------------------------------------------------------------------------
(* Replays.  Both tiers pair a response with the hash of the request that  *)
(* produced it: Finish overwrites the response of an in-progress row but   *)
(* not its hash, so the row has to be the finisher's own.                  *)

\* The conditions of ReplayFidelity.
Trusted == ~late /\ hardFaults = 0 /\ (redisFaults = 0 \/ ~rowless)

\* No request in flight has outlived its claim.
OnTime == ~late => \A r \in Requests : InFlight(r) => clock < since[r] + TTL

\* Stored and replayed responses are those of their hash.
RowFaithful == pg # NoEntry => pg.hash = hash[pg.result]
RedisFaithful == redis # NoEntry => redis.hash = hash[redis.result]
ReplayFaithful == \A r \in Requests : answer[r] = "replay" => hash[from[r]] = hash[r]

\* An in-progress row belongs to a request between its claim and its Finish.
Running(r) == phase[r] \in {"run", "finish_pg"}
RowOwned == pg.status = "in_progress" => Running(pg.result)

\* A request admitted by its INSERT finds its own row when it finishes.
Planted ==
    ~rowless => \A r \in Requests : Running(r) =>
        pg.status = "in_progress" /\ pg.result = r /\ since[r] + TTL <= pg.exp

FidelityInv == Trusted => RowFaithful /\ RedisFaithful /\ ReplayFaithful /\ RowOwned /\ Planted

\* Requests stay on time until one is late.
LEMMA OnTimeStep == ASSUME TypeOK, OnTime, [Next]_vars PROVE OnTime'
<1> SUFFICES ASSUME ~late', NEW r \in Requests, InFlight(r)'
             PROVE  clock' < since'[r] + TTL
  BY DEF OnTime
<1>t. clock \in Int /\ since[r] \in Int /\ TTL \in Nat \ {0}
  BY TTLAssumption DEF TypeOK
<1>1. CASE Tick
  <2>1. ~late /\ \A q \in Requests : ~(InFlight(q) /\ since[q] + TTL <= clock + 1)
    BY <1>1, Zenon DEF Tick
  <2>2. InFlight(r) /\ since' = since /\ clock' = clock + 1
    BY <1>1 DEF Tick, reqVars, InFlight
  <2> QED BY <1>t, <2>1, <2>2
<1>2. CASE ~ Tick
  <2>1. ~late /\ clock' = clock
    BY <1>2
    DEF Next, Step, vars, RedisClaim, RedisClaimError, PgInsert, PgSelect, PgClaimError,
        Handle, PgFinish, PgFinishError, RedisFinish, RedisFinishError, Crash, Prune, RedisFlush
  <2>2. CASE RedisClaim(r) \/ RedisClaimError(r)
    <3>1. since'[r] = clock  BY <2>2 DEF RedisClaim, RedisClaimError, TypeOK
    <3> QED BY <1>t, <2>1, <3>1
  <2>3. CASE ~(RedisClaim(r) \/ RedisClaimError(r))
    <3>1. InFlight(r)
      BY <1>2, <2>3
      DEF TypeOK, InFlight, Next, Step, vars, reqVars, RedisClaim, RedisClaimError, PgInsert,
          PgSelect, PgClaimError, Handle, PgFinish, PgFinishError, RedisFinish,
          RedisFinishError, Crash, Prune, RedisFlush, GoTo, Reply, Replay, Existing
    <3>2. since'[r] = since[r]
      BY <1>2, <2>3
      DEF TypeOK, Next, Step, vars, reqVars, RedisClaim, RedisClaimError, PgInsert,
          PgSelect, PgClaimError, Handle, PgFinish, PgFinishError, RedisFinish,
          RedisFinishError, Crash, Prune, RedisFlush
    <3> QED BY <2>1, <3>1, <3>2 DEF OnTime
  <2> QED BY <2>2, <2>3
<1> QED BY <1>1, <1>2

\* What a step may not have done if the conditions still hold after it.
LEMMA TrustedStep ==
    ASSUME TypeOK, [Next]_vars, Trusted'
    PROVE  /\ Trusted /\ ~ HardFault
           /\ ~rowless' => ~rowless
<1>1. hardFaults \in Nat /\ redisFaults \in Nat  BY FaultsAssumption DEF TypeOK
<1>2. ~ HardFault  BY <1>1 DEF HardFault, Trusted
<1>3. hardFaults' = hardFaults
  BY <1>2
  DEF Next, Step, vars, faultVars, RedisClaim, RedisClaimError, RedisFault, PgInsert, PgSelect,
      PgClaimError, Handle, PgFinish, PgFinishError, RedisFinish, RedisFinishError, Crash,
      Tick, Prune, RedisFlush
<1>4. redisFaults' = 0 => redisFaults = 0
  BY <1>1
  DEF Next, Step, vars, faultVars, RedisClaim, RedisClaimError, RedisFault, PgInsert, PgSelect,
      PgClaimError, HardFault, Handle, PgFinish, PgFinishError, RedisFinish, RedisFinishError,
      Crash, Tick, Prune, RedisFlush
<1>5. ~rowless' => ~rowless
  BY DEF Next, Step, vars, RedisClaim, RedisClaimError, PgInsert, PgSelect,
      PgClaimError, Handle, PgFinish, PgFinishError, RedisFinish, RedisFinishError,
      Crash, Tick, Prune, RedisFlush
<1>6. ~late' => ~late
  <2>1. Tick => (~late' => ~late)  BY Zenon DEF Tick
  <2> QED
    BY <2>1
    DEF Next, Step, vars, RedisClaim, RedisClaimError, PgInsert, PgSelect,
        PgClaimError, Handle, PgFinish, PgFinishError, RedisFinish, RedisFinishError,
        Crash, Prune, RedisFlush
<1> QED BY <1>2, <1>3, <1>4, <1>5, <1>6 DEF Trusted

\* The in-progress row a request finds at Finish is its own.
LEMMA OwnRow ==
    ASSUME TypeOK, OrderInv, ExclusiveInv, OnTime, FidelityInv, Trusted,
           NEW r \in Requests, Running(r), pg.status = "in_progress"
    PROVE  pg.result = r
<1>1. CASE ~rowless
  BY <1>1 DEF FidelityInv, Planted
<1>2. CASE redisFaults = 0
  <2>1. pg \in Entry  BY EntryFacts DEF TypeOK
  <2> DEFINE q == pg.result
  <2>2. q \in Requests /\ Running(q)  BY <2>1 DEF Entry, FidelityInv, RowOwned
  <2> HIDE DEF q
  <2>3. Past(q) /\ Past(r) /\ InFlight(q) /\ InFlight(r)
    BY <2>2 DEF Running, Past, InFlight
  <2>4. clock < since[q] + TTL /\ clock < since[r] + TTL  BY <2>2, <2>3 DEF OnTime, Trusted
  <2>5. since[q] \in Int /\ since[r] \in Int /\ since[q] <= clock /\ since[r] <= clock
        /\ clock \in Int /\ TTL \in Int
    BY <2>2, TTLAssumption DEF TypeOK, OrderInv
  <2>6. ~ Apart(r, q)  BY <2>4, <2>5 DEF Apart
  <2>7. r = q  BY <1>2, <2>2, <2>3, <2>6 DEF ExclusiveInv
  <2> QED BY <2>7 DEF q
<1> QED BY <1>1, <1>2 DEF Trusted

\* A request answered from a faithful entry replays a response to its own hash.
LEMMA ExistingFaithful ==
    ASSUME TypeOK, ReplayFaithful, NEW r \in Requests, NEW e, Existing(r, e),
           e.hash = hash[e.result], hash' = hash
    PROVE  /\ ReplayFaithful'
           /\ \A q \in Requests : Running(q)' => Running(q) /\ q # r
           /\ \A q \in Requests : Running(q) /\ q # r => Running(q)'
BY DEF TypeOK, ReplayFaithful, Existing, Reply, Replay, Running

\* What a step of r does to control only, between phases that are no replay.
LEMMA GoToFaithful ==
    ASSUME TypeOK, ReplayFaithful, NEW r \in Requests, NEW next \in Phase, GoTo(r, next),
           hash' = hash
    PROVE  /\ ReplayFaithful'
           /\ \A q \in Requests : q # r => (Running(q)' <=> Running(q))
           /\ Running(r)' <=> next \in {"run", "finish_pg"}
BY DEF TypeOK, ReplayFaithful, GoTo, Running

\* The fields of a claim.
LEMMA ClaimFields ==
    ASSUME NEW r, NEW e
    PROVE  /\ InProgress(r, e).status = "in_progress" /\ InProgress(r, e).hash = hash[r]
           /\ InProgress(r, e).result = r /\ InProgress(r, e).exp = e
BY DEF InProgress

\* The fields of a stored response, and of no entry.
LEMMA EntryFields ==
    ASSUME NEW r, NEW h, NEW e
    PROVE  /\ Done(r, h, e).status = "done" /\ Done(r, h, e).hash = h
           /\ Done(r, h, e).result = r
           /\ NoEntry.status # "in_progress"
BY DEF Done, NoEntry

\* Every step keeps responses with their hashes.
LEMMA FidelityStep ==
    ASSUME TypeOK, OrderInv, ExclusiveInv, OnTime, FidelityInv, [Next]_vars PROVE FidelityInv'
<1> SUFFICES ASSUME Trusted'
             PROVE  /\ RowFaithful' /\ RedisFaithful' /\ ReplayFaithful'
                    /\ RowOwned' /\ Planted'
  BY DEF FidelityInv
<1>0. /\ Trusted /\ ~ HardFault /\ (~rowless' => ~rowless)
      /\ RowFaithful /\ RedisFaithful /\ ReplayFaithful /\ RowOwned /\ Planted
  BY TrustedStep DEF FidelityInv
<1>t. pg # NoEntry => pg \in Entry /\ pg.result \in Requests  BY DEF TypeOK, Entry
<1> DEFINE Goal == RowFaithful' /\ RedisFaithful' /\ ReplayFaithful' /\ RowOwned' /\ Planted'
<1>p. pg.status = "in_progress" => pg.result \in Requests  BY <1>t, EntryFields
<1>q. \A r \in Requests : Running(r) => phase[r] \notin {"new", "insert", "select", "finish_redis"}
  BY DEF Running
<1>1. ASSUME NEW r \in Requests, RedisClaim(r) \/ RedisClaimError(r) PROVE Goal
  <2>1. /\ UNCHANGED <<clock, pg, hash>> /\ ~ Running(r) /\ rowless' = rowless
        /\ since' = [since EXCEPT ![r] = clock]
    BY <1>1, <1>q DEF RedisClaim, RedisClaimError
  <2>2. /\ ReplayFaithful'
        /\ \A q \in Requests : Running(q)' <=> Running(q)
    <3>1. CASE GoTo(r, "insert")
      BY <1>0, <2>1, <3>1, GoToFaithful DEF Phase
    <3>2. CASE redis # NoEntry /\ Existing(r, redis)
      <4>1. redis.hash = hash[redis.result]  BY <1>0, <3>2 DEF RedisFaithful
      <4> QED BY <1>0, <2>1, <3>2, <4>1, ExistingFaithful
    <3> QED BY <1>1, <3>1, <3>2 DEF RedisClaim, RedisClaimError
  <2>3. RedisFaithful'
    <3>1. CASE redis' = redis  BY <1>0, <2>1, <3>1 DEF RedisFaithful
    <3>2. CASE redis' = InProgress(r, clock + TTL)
      BY <2>1, <3>2, ClaimFields DEF RedisFaithful
    <3> QED BY <1>1, <3>1, <3>2 DEF RedisClaim, RedisClaimError
  <2>4. RowFaithful'  BY <1>0, <2>1 DEF RowFaithful
  <2>5. RowOwned'  BY <1>0, <1>p, <2>1, <2>2 DEF RowOwned
  <2>6. Planted'
    <3>1. \A q \in Requests : Running(q) => since'[q] = since[q]  BY <2>1 DEF TypeOK
    <3> QED BY <1>0, <2>1, <2>2, <3>1 DEF Planted
  <2> QED BY <2>2, <2>3, <2>4, <2>5, <2>6
<1>2. ASSUME NEW r \in Requests, PgInsert(r) PROVE Goal
  <2>1. UNCHANGED <<clock, redis, hash, since, rowless>> /\ ~ Running(r)
    BY <1>2, <1>q DEF PgInsert
  <2>2. RedisFaithful'  BY <1>0, <2>1 DEF RedisFaithful
  <2>3. CASE pg # NoEntry /\ UNCHANGED pg /\ GoTo(r, "select")
    <3>1. ReplayFaithful' /\ \A q \in Requests : Running(q)' <=> Running(q)
      BY <1>0, <2>1, <2>3, GoToFaithful DEF Phase
    <3>2. RowFaithful'  BY <1>0, <2>1, <2>3 DEF RowFaithful
    <3>3. RowOwned'  BY <1>0, <1>p, <2>3, <3>1 DEF RowOwned
    <3>4. Planted'  BY <1>0, <2>1, <2>3, <3>1 DEF Planted
    <3> QED BY <2>2, <3>1, <3>2, <3>3, <3>4
  <2>4. ASSUME NEW now \in since[r] .. clock, InsertRow(r, now), GoTo(r, "run")
        PROVE  Goal
    <3>1. /\ ReplayFaithful' /\ Running(r)'
          /\ \A q \in Requests : q # r => (Running(q)' <=> Running(q))
      BY <1>0, <2>1, <2>4, GoToFaithful DEF Phase
    <3>2. /\ pg = NoEntry
          /\ pg'.status = "in_progress" /\ pg'.result = r /\ pg'.hash = hash[r]
          /\ pg'.exp = now + TTL
      BY <2>4, ClaimFields DEF InsertRow
    <3>3. RowFaithful' /\ RowOwned'  BY <2>1, <3>1, <3>2 DEF RowFaithful, RowOwned
    <3>4. Planted'
      <4>1. ~rowless => \A q \in Requests : ~ Running(q)
        BY <1>0, <3>2, EntryFields DEF Planted
      <4>2. since[r] + TTL <= now + TTL
        BY TTLAssumption DEF TypeOK
      <4> QED BY <2>1, <3>1, <3>2, <4>1, <4>2 DEF Planted
    <3> QED BY <2>2, <3>1, <3>3, <3>4
  <2> QED BY <1>2, <2>3, <2>4 DEF PgInsert
<1>3. ASSUME NEW r \in Requests, PgSelect(r) PROVE Goal
  <2>1. UNCHANGED <<clock, redis, pg, hash, since>> /\ ~ Running(r)
    BY <1>3, <1>q DEF PgSelect
  <2>2. RedisFaithful' /\ RowFaithful'  BY <1>0, <2>1 DEF RedisFaithful, RowFaithful
  <2>3. CASE RowGone(r) /\ GoTo(r, "run") /\ rowless' = TRUE
    <3>1. /\ ReplayFaithful'
          /\ \A q \in Requests : q # r => (Running(q)' <=> Running(q))
      BY <1>0, <2>1, <2>3, GoToFaithful DEF Phase
    <3>2. RowOwned'
      <4>1. pg.status = "in_progress" => pg.result # r  BY <1>0, <2>1 DEF RowOwned
      <4> QED BY <1>0, <1>p, <2>1, <3>1, <4>1 DEF RowOwned
    <3>3. Planted'  BY <2>3 DEF Planted
    <3> QED BY <2>2, <3>1, <3>2, <3>3
  <2>4. CASE ~RowGone(r) /\ Existing(r, pg) /\ UNCHANGED rowless
    <3>1. pg.hash = hash[pg.result]  BY <1>0, <2>4 DEF RowGone, RowFaithful
    <3>2. ReplayFaithful' /\ \A q \in Requests : Running(q)' <=> Running(q)
      BY <1>0, <2>1, <2>4, <3>1, ExistingFaithful
    <3>3. RowOwned'  BY <1>0, <1>p, <2>1, <3>2 DEF RowOwned
    <3>4. Planted'  BY <1>0, <2>1, <2>4, <3>2 DEF Planted
    <3> QED BY <2>2, <3>2, <3>3, <3>4
  <2> QED BY <1>3, <2>3, <2>4 DEF PgSelect
<1>4. ASSUME NEW r \in Requests, Handle(r) PROVE Goal
  <2>1. UNCHANGED <<clock, redis, pg, hash, since, rowless>>  BY <1>4 DEF Handle
  <2>2. ReplayFaithful' /\ \A q \in Requests : Running(q)' <=> Running(q)
    BY <1>0, <1>4 DEF Handle, ReplayFaithful, Running, TypeOK
  <2> QED
    BY <1>0, <1>p, <2>1, <2>2 DEF RowFaithful, RedisFaithful, RowOwned, Planted
<1>5. ASSUME NEW r \in Requests, PgFinish(r) PROVE Goal
  <2>1. /\ UNCHANGED <<clock, redis, hash, since, rowless>> /\ Running(r)
        /\ FinishRow(r) /\ GoTo(r, "finish_redis")
    BY <1>5 DEF PgFinish, Running
  <2>2. /\ ReplayFaithful' /\ ~ Running(r)'
        /\ \A q \in Requests : q # r => (Running(q)' <=> Running(q))
    BY <1>0, <2>1, GoToFaithful DEF Phase
  <2>3. RedisFaithful'  BY <1>0, <2>1 DEF RedisFaithful
  <2>4. Planted'
    BY <1>0, <2>1, <2>2 DEF Planted
  <2>5. CASE pg.status = "in_progress"
    <3>1. pg.result = r  BY <1>0, <2>1, <2>5, OwnRow
    <3>2. pg.hash = hash[r]  BY <1>0, <2>5, <3>1, EntryFields DEF RowFaithful
    <3>3. pg'.status = "done" /\ pg'.hash = pg.hash /\ pg'.result = r
      BY <2>1, <2>5, EntryFields DEF FinishRow
    <3> QED BY <2>1, <2>2, <2>3, <2>4, <3>2, <3>3 DEF RowFaithful, RowOwned
  <2>6. CASE pg.status # "in_progress"
    BY <1>0, <2>1, <2>2, <2>3, <2>4, <2>6 DEF FinishRow, RowFaithful, RowOwned
  <2> QED BY <2>5, <2>6
<1>6. ASSUME NEW r \in Requests, RedisFinish(r) \/ RedisFinishError(r) PROVE Goal
  <2>1. /\ UNCHANGED <<clock, pg, hash, since, rowless>> /\ ~ Running(r) /\ GoTo(r, "over")
    BY <1>6, <1>q DEF RedisFinish, RedisFinishError
  <2>2. ReplayFaithful' /\ \A q \in Requests : Running(q)' <=> Running(q)
    BY <1>0, <2>1, GoToFaithful DEF Phase
  <2>3. RedisFaithful'
    <3>1. CASE redis' = redis  BY <1>0, <2>1, <3>1 DEF RedisFaithful
    <3>2. CASE redis' = Done(r, hash[r], clock + TTL)
      BY <2>1, <3>2, EntryFields DEF RedisFaithful
    <3> QED BY <1>6, <3>1, <3>2 DEF RedisFinish, RedisFinishError
  <2> QED
    BY <1>0, <1>p, <2>1, <2>2, <2>3 DEF RowFaithful, RowOwned, Planted
<1>7. ASSUME Tick \/ RedisFlush \/ UNCHANGED vars PROVE Goal
  <2>1. UNCHANGED <<pg, hash, since, phase, answer, from, rowless>>
        /\ (redis' = redis \/ redis' = NoEntry)
    BY <1>7 DEF Tick, RedisFlush, vars, reqVars
  <2>2. RedisFaithful'  BY <1>0, <2>1 DEF RedisFaithful
  <2> QED
    BY <1>0, <2>1, <2>2 DEF RowFaithful, ReplayFaithful, RowOwned, Planted, Running
<1>8. ASSUME Prune PROVE Goal
  <2>1. UNCHANGED <<clock, redis, hash, since, phase, answer, from, rowless>>
        /\ pg # NoEntry /\ pg.exp < clock /\ pg' = NoEntry
    BY <1>8 DEF Prune, reqVars
  <2>2. ASSUME ~rowless, NEW r \in Requests, Running(r) PROVE FALSE
    <3>1. since[r] + TTL <= pg.exp  BY <1>0, <2>2 DEF Planted
    <3>2. clock < since[r] + TTL
      BY <1>0, <2>2 DEF OnTime, Trusted, InFlight, Running
    <3>3. clock \in Int /\ since[r] \in Int /\ TTL \in Int /\ pg.exp \in Int
      BY <1>t, <2>1, TTLAssumption DEF TypeOK, Entry
    <3> QED BY <2>1, <3>1, <3>2, <3>3
  <2>3. Planted'  BY <2>1, <2>2 DEF Planted, Running
  <2>4. RowFaithful' /\ RowOwned'  BY <2>1, EntryFields DEF RowFaithful, RowOwned
  <2> QED
    BY <1>0, <2>1, <2>3, <2>4 DEF RedisFaithful, ReplayFaithful
<1> QED
  BY <1>0, <1>1, <1>2, <1>3, <1>4, <1>5, <1>6, <1>7, <1>8
  DEF Next, Step, PgClaimError, PgFinishError, Crash

\* While no process dies, Postgres answers, handlers end within TTL, and either
\* Redis works or every admitted request planted its row, a client is replayed
\* only a response to the very request it sent.
THEOREM ReplaysAreFaithful == Spec => []ReplayFidelity
<1>1. Init => OnTime /\ FidelityInv
  BY EntryFields DEF Init, OnTime, InFlight, FidelityInv, RowFaithful, RedisFaithful,
     ReplayFaithful, RowOwned, Planted, Running
<1>2. ASSUME TypeOK, OrderInv /\ ExclusiveInv, OnTime /\ FidelityInv, [Next]_vars
      PROVE  (OnTime /\ FidelityInv)'
  BY <1>2, OnTimeStep, FidelityStep
<1>3. FidelityInv => ReplayFidelity
  BY DEF FidelityInv, Trusted, ReplayFaithful, ReplayFidelity
<1> QED BY <1>1, <1>2, <1>3, TypeCorrect, ExclusiveInvariant, PTL DEF Spec
=============================================================================
