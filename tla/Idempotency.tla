---------------------------- MODULE Idempotency ----------------------------
(***************************************************************************)
(* packages/go/jobs/idempotency: the Idempotency-Key middleware over a     *)
(* Redis hot tier and a Postgres durable tier, for the requests that carry *)
(* one key (keys do not interact).  A request is claimed in Redis, then in *)
(* Postgres (an INSERT and, on conflict, a SELECT), runs the handler and   *)
(* stores the response in Postgres and in Redis; every one of these is a   *)
(* separate round trip that other requests interleave with.                *)
(*                                                                         *)
(* A request hash is a member of Hashes, a stored response is named by the *)
(* request whose handler produced it.  A call that fails may have had its  *)
(* effect.  Time is one shared clock.  Corrupt payloads and the read-only  *)
(* Get are left out.                                                       *)
(***************************************************************************)
EXTENDS Integers

CONSTANTS
    Requests,        \* requests carrying the key
    Hashes,          \* canonical request hashes
    TTL,             \* lifetime of an entry, in clock ticks
    MaxTime,         \* bound: where the clock stops
    MaxRedisFaults,  \* bound: failed Redis calls and flushes
    MaxHardFaults    \* bound: failed Postgres calls and crashes

ASSUME TTLAssumption == TTL \in Nat \ {0} /\ MaxTime \in Nat
ASSUME FaultsAssumption ==
    MaxRedisFaults \in Nat /\ MaxHardFaults \in Nat

VARIABLES
    clock,
    redis,     \* the Redis entry of the key, or NoEntry
    pg,        \* the row of idempotency_keys, or NoEntry
    hash,      \* hash[r]: request hash of r
    phase,     \* phase[r]: where r is in Middleware.Wrap
    since,     \* since[r]: when r's claim reached Redis
    start,     \* start[r]: the now that r's PostgresStore.Claim read, while it SELECTs
    answer,    \* answer[r]: what the client of r was told
    from,      \* from[r]: whose response r replayed
    honour,    \* honour[r]: until when Postgres promised r's claim or result
    late,      \* whether a request was ever in flight for TTL or longer
    rowless,   \* whether Postgres ever admitted a request without a row of its own
    redisFaults, hardFaults

reqVars == <<phase, since, start, answer, from>>
faultVars == <<redisFaults, hardFaults>>
vars == <<clock, redis, pg, hash, reqVars, honour, late, rowless, faultVars>>

NoEntry == [status |-> "none"]
NoOne == "nobody"
Entry == [status : {"in_progress", "done"}, hash : Hashes, result : Requests, exp : Int]

Phase == {"new", "insert", "select", "run", "finish_pg", "finish_redis", "over"}
Answer == {"none", "ran", "replay", "mismatch", "pending", "unavailable"}

\* Entries, requests and fault counters have their types; a Redis entry is alive,
\* and neither tier keeps one longer than TTL from now.
TypeOK ==
    /\ clock \in 0 .. MaxTime
    /\ redis \in Entry \cup {NoEntry}
    /\ pg \in Entry \cup {NoEntry}
    /\ hash \in [Requests -> Hashes]
    /\ phase \in [Requests -> Phase]
    /\ since \in [Requests -> 0 .. MaxTime]
    /\ start \in [Requests -> 0 .. MaxTime]
    /\ answer \in [Requests -> Answer]
    /\ from \in [Requests -> Requests \cup {NoOne}]
    /\ honour \in [Requests -> Int]
    /\ late \in BOOLEAN /\ rowless \in BOOLEAN
    /\ redisFaults \in 0 .. MaxRedisFaults
    /\ hardFaults \in 0 .. MaxHardFaults
    /\ redis # NoEntry => redis.exp \in (clock + 1) .. (clock + TTL)
    /\ pg # NoEntry => pg.exp <= clock + TTL

Init ==
    /\ clock = 0
    /\ redis = NoEntry
    /\ pg = NoEntry
    /\ hash \in [Requests -> Hashes]
    /\ phase = [r \in Requests |-> "new"]
    /\ since = [r \in Requests |-> 0]
    /\ start = [r \in Requests |-> 0]
    /\ answer = [r \in Requests |-> "none"]
    /\ from = [r \in Requests |-> NoOne]
    /\ honour = [r \in Requests |-> 0]
    /\ late = FALSE /\ rowless = FALSE
    /\ redisFaults = 0
    /\ hardFaults = 0

RedisFault == redisFaults < MaxRedisFaults /\ redisFaults' = redisFaults + 1 /\ UNCHANGED hardFaults
HardFault == hardFaults < MaxHardFaults /\ hardFaults' = hardFaults + 1 /\ UNCHANGED redisFaults

GoTo(r, next) == phase' = [phase EXCEPT ![r] = next] /\ UNCHANGED <<answer, from>>
Reply(r, what) ==
    /\ phase' = [phase EXCEPT ![r] = "over"]
    /\ answer' = [answer EXCEPT ![r] = what]
    /\ UNCHANGED from
Replay(r, result) ==
    /\ phase' = [phase EXCEPT ![r] = "over"]
    /\ answer' = [answer EXCEPT ![r] = "replay"]
    /\ from' = [from EXCEPT ![r] = result]

InProgress(r, exp) == [status |-> "in_progress", hash |-> hash[r], result |-> r, exp |-> exp]
DoneForTwiceAsLong(r, h, exp) == [status |-> "done", hash |-> h, result |-> r, exp |-> exp + TTL]
Done(r, h, exp) == [status |-> "done", hash |-> h, result |-> r, exp |-> exp]

\* What an existing entry e tells request r.
ExistingUnhashed(r, e) ==
    \/ e.status = "in_progress" /\ Reply(r, "pending")
    \/ e.status = "done" /\ Replay(r, e.result)
Existing(r, e) ==
    \/ e.hash # hash[r] /\ Reply(r, "mismatch")
    \/ e.hash = hash[r] /\ e.status = "in_progress" /\ Reply(r, "pending")
    \/ e.hash = hash[r] /\ e.status = "done" /\ Replay(r, e.result)

-----------------------------------------------------------------------------
(* TieredStore.Claim.                                                      *)

\* The Lua script: atomic in Redis.  Postgres is consulted on NEW only.
RedisClaim(r) ==
    /\ phase[r] = "new"
    /\ since' = [since EXCEPT ![r] = clock]
    /\ \/ redis = NoEntry /\ redis' = InProgress(r, clock + TTL) /\ GoTo(r, "insert")
       \/ redis # NoEntry /\ UNCHANGED redis /\ Existing(r, redis)
    /\ UNCHANGED <<clock, pg, hash, start, honour, late, rowless, faultVars>>

\* A failed Redis claim falls through to Postgres.
RedisClaimError(r) ==
    /\ phase[r] = "new"
    /\ RedisFault
    /\ since' = [since EXCEPT ![r] = clock]
    /\ \/ UNCHANGED redis
       \/ redis = NoEntry /\ redis' = InProgress(r, clock + TTL)
    /\ GoTo(r, "insert")
    /\ UNCHANGED <<clock, pg, hash, start, honour, late, rowless>>

InsertRow(r, now) ==
    /\ pg = NoEntry
    /\ pg' = InProgress(r, now + TTL)
    /\ honour' = [honour EXCEPT ![r] = now + TTL]

\* INSERT ... ON CONFLICT (key) DO NOTHING.  Its now was read at some time since
\* the Redis claim.
PgInsert(r) ==
    /\ phase[r] = "insert"
    /\ \E now \in since[r] .. clock :
        \/ InsertRow(r, now) /\ UNCHANGED start /\ GoTo(r, "run")
        \/ /\ pg # NoEntry /\ UNCHANGED <<pg, honour>>
           /\ start' = [start EXCEPT ![r] = now]
           /\ GoTo(r, "select")
    /\ UNCHANGED <<clock, redis, hash, since, late, rowless, faultVars>>

\* SELECT after a conflict: a vanished or expired row counts as a new claim,
\* and nothing is written for it.
RowGoneEarly(r) == pg # NoEntry => pg.exp <= start[r] + 1
RowGone(r) == pg # NoEntry => pg.exp <= start[r]
PgSelect(r) ==
    /\ phase[r] = "select"
    /\ \/ RowGone(r) /\ GoTo(r, "run") /\ rowless' = TRUE
       \/ ~RowGone(r) /\ Existing(r, pg) /\ UNCHANGED rowless
    /\ start' = [start EXCEPT ![r] = 0]
    /\ UNCHANGED <<clock, redis, pg, hash, since, honour, late, faultVars>>

\* A Postgres error during Claim is a 503; the Redis entry stays.
PgClaimError(r) ==
    /\ phase[r] \in {"insert", "select"}
    /\ HardFault
    /\ \/ UNCHANGED <<pg, honour>>
       \/ phase[r] = "insert" /\ \E now \in since[r] .. clock : InsertRow(r, now)
    /\ Reply(r, "unavailable")
    /\ UNCHANGED <<clock, redis, hash, since, start, late, rowless>>

-----------------------------------------------------------------------------
(* Middleware.dispatch: the handler, then TieredStore.Finish.              *)

\* The handler runs and the client has its response (captureWriter flushes
\* inline); 2xx and other codes are stored alike.
Handle(r) ==
    /\ phase[r] = "run"
    /\ phase' = [phase EXCEPT ![r] = "finish_pg"]
    /\ answer' = [answer EXCEPT ![r] = "ran"]
    /\ UNCHANGED <<clock, redis, pg, hash, since, start, from, honour, late, rowless, faultVars>>

\* UPDATE ... WHERE key = $5 AND status = 'in_progress': whoever's row it is,
\* and without touching its request_hash.
FinishRowUnguarded(r) ==
    IF pg # NoEntry
    THEN /\ pg' = Done(r, pg.hash, clock + TTL)
         /\ honour' = [honour EXCEPT ![r] = clock + TTL]
    ELSE UNCHANGED <<pg, honour>>
FinishRow(r) ==
    IF pg.status = "in_progress"
    THEN /\ pg' = Done(r, pg.hash, clock + TTL)
         /\ honour' = [honour EXCEPT ![r] = clock + TTL]
    ELSE UNCHANGED <<pg, honour>>

PgFinish(r) ==
    /\ phase[r] = "finish_pg"
    /\ FinishRow(r)
    /\ GoTo(r, "finish_redis")
    /\ UNCHANGED <<clock, redis, hash, since, start, late, rowless, faultVars>>

\* A Postgres error aborts Finish: Redis is not written.
PgFinishError(r) ==
    /\ phase[r] = "finish_pg"
    /\ HardFault
    /\ \/ UNCHANGED <<pg, honour>>
       \/ FinishRow(r)
    /\ GoTo(r, "over")
    /\ UNCHANGED <<clock, redis, hash, since, start, late, rowless>>

\* An unconditional SET.
RedisFinishDeletes(r) ==
    /\ phase[r] = "finish_redis"
    /\ redis' = NoEntry
    /\ GoTo(r, "over")
    /\ UNCHANGED <<clock, pg, hash, since, start, honour, late, rowless, faultVars>>
RedisFinish(r) ==
    /\ phase[r] = "finish_redis"
    /\ redis' = Done(r, hash[r], clock + TTL)
    /\ GoTo(r, "over")
    /\ UNCHANGED <<clock, pg, hash, since, start, honour, late, rowless, faultVars>>

RedisFinishError(r) ==
    /\ phase[r] = "finish_redis"
    /\ RedisFault
    /\ \/ UNCHANGED redis
       \/ redis' = Done(r, hash[r], clock + TTL)
    /\ GoTo(r, "over")
    /\ UNCHANGED <<clock, pg, hash, since, start, honour, late, rowless>>

\* The process dies, or the handler panics, with the request in flight.
InFlight(r) == phase[r] \notin {"new", "over"}
Crash(r) ==
    /\ InFlight(r)
    /\ HardFault
    /\ GoTo(r, "over")
    /\ UNCHANGED <<clock, redis, pg, hash, since, start, honour, late, rowless>>

-----------------------------------------------------------------------------
(* Expiry, pruning, flushing.                                              *)

\* Redis drops an entry at its deadline; a Postgres row waits for Prune.
Tick ==
    /\ clock < MaxTime
    /\ late' = (late \/ \E r \in Requests : InFlight(r) /\ since[r] + TTL <= clock + 1)
    /\ clock' = clock + 1
    /\ redis' = IF redis # NoEntry /\ redis.exp <= clock + 1 THEN NoEntry ELSE redis
    /\ UNCHANGED <<pg, hash, reqVars, honour, rowless, faultVars>>

\* DELETE ... WHERE expires_at < now.
Prune ==
    /\ pg # NoEntry /\ pg.exp < clock
    /\ pg' = NoEntry
    /\ UNCHANGED <<clock, redis, hash, reqVars, honour, late, rowless, faultVars>>

RedisFlush ==
    /\ redis # NoEntry
    /\ RedisFault
    /\ redis' = NoEntry
    /\ UNCHANGED <<clock, pg, hash, reqVars, honour, late, rowless>>

-----------------------------------------------------------------------------

Step(r) ==
    \/ RedisClaim(r) \/ RedisClaimError(r)
    \/ PgInsert(r) \/ PgSelect(r) \/ PgClaimError(r)
    \/ Handle(r) \/ PgFinish(r) \/ PgFinishError(r)
    \/ RedisFinish(r) \/ RedisFinishError(r) \/ Crash(r)

Next == (\E r \in Requests : Step(r)) \/ Tick \/ Prune \/ RedisFlush

Spec == Init /\ [][Next]_vars

-----------------------------------------------------------------------------
(* What the middleware promises.                                           *)

Admitted(r) == phase[r] \in {"insert", "select"} /\ phase'[r] = "run"
Claimed(r) == phase[r] \in {"run", "finish_pg", "finish_redis"} \/ answer[r] = "ran"

\* The durable tier decides: once Postgres accepted a claim or a result, no
\* other request reaches the handler until the promised lifetime is over,
\* whatever Redis lost, however stale the clock a Claim read before its INSERT,
\* and even if the row is pruned between its INSERT and its SELECT.
PlantedClaimHonoured ==
    [][\A r, q \in Requests : Admitted(r) /\ q # r => honour[q] <= clock]_vars

\* While Redis works, the Lua claim alone keeps two requests that reach the
\* handler at least TTL apart, even where Postgres holds only an expired row that
\* PgSelect treats as gone without replacing it, and whatever Postgres fails.
RedisClaimExclusive ==
    redisFaults = 0 => \A r, q \in Requests :
        r # q /\ Claimed(r) /\ Claimed(q)
            => since[q] + TTL <= since[r] \/ since[r] + TTL <= since[q]

\* A stored response stays the stored response until it expires: no late Finish
\* replaces it, and it disappears only through Prune.
StoredResultFinal ==
    [][pg.status = "done" => pg' = pg \/ (pg' = NoEntry /\ pg.exp < clock)]_vars

\* A replay is the response to the same request (hash), never another one's:
\* holds as long as no process dies, Postgres answers, handlers end within TTL,
\* and either Redis works or every admitted request planted its row; then Redis
\* may fail or be flushed any number of times.
ReplayFidelity ==
    ~late /\ hardFaults = 0 /\ (redisFaults = 0 \/ ~rowless) =>
        \A r \in Requests : answer[r] = "replay" => hash[from[r]] = hash[r]

-----------------------------------------------------------------------------
(* What a comment of Store says, see the violation run.                    *)

\* Store: "Two concurrent Claims with the same key must produce exactly one
\* ClaimNew".
OneClaimNew ==
    [][\A r, q \in Requests :
        Admitted(r) /\ q # r /\ phase[q] = "run" => since[q] + TTL <= clock]_vars
=============================================================================
