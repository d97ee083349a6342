--------------------------- MODULE CronScheduler ---------------------------
(***************************************************************************)
(* packages/go/jobs/cron: every worker replica runs Scheduler.Run, races   *)
(* for one Redis lease (lease.go) and, while it believes to be the leader, *)
(* fires the due schedules of its registry and renews the lease            *)
(* (scheduler.go).  Firing and renewing share one goroutine, so a slow     *)
(* enqueue delays the renewal.                                             *)
(*                                                                         *)
(* Lease lifetimes are countdowns: ttl is what Redis has left, grant[r]    *)
(* what r may still count on since its last successful Acquire or Renew.   *)
(* The calendar ends at MaxTime; schedules fire at multiples of Period[s]. *)
(* Everything that goes wrong (an error, whose effect may have happened or *)
(* not, a crash, a cancelled context, a leader that outlives its grant)    *)
(* spends one unit of MaxMishaps.                                          *)
(***************************************************************************)
EXTENDS Integers

CONSTANTS
    Replicas,    \* worker replicas (Config.Owner)
    Schedules,   \* names of cron specs
    Period,      \* Period[s]: distance of the boundaries of s
    TTL,         \* Config.LeaseTTL, in clock ticks
    MaxTime,     \* bound: end of the calendar
    MaxMishaps   \* bound: how many failures a behaviour contains

ASSUME ReplicasAssumption == "nobody" \notin Replicas
ASSUME PeriodAssumption == Period \in [Schedules -> Nat \ {0}]
ASSUME TTLAssumption == TTL \in Nat \ {0} /\ MaxTime \in Nat /\ MaxMishaps \in Nat

VARIABLES
    owner,       \* value of the lease key, or NoOwner
    ttl,         \* remaining life of the lease key
    clock,       \* calendar time
    role,        \* role[r]: where r is in Run / runAsLeader
    grant,       \* grant[r]: remaining life of the lease as r was granted it
    registered,  \* registered[r]: schedules in r's cron registry
    next,        \* next[r]: next-fire times runAsLeader of r keeps
    todo,        \* todo[r]: due schedules the current tick of r has left to fire
    tickNow,     \* tickNow[r]: the now of that tick, 0 between ticks
    fires,       \* fires[s][d]: how often boundary d of s was enqueued
    outlived,    \* whether some leader ever outlived its grant
    mishaps

leaseVars == <<owner, ttl>>
loopVars == <<registered, next, todo, tickNow>>
histVars == <<fires, outlived>>
vars == <<leaseVars, clock, role, grant, loopVars, histVars, mishaps>>

NoOwner == "nobody"
Unknown == 0      \* no entry in next: boundaries are positive
Role == {"idle", "leading", "firing", "stopping", "stopped", "down"}
Leading(r) == role[r] \in {"leading", "firing"}

\* Boundaries within the calendar, and the first one after it.
Boundary == 1 .. (MaxTime + 1)

\* cron.Schedule.Next: the first boundary strictly after t.  All boundaries past
\* the calendar are one.
NextBoundaryInclusive(s, t) ==
    LET b == ((t + Period[s] - 1) \div Period[s]) * Period[s] IN IF b > MaxTime THEN MaxTime + 1 ELSE b
NextBoundary(s, t) ==
    LET b == (t \div Period[s] + 1) * Period[s] IN IF b > MaxTime THEN MaxTime + 1 ELSE b

\* Lease, scheduler state and counters have their types.
TypeOK ==
    /\ owner \in Replicas \cup {NoOwner}
    /\ ttl \in 0 .. TTL
    /\ (owner = NoOwner) <=> (ttl = 0)
    /\ clock \in 0 .. MaxTime
    /\ role \in [Replicas -> Role]
    /\ grant \in [Replicas -> 0 .. TTL]
    /\ registered \in [Replicas -> SUBSET Schedules]
    /\ next \in [Replicas -> [Schedules -> Boundary \cup {Unknown}]]
    /\ todo \in [Replicas -> SUBSET Schedules]
    /\ tickNow \in [Replicas -> 0 .. MaxTime]
    /\ fires \in [Schedules -> [Boundary -> Nat]]
    /\ outlived \in BOOLEAN
    /\ mishaps \in 0 .. MaxMishaps

Init ==
    /\ owner = NoOwner /\ ttl = 0
    /\ clock = 0
    /\ role = [r \in Replicas |-> "idle"]
    /\ grant = [r \in Replicas |-> 0]
    /\ registered = [r \in Replicas |-> {}]
    /\ next = [r \in Replicas |-> [s \in Schedules |-> Unknown]]
    /\ todo = [r \in Replicas |-> {}]
    /\ tickNow = [r \in Replicas |-> 0]
    /\ fires = [s \in Schedules |-> [d \in Boundary |-> 0]]
    /\ outlived = FALSE
    /\ mishaps = 0

Mishap == mishaps < MaxMishaps /\ mishaps' = mishaps + 1
NoMishap == UNCHANGED mishaps

Become(r, what) == role' = [role EXCEPT ![r] = what]

-----------------------------------------------------------------------------
(* Lease: SET NX PX, and the compare-and-swap scripts.                     *)

GrabForever(r) == owner = NoOwner /\ owner' = r /\ ttl' = 0
Grab(r) == owner = NoOwner /\ owner' = r /\ ttl' = TTL

ExtendAnyones(r) == owner # NoOwner /\ owner' = owner /\ ttl' = TTL
Extend(r) == owner = r /\ owner' = r /\ ttl' = TTL

DropAnyones(r) == owner' = NoOwner /\ ttl' = 0
Drop(r) ==
    /\ owner' = IF owner = r THEN NoOwner ELSE owner
    /\ ttl' = IF owner = r THEN 0 ELSE ttl

-----------------------------------------------------------------------------
(* Scheduler.Run and runAsLeader.                                          *)

\* Registry.Register: the first writer of a name wins; other calls change
\* nothing.
Register(r, s) ==
    /\ s \notin registered[r]
    /\ registered' = [registered EXCEPT ![r] = @ \cup {s}]
    /\ UNCHANGED <<leaseVars, clock, role, grant, next, todo, tickNow, histVars, mishaps>>

\* The lease is won: next-fire times start from now.  A held lease changes
\* nothing, the replica sleeps and tries again.
AcquireAtBootOnly(r) ==
    /\ role[r] = "idle" /\ clock = 0
    /\ Grab(r)
    /\ grant' = [grant EXCEPT ![r] = TTL]
    /\ next' = [next EXCEPT ![r] = [s \in Schedules |->
                    IF s \in registered[r] THEN NextBoundary(s, clock) ELSE Unknown]]
    /\ Become(r, "leading")
    /\ UNCHANGED <<clock, registered, todo, tickNow, histVars, mishaps>>
Acquire(r) ==
    /\ role[r] = "idle"
    /\ Grab(r)
    /\ grant' = [grant EXCEPT ![r] = TTL]
    /\ next' = [next EXCEPT ![r] = [s \in Schedules |->
                    IF s \in registered[r] THEN NextBoundary(s, clock) ELSE Unknown]]
    /\ Become(r, "leading")
    /\ UNCHANGED <<clock, registered, todo, tickNow, histVars, mishaps>>

\* A failed Acquire is a contended lease to Run, even if Redis set the key.
AcquireError(r) ==
    /\ role[r] = "idle"
    /\ Mishap
    /\ Grab(r)
    /\ UNCHANGED <<clock, role, grant, loopVars, histVars>>

Renew(r) ==
    /\ role[r] = "leading" /\ grant[r] < TTL
    /\ \/ Extend(r) /\ grant' = [grant EXCEPT ![r] = TTL] /\ UNCHANGED role
       \/ owner # r /\ UNCHANGED leaseVars
          /\ grant' = [grant EXCEPT ![r] = 0] /\ Become(r, "idle")
    /\ UNCHANGED <<clock, loopVars, histVars, mishaps>>

\* A transport error does not end the leadership.
RenewError(r) ==
    /\ role[r] = "leading" /\ grant[r] < TTL
    /\ Mishap
    /\ \/ UNCHANGED leaseVars
       \/ Extend(r)
    /\ UNCHANGED <<clock, role, grant, loopVars, histVars>>

\* The ticker: schedules registered since the acquire are seeded, not fired;
\* the due ones are fired one after the other.
Unseeded(r) == {s \in registered[r] : next[r][s] = Unknown}
DueAt(r, now) == {s \in registered[r] : next[r][s] # Unknown /\ next[r][s] <= now}

Tick(r) ==
    /\ role[r] = "leading"
    /\ Unseeded(r) # {} \/ DueAt(r, clock) # {}
    /\ next' = [next EXCEPT ![r] = [s \in Schedules |->
                    IF s \in Unseeded(r) THEN NextBoundary(s, clock) ELSE @[s]]]
    /\ todo' = [todo EXCEPT ![r] = DueAt(r, clock)]
    /\ tickNow' = [tickNow EXCEPT ![r] = clock]
    /\ Become(r, "firing")
    /\ UNCHANGED <<leaseVars, clock, grant, registered, histVars, mishaps>>

\* The schedule moves on to the next boundary whether or not its fire worked.
Advance(r, s) ==
    /\ next' = [next EXCEPT ![r][s] = NextBoundary(s, tickNow[r])]
    /\ todo' = [todo EXCEPT ![r] = @ \ {s}]
    /\ UNCHANGED <<leaseVars, clock, role, grant, registered, tickNow, outlived>>

Enqueued(r, s) == fires' = [fires EXCEPT ![s][next[r][s]] = @ + 1]

Fire(r) ==
    /\ role[r] = "firing"
    /\ \E s \in todo[r] : Enqueued(r, s) /\ Advance(r, s)
    /\ NoMishap

FireError(r) ==
    /\ role[r] = "firing"
    /\ Mishap
    /\ \E s \in todo[r] :
        /\ \/ UNCHANGED fires
           \/ Enqueued(r, s)
        /\ Advance(r, s)

EndTick(r) ==
    /\ role[r] = "firing" /\ todo[r] = {}
    /\ tickNow' = [tickNow EXCEPT ![r] = 0]
    /\ Become(r, "leading")
    /\ UNCHANGED <<leaseVars, clock, grant, registered, next, todo, histVars, mishaps>>

-----------------------------------------------------------------------------
(* Shutdown, crash, restart.                                               *)

\* The context is cancelled: Run returns, its deferred release runs whether or
\* not the replica leads.
Stop(r) ==
    /\ role[r] \in {"idle", "leading"}
    /\ Mishap
    /\ Become(r, "stopping")
    /\ UNCHANGED <<leaseVars, clock, grant, loopVars, histVars>>

Release(r) ==
    /\ role[r] = "stopping"
    /\ Drop(r)
    /\ grant' = [grant EXCEPT ![r] = 0]
    /\ Become(r, "stopped")
    /\ UNCHANGED <<clock, loopVars, histVars, mishaps>>

ReleaseError(r) ==
    /\ role[r] = "stopping"
    /\ Mishap
    /\ \/ UNCHANGED leaseVars
       \/ Drop(r)
    /\ grant' = [grant EXCEPT ![r] = 0]
    /\ Become(r, "stopped")
    /\ UNCHANGED <<clock, loopVars, histVars>>

Crash(r) ==
    /\ role[r] \notin {"stopped", "down"}
    /\ Mishap
    /\ grant' = [grant EXCEPT ![r] = 0]
    /\ todo' = [todo EXCEPT ![r] = {}]
    /\ tickNow' = [tickNow EXCEPT ![r] = 0]
    /\ Become(r, "down")
    /\ UNCHANGED <<leaseVars, clock, registered, next, histVars>>

\* A new process, whose registry is filled again while it boots.
Start(r) ==
    /\ role[r] \in {"stopped", "down"}
    /\ registered' = [registered EXCEPT ![r] = {}]
    /\ next' = [next EXCEPT ![r] = [s \in Schedules |-> Unknown]]
    /\ Become(r, "idle")
    /\ UNCHANGED <<leaseVars, clock, grant, todo, tickNow, histVars, mishaps>>

-----------------------------------------------------------------------------
(* Time.                                                                   *)

Less(n) == IF n = 0 THEN 0 ELSE n - 1

\* A leader whose last grant runs out with this tick.
AboutToOutlive == \E r \in Replicas : Leading(r) /\ grant[r] = 1

Pass ==
    /\ IF AboutToOutlive THEN Mishap ELSE NoMishap
    /\ outlived' = (outlived \/ AboutToOutlive)
    /\ clock' = IF clock < MaxTime THEN clock + 1 ELSE clock
    /\ ttl' = Less(ttl)
    /\ owner' = IF ttl <= 1 THEN NoOwner ELSE owner
    /\ grant' = [r \in Replicas |-> Less(grant[r])]
    /\ UNCHANGED <<role, loopVars, fires>>

-----------------------------------------------------------------------------

Loop(r) ==
    \/ Acquire(r) \/ AcquireError(r) \/ Renew(r) \/ RenewError(r)
    \/ Tick(r) \/ Fire(r) \/ FireError(r) \/ EndTick(r)
    \/ Release(r) \/ ReleaseError(r)

Next ==
    \/ \E r \in Replicas : Loop(r) \/ Stop(r) \/ Crash(r) \/ Start(r)
    \/ \E r \in Replicas, s \in Schedules : Register(r, s)
    \/ Pass

Spec == Init /\ [][Next]_vars

\* Run never gives up, the supervisor restarts replicas, time passes.
Fairness ==
    /\ \A r \in Replicas : WF_vars(Loop(r)) /\ WF_vars(Start(r))
    /\ WF_vars(Pass)

FairSpec == Spec /\ Fairness

-----------------------------------------------------------------------------
(* What leader election promises.                                          *)

\* The lease protects a leader for exactly as long as it was granted: within
\* its grant it owns the key, so two replicas that both act as leader are never
\* both within their grant, whatever stale renews and releases arrive.
GrantIsOwnership ==
    \A r \in Replicas : grant[r] > 0 => owner = r /\ grant[r] <= ttl

\* The key passes from its owner only by expiring or by the owner's own
\* shutdown; the compare in Release keeps a stale replica from deleting it.
LeaseNotStolen ==
    [][\A r \in Replicas :
        owner = r /\ owner' # r => ttl <= 1 \/ role[r] = "stopping"]_vars

\* The lease of a replica grows only by that replica's own renewal: the compare
\* in Renew keeps a stale leader from prolonging its successor's.
OnlyOwnerProlongs ==
    [][\A r \in Replicas :
        owner = r /\ ttl' > ttl => role[r] = "leading" /\ grant[r] < TTL]_vars

\* As long as no leader outlives its grant, no boundary is enqueued twice, over
\* any sequence of crashes, handovers, restarts and failed or doubtful calls.
NoDoubleFire ==
    ~outlived => \A s \in Schedules : \A d \in 1 .. MaxTime : fires[s][d] <= 1

\* There is always a leader again.
LeaderAgain == []<>(\E r \in Replicas : Leading(r))
=============================================================================
