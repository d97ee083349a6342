----------------------------- MODULE CronProofs -----------------------------
(***************************************************************************)
(* Proofs about CronScheduler for any number of replicas and schedules,    *)
(* any lease and any number of failures.                                   *)
(***************************************************************************)
EXTENDS CronScheduler, TLAPS

\* Rounding down to a multiple and adding one period passes n.
LEMMA LaterMultiple ==
    ASSUME NEW t \in Nat, NEW p \in Nat \ {0}
    PROVE  (t \div p + 1) * p \in Nat /\ (t \div p + 1) * p > t
OBVIOUS

\* The next boundary lies strictly after the time it is asked for.
LEMMA NextIsLater ==
    ASSUME NEW s \in Schedules, NEW t \in 0 .. MaxTime
    PROVE  NextBoundary(s, t) \in Boundary /\ NextBoundary(s, t) > t
<1> DEFINE b == (t \div Period[s] + 1) * Period[s]
<1>1. b \in Nat /\ b > t
  <2>1. Period[s] \in Nat \ {0} /\ t \in Nat  BY PeriodAssumption, TTLAssumption
  <2> QED BY <2>1, LaterMultiple
<1>2. NextBoundary(s, t) = IF b > MaxTime THEN MaxTime + 1 ELSE b
  BY DEF NextBoundary
<1> HIDE DEF b
<1> QED BY <1>1, <1>2, TTLAssumption DEF Boundary

-----------------------------------------------------------------------------
(* Types.                                                                  *)

\* Initial states are well-typed.
LEMMA TypeInit == Init => TypeOK
<1> SUFFICES ASSUME Init PROVE TypeOK  OBVIOUS
<1>1. next \in [Replicas -> [Schedules -> Boundary \cup {Unknown}]]
  BY DEF Init
<1>2. fires \in [Schedules -> [Boundary -> Nat]]
  BY DEF Init
<1>3. /\ owner \in Replicas \cup {NoOwner}
      /\ ttl \in 0 .. TTL
      /\ (owner = NoOwner) <=> (ttl = 0)
  BY TTLAssumption DEF Init
<1>4. role \in [Replicas -> Role]  BY DEF Init, Role
<1>5. /\ clock \in 0 .. MaxTime
      /\ mishaps \in 0 .. MaxMishaps
      /\ grant \in [Replicas -> 0 .. TTL]
      /\ tickNow \in [Replicas -> 0 .. MaxTime]
  BY TTLAssumption DEF Init
<1>6. /\ registered \in [Replicas -> SUBSET Schedules]
      /\ todo \in [Replicas -> SUBSET Schedules]
      /\ outlived \in BOOLEAN
  BY DEF Init
<1> QED BY <1>1, <1>2, <1>3, <1>4, <1>5, <1>6 DEF TypeOK

\* What the three lease scripts leave behind.
LeaseOK == /\ owner \in Replicas \cup {NoOwner}
           /\ ttl \in 0 .. TTL
           /\ (owner = NoOwner) <=> (ttl = 0)

\* The lease scripts keep the key and its lifetime consistent.
LEMMA LeaseCalls ==
    ASSUME LeaseOK, NEW r \in Replicas,
           Grab(r) \/ Extend(r) \/ Drop(r) \/ UNCHANGED leaseVars
    PROVE  LeaseOK'
BY TTLAssumption, ReplicasAssumption
DEF LeaseOK, Grab, Extend, Drop, leaseVars, NoOwner

\* Counting a fire keeps the counters natural numbers.
LEMMA FiresType ==
    ASSUME TypeOK, NEW r \in Replicas, NEW s \in Schedules, Enqueued(r, s)
    PROVE  fires' \in [Schedules -> [Boundary -> Nat]]
<1> DEFINE d == next[r][s]
<1>1. fires \in [Schedules -> [Boundary -> Nat]]  BY DEF TypeOK
<1>2. d \in Boundary => fires[s][d] + 1 \in Nat  BY <1>1
<1>3. fires' = [fires EXCEPT ![s] = [fires[s] EXCEPT ![d] = fires[s][d] + 1]]
  BY DEF Enqueued
<1> HIDE DEF d
<1>4. [fires[s] EXCEPT ![d] = fires[s][d] + 1] \in [Boundary -> Nat]  BY <1>1, <1>2
<1> QED BY <1>1, <1>3, <1>4

\* Every step keeps the types, action by action.
LEMMA TypeStep == ASSUME TypeOK, [Next]_vars PROVE TypeOK'
<1> USE TTLAssumption DEF leaseVars, loopVars, histVars
<1> DEFINE NextType == [Schedules -> Boundary \cup {Unknown}]
<1>0. LeaseOK /\ clock \in 0 .. MaxTime  BY DEF TypeOK, LeaseOK
<1>1. ASSUME NEW r \in Replicas, NEW s \in Schedules, Register(r, s) PROVE TypeOK'
  BY <1>1 DEF TypeOK, Register
<1>2. ASSUME NEW r \in Replicas, Acquire(r) PROVE TypeOK'
  <2>1. LeaseOK'  BY <1>0, <1>2, LeaseCalls DEF Acquire
  <2>2. \A s \in Schedules : NextBoundary(s, clock) \in Boundary  BY <1>0, NextIsLater
  <2>3. next' \in [Replicas -> NextType]  BY <1>2, <2>2 DEF TypeOK, Acquire
  <2> QED BY <1>2, <2>1, <2>3 DEF TypeOK, LeaseOK, Acquire, Become, Role
<1>3. ASSUME NEW r \in Replicas, AcquireError(r) PROVE TypeOK'
  <2>1. LeaseOK'  BY <1>0, <1>3, LeaseCalls DEF AcquireError
  <2> QED BY <1>3, <2>1 DEF TypeOK, LeaseOK, AcquireError, Mishap
<1>4. ASSUME NEW r \in Replicas, Renew(r) PROVE TypeOK'
  <2>1. LeaseOK'  BY <1>0, <1>4, LeaseCalls DEF Renew
  <2> QED BY <1>4, <2>1 DEF TypeOK, LeaseOK, Renew, Become, Role
<1>5. ASSUME NEW r \in Replicas, RenewError(r) PROVE TypeOK'
  <2>1. LeaseOK'  BY <1>0, <1>5, LeaseCalls DEF RenewError
  <2> QED BY <1>5, <2>1 DEF TypeOK, LeaseOK, RenewError, Mishap
<1>6. ASSUME NEW r \in Replicas, Tick(r) PROVE TypeOK'
  <2>1. \A s \in Schedules : NextBoundary(s, clock) \in Boundary  BY <1>0, NextIsLater
  <2>2. next' \in [Replicas -> NextType]  BY <1>6, <2>1 DEF TypeOK, Tick
  <2>3. todo' \in [Replicas -> SUBSET Schedules]  BY <1>6 DEF TypeOK, Tick, DueAt
  <2> QED BY <1>6, <2>2, <2>3 DEF TypeOK, Tick, Become, Role
<1>7. ASSUME NEW r \in Replicas, Fire(r) \/ FireError(r) PROVE TypeOK'
  <2>1. PICK s \in todo[r] : Advance(r, s) /\ (Enqueued(r, s) \/ UNCHANGED fires)
    BY <1>7 DEF Fire, FireError
  <2>2. s \in Schedules /\ tickNow[r] \in 0 .. MaxTime  BY DEF TypeOK
  <2>3. NextBoundary(s, tickNow[r]) \in Boundary  BY <2>2, NextIsLater
  <2>4. next' \in [Replicas -> NextType]
    BY <2>1, <2>2, <2>3 DEF TypeOK, Advance
  <2>5. fires' \in [Schedules -> [Boundary -> Nat]]
    BY <2>1, <2>2, FiresType DEF TypeOK
  <2>6. mishaps' \in 0 .. MaxMishaps
    BY <1>7 DEF TypeOK, Fire, FireError, Mishap, NoMishap
  <2>7. todo' \in [Replicas -> SUBSET Schedules]  BY <2>1 DEF TypeOK, Advance
  <2> QED BY <2>1, <2>4, <2>5, <2>6, <2>7 DEF TypeOK, Advance
<1>8. ASSUME NEW r \in Replicas, EndTick(r) \/ Stop(r) \/ Crash(r) \/ Start(r) PROVE TypeOK'
  <2>1. role' \in [Replicas -> Role]
    BY <1>8 DEF TypeOK, EndTick, Stop, Crash, Start, Become, Role
  <2>2. mishaps' \in 0 .. MaxMishaps
    BY <1>8 DEF TypeOK, EndTick, Stop, Crash, Start, Mishap
  <2>3. grant' \in [Replicas -> 0 .. TTL] /\ todo' \in [Replicas -> SUBSET Schedules]
    <3>1. CASE Crash(r)  BY <3>1 DEF TypeOK, Crash
    <3>2. CASE EndTick(r) \/ Stop(r) \/ Start(r)  BY <3>2 DEF TypeOK, EndTick, Stop, Start
    <3> QED BY <1>8, <3>1, <3>2
  <2>4. next' \in [Replicas -> [Schedules -> Boundary \cup {Unknown}]]
    <3>1. CASE Start(r)  BY <3>1 DEF TypeOK, Start
    <3>2. CASE ~Start(r)  BY <1>8, <3>2 DEF TypeOK, EndTick, Stop, Crash
    <3> QED BY <3>1, <3>2
  <2>5. tickNow' \in [Replicas -> 0 .. MaxTime]
    <3>1. 0 \in 0 .. MaxTime  BY TTLAssumption
    <3> QED BY <1>8, <3>1 DEF TypeOK, EndTick, Stop, Crash, Start
  <2>6. registered' \in [Replicas -> SUBSET Schedules]
    BY <1>8 DEF TypeOK, EndTick, Stop, Crash, Start
  <2>7. UNCHANGED <<owner, ttl, clock, fires, outlived>>
    BY <1>8 DEF EndTick, Stop, Crash, Start
  <2> QED BY <2>1, <2>2, <2>3, <2>4, <2>5, <2>6, <2>7 DEF TypeOK
<1>9. ASSUME NEW r \in Replicas, Release(r) \/ ReleaseError(r) PROVE TypeOK'
  <2>1. LeaseOK'  BY <1>0, <1>9, LeaseCalls DEF Release, ReleaseError
  <2>2. role' \in [Replicas -> Role]
    BY <1>9 DEF TypeOK, Release, ReleaseError, Become, Role
  <2>3. mishaps' \in 0 .. MaxMishaps
    BY <1>9 DEF TypeOK, Release, ReleaseError, Mishap
  <2>4. grant' \in [Replicas -> 0 .. TTL]
    BY <1>9 DEF TypeOK, Release, ReleaseError
  <2> QED BY <1>9, <2>1, <2>2, <2>3, <2>4 DEF TypeOK, LeaseOK, Release, ReleaseError
<1>10. ASSUME Pass PROVE TypeOK'
  <2>1. LeaseOK'  BY <1>0, <1>10, ReplicasAssumption DEF LeaseOK, Pass, Less, NoOwner
  <2>2. outlived' \in BOOLEAN  BY <1>10, Zenon DEF Pass
  <2>3. clock' \in 0 .. MaxTime /\ grant' \in [Replicas -> 0 .. TTL]
    BY <1>10 DEF TypeOK, Pass, Less
  <2>4. mishaps' \in 0 .. MaxMishaps  BY <1>10 DEF TypeOK, Pass, Mishap, NoMishap
  <2> QED BY <1>10, <2>1, <2>2, <2>3, <2>4 DEF TypeOK, LeaseOK, Pass
<1>11. CASE UNCHANGED vars
  BY <1>11 DEF TypeOK, vars
<1> QED
  BY <1>1, <1>2, <1>3, <1>4, <1>5, <1>6, <1>7, <1>8, <1>9, <1>10, <1>11 DEF Next, Loop

\* Every step keeps the types of the lease and of the schedulers' state.
THEOREM TypeCorrect == Spec => []TypeOK
BY TypeInit, TypeStep, PTL DEF Spec

-----------------------------------------------------------------------------
(* The lease.                                                              *)

\* No step leaves a replica with a grant that the key does not back.
LEMMA GrantStep == ASSUME TypeOK, GrantIsOwnership, [Next]_vars PROVE GrantIsOwnership'
<1> USE TTLAssumption, ReplicasAssumption DEF TypeOK, GrantIsOwnership, leaseVars, NoOwner
<1>1. ASSUME NEW r \in Replicas, Acquire(r) PROVE GrantIsOwnership'
  BY <1>1 DEF Acquire, Grab
<1>2. ASSUME NEW r \in Replicas, AcquireError(r) PROVE GrantIsOwnership'
  BY <1>2 DEF AcquireError, Grab
<1>3. ASSUME NEW r \in Replicas, Renew(r) PROVE GrantIsOwnership'
  BY <1>3 DEF Renew, Extend
<1>4. ASSUME NEW r \in Replicas, RenewError(r) PROVE GrantIsOwnership'
  BY <1>4 DEF RenewError, Extend
<1>5. ASSUME NEW r \in Replicas, Release(r) \/ ReleaseError(r) PROVE GrantIsOwnership'
  BY <1>5 DEF Release, ReleaseError, Drop
<1>6. ASSUME NEW r \in Replicas, Crash(r) PROVE GrantIsOwnership'
  BY <1>6 DEF Crash
<1>7. ASSUME Pass PROVE GrantIsOwnership'
  BY <1>7 DEF Pass, Less
<1>8. ASSUME UNCHANGED <<owner, ttl, grant>> PROVE GrantIsOwnership'
  BY <1>8
<1> QED
  BY <1>1, <1>2, <1>3, <1>4, <1>5, <1>6, <1>7, <1>8
  DEF Next, Loop, vars, Register, Tick, Fire, FireError, Advance, EndTick, Stop, Start

\* Within its grant a leader owns the key: no two replicas act as leader within
\* their grants at the same time.
THEOREM GrantProtects == Spec => []GrantIsOwnership
<1>1. Init => GrantIsOwnership  BY DEF Init, GrantIsOwnership
<1> QED BY <1>1, TypeCorrect, GrantStep, PTL DEF Spec

\* No replica deletes or takes over a lease that another one holds.
THEOREM LeaseIsNotStolen == Spec => LeaseNotStolen
<1> DEFINE Kept == \A r \in Replicas :
        owner = r /\ owner' # r => ttl <= 1 \/ role[r] = "stopping"
<1>1. ASSUME TypeOK, [Next]_vars PROVE [Kept]_vars
  BY <1>1, ReplicasAssumption
  DEF Next, Loop, vars, leaseVars, NoOwner, Register, Acquire, AcquireError, Grab, Renew,
      RenewError, Extend, Tick, Fire, FireError, Advance, EndTick, Stop, Release,
      ReleaseError, Drop, Crash, Start, Pass
<1> QED BY <1>1, TypeCorrect, PTL DEF Spec, LeaseNotStolen

\* No replica prolongs the lease of another one.
THEOREM LeaseIsProlongedByOwner == Spec => OnlyOwnerProlongs
<1> DEFINE Own == \A r \in Replicas :
        owner = r /\ ttl' > ttl => role[r] = "leading" /\ grant[r] < TTL
<1>1. ASSUME TypeOK, [Next]_vars PROVE [Own]_vars
  <2> SUFFICES ASSUME NEW r \in Replicas, owner = r, ttl' > ttl
               PROVE  role[r] = "leading" /\ grant[r] < TTL
    OBVIOUS
  <2>1. ttl \in Nat /\ owner # NoOwner  BY <1>1, ReplicasAssumption, TTLAssumption DEF TypeOK, NoOwner
  <2>2. ASSUME NEW q \in Replicas, Renew(q) \/ RenewError(q)
        PROVE  role[r] = "leading" /\ grant[r] < TTL
    BY <2>1, <2>2 DEF Renew, RenewError, Extend, leaseVars
  <2>3. ASSUME NEW q \in Replicas, Release(q) \/ ReleaseError(q) PROVE FALSE
    BY <2>1, <2>3 DEF Release, ReleaseError, Drop, leaseVars
  <2>4. ASSUME NEW q \in Replicas, Acquire(q) \/ AcquireError(q) PROVE FALSE
    BY <2>1, <2>4 DEF Acquire, AcquireError, Grab
  <2>5. ASSUME Pass PROVE FALSE  BY <2>1, <2>5 DEF Pass, Less
  <2>6. ASSUME UNCHANGED ttl PROVE FALSE  BY <2>1, <2>6
  <2> QED
    BY <1>1, <2>2, <2>3, <2>4, <2>5, <2>6
    DEF Next, Loop, vars, leaseVars, Register, Tick, Fire, FireError, Advance, EndTick, Stop,
        Crash, Start
<1> QED BY <1>1, TypeCorrect, PTL DEF Spec, OnlyOwnerProlongs

-----------------------------------------------------------------------------
(* No boundary fires twice.                                                *)

\* What a tick has left to fire was due when the tick looked at the clock.
TodoInv ==
    \A r \in Replicas :
        /\ tickNow[r] <= clock
        /\ role[r] # "firing" => todo[r] = {}
        /\ \A s \in todo[r] : next[r][s] # Unknown /\ next[r][s] <= tickNow[r]

\* While no leader outlived its grant, a leader is within its grant; nothing
\* beyond the clock was fired, and nothing a leader still has to fire.
LeadersGranted == \A r \in Replicas : Leading(r) => grant[r] > 0
PastFiredOnce ==
    \A s \in Schedules : \A d \in Boundary : fires[s][d] <= IF d > clock THEN 0 ELSE 1
FutureUnfired ==
    \A r \in Replicas : \A s \in Schedules : \A d \in Boundary :
        Leading(r) /\ next[r][s] # Unknown /\ next[r][s] <= d => fires[s][d] = 0
FireInv == ~outlived => LeadersGranted /\ PastFiredOnce /\ FutureUnfired

\* A tick only ever shortens its list of due schedules.
LEMMA TodoStep == ASSUME TypeOK, TodoInv, [Next]_vars PROVE TodoInv'
<1> USE TTLAssumption DEF TypeOK, TodoInv, loopVars, histVars, Become
<1>1. ASSUME NEW r \in Replicas, Acquire(r) PROVE TodoInv'
  BY <1>1 DEF Acquire
<1>2. ASSUME NEW r \in Replicas, Tick(r) PROVE TodoInv'
  BY <1>2 DEF Tick, DueAt, Unseeded
<1>3. ASSUME NEW r \in Replicas, Fire(r) \/ FireError(r) PROVE TodoInv'
  <2>1. PICK s \in todo[r] : Advance(r, s)  BY <1>3 DEF Fire, FireError
  <2> QED BY <1>3, <2>1 DEF Advance, Fire, FireError
<1>4. ASSUME NEW r \in Replicas, EndTick(r) \/ Stop(r) \/ Start(r) \/ Crash(r) PROVE TodoInv'
  BY <1>4 DEF EndTick, Stop, Start, Crash
<1>5. ASSUME NEW r \in Replicas, Renew(r) \/ Release(r) \/ ReleaseError(r) PROVE TodoInv'
  BY <1>5 DEF Renew, Release, ReleaseError
<1>6. ASSUME Pass PROVE TodoInv'
  BY <1>6 DEF Pass
<1>7. ASSUME UNCHANGED <<clock, role, next, todo, tickNow>> PROVE TodoInv'
  BY <1>7
<1> QED
  BY <1>1, <1>2, <1>3, <1>4, <1>5, <1>6, <1>7
  DEF Next, Loop, vars, Register, AcquireError, RenewError

\* A leader within its grant is the only one to fire, and fires what is unfired.
LEMMA FireStep ==
    ASSUME TypeOK, GrantIsOwnership, TodoInv, FireInv, [Next]_vars PROVE FireInv'
<1> SUFFICES ASSUME ~outlived' PROVE FireInv'  BY DEF FireInv
<1> USE TTLAssumption DEF TypeOK, FireInv, LeadersGranted, PastFiredOnce, FutureUnfired,
                         loopVars, histVars, Become, Leading
<1>0. ~outlived
  BY DEF Next, Loop, vars, Register, Acquire, AcquireError, Renew, RenewError, Tick, Fire,
         FireError, Advance, EndTick, Stop, Release, ReleaseError, Crash, Start, Pass
<1>1. ASSUME NEW r \in Replicas, Acquire(r) PROVE FireInv'
  <2>1. \A s \in Schedules : NextBoundary(s, clock) \in Boundary /\ NextBoundary(s, clock) > clock
    BY NextIsLater
  <2>2. LeadersGranted'  BY <1>0, <1>1 DEF Acquire
  <2>3. PastFiredOnce'  BY <1>0, <1>1 DEF Acquire
  <2>4. FutureUnfired'
    <3> SUFFICES ASSUME NEW q \in Replicas, NEW s \in Schedules, NEW d \in Boundary,
                        Leading(q)', next'[q][s] # Unknown, next'[q][s] <= d
                 PROVE  fires'[s][d] = 0
      OBVIOUS
    <3>1. CASE q = r
      <4>1. next'[r][s] = NextBoundary(s, clock)  BY <1>1, <3>1 DEF Acquire
      <4>2. d > clock  BY <2>1, <3>1, <4>1 DEF Boundary
      <4> QED BY <1>0, <1>1, <4>2 DEF Acquire
    <3>2. CASE q # r
      BY <1>0, <1>1, <3>2 DEF Acquire
    <3> QED BY <3>1, <3>2
  <2> QED BY <2>2, <2>3, <2>4
<1>2. ASSUME NEW r \in Replicas, Tick(r) PROVE FireInv'
  <2>1. \A s \in Schedules : NextBoundary(s, clock) \in Boundary /\ NextBoundary(s, clock) > clock
    BY NextIsLater
  <2>2. LeadersGranted'  BY <1>0, <1>2 DEF Tick
  <2>3. PastFiredOnce'  BY <1>0, <1>2 DEF Tick
  <2>4. FutureUnfired'
    <3> SUFFICES ASSUME NEW q \in Replicas, NEW s \in Schedules, NEW d \in Boundary,
                        Leading(q)', next'[q][s] # Unknown, next'[q][s] <= d
                 PROVE  fires'[s][d] = 0
      OBVIOUS
    <3>1. CASE q = r /\ s \in Unseeded(r)
      <4>1. next'[r][s] = NextBoundary(s, clock)  BY <1>2, <3>1 DEF Tick
      <4>2. d > clock  BY <2>1, <3>1, <4>1 DEF Boundary
      <4> QED BY <1>0, <1>2, <4>2 DEF Tick
    <3>2. CASE ~(q = r /\ s \in Unseeded(r))
      <4>1. next'[q][s] = next[q][s]  BY <1>2, <3>2 DEF Tick
      <4>2. Leading(q) /\ UNCHANGED fires  BY <1>2 DEF Tick
      <4> QED BY <1>0, <4>1, <4>2
    <3> QED BY <3>1, <3>2
  <2> QED BY <2>2, <2>3, <2>4
<1>3. ASSUME NEW r \in Replicas, Fire(r) \/ FireError(r) PROVE FireInv'
  <2>1. PICK s \in todo[r] : Advance(r, s) /\ (Enqueued(r, s) \/ UNCHANGED fires)
    BY <1>3 DEF Fire, FireError
  <2> DEFINE due == next[r][s]
  <2>2. /\ s \in Schedules /\ due \in Boundary /\ due <= tickNow[r] /\ tickNow[r] <= clock
        /\ Leading(r) /\ tickNow[r] \in 0 .. MaxTime
    BY <1>3 DEF TodoInv, Fire, FireError
  <2>3. NextBoundary(s, tickNow[r]) \in Boundary /\ NextBoundary(s, tickNow[r]) > due
    BY <2>2, NextIsLater DEF Boundary
  <2>4. UNCHANGED <<role, grant, clock>>  BY <2>1 DEF Advance
  <2>5. LeadersGranted'  BY <1>0, <2>4
  <2>6. \A q \in Replicas : Leading(q) => q = r
    BY <1>0, <2>2 DEF GrantIsOwnership
  <2>6a. due # Unknown  BY <2>2 DEF Boundary, Unknown
  <2>6b. \A d \in Boundary : due <= d => fires[s][d] = 0
    BY <1>0, <2>2, <2>6a
  <2>7. fires[s][due] = 0
    <3>1. due <= due  BY <2>2 DEF Boundary
    <3> HIDE DEF due
    <3> QED BY <2>2, <2>6b, <3>1
  <2>8. \A z \in Schedules : \A d \in Boundary :
            fires'[z][d] = fires[z][d] \/ (z = s /\ d = due /\ fires'[z][d] = 1)
    BY <2>1, <2>2, <2>7 DEF Enqueued
  <2>9. PastFiredOnce'
    <3> SUFFICES ASSUME NEW z \in Schedules, NEW d \in Boundary
                 PROVE  fires'[z][d] <= IF d > clock THEN 0 ELSE 1
      BY <2>4
    <3>1. CASE fires'[z][d] = fires[z][d]  BY <1>0, <3>1
    <3>2. CASE d = due /\ fires'[z][d] = 1
      BY <2>2, <3>2 DEF Boundary
    <3> QED BY <2>8, <3>1, <3>2
  <2>10. FutureUnfired'
    <3> SUFFICES ASSUME NEW q \in Replicas, NEW z \in Schedules, NEW d \in Boundary,
                        Leading(q)', next'[q][z] # Unknown, next'[q][z] <= d
                 PROVE  fires'[z][d] = 0
      OBVIOUS
    <3>1. q = r  BY <2>4, <2>6
    <3>2. CASE z = s
      <4>1. next'[r][s] = NextBoundary(s, tickNow[r])  BY <2>1, <2>2 DEF Advance
      <4>2. d > due  BY <2>3, <2>2, <3>1, <3>2, <4>1 DEF Boundary
      <4>3. fires'[s][d] = fires[s][d]  BY <2>2, <2>8, <3>2, <4>2 DEF Boundary
      <4>4. due <= d  BY <2>2, <4>2 DEF Boundary
      <4>5. fires[s][d] = 0  BY <2>6b, <4>4
      <4> QED BY <3>2, <4>3, <4>5
    <3>3. CASE z # s
      <4>1. next'[r][z] = next[r][z]  BY <2>1, <3>3 DEF Advance
      <4>2. fires'[z][d] = fires[z][d]  BY <2>8, <3>3
      <4> QED BY <1>0, <2>4, <3>1, <4>1, <4>2
    <3> QED BY <3>2, <3>3
  <2>11. FireInv'  BY <2>5, <2>9, <2>10
  <2> QED BY <2>11
<1>4. ASSUME NEW r \in Replicas, EndTick(r) \/ Stop(r) \/ Start(r) \/ Crash(r) PROVE FireInv'
  BY <1>0, <1>4 DEF EndTick, Stop, Start, Crash
<1>5. ASSUME NEW r \in Replicas, Renew(r) \/ Release(r) \/ ReleaseError(r) PROVE FireInv'
  <2>1. /\ UNCHANGED <<clock, next, fires>>
        /\ \A q \in Replicas : Leading(q)' => Leading(q)
    BY <1>5 DEF Renew, Release, ReleaseError
  <2>2. LeadersGranted'
    <3> SUFFICES ASSUME NEW q \in Replicas, Leading(q)' PROVE grant'[q] > 0
      OBVIOUS
    <3>1. grant[q] > 0  BY <1>0, <2>1
    <3>2. CASE q # r
      <4>1. grant'[q] = grant[q]  BY <1>5, <3>2 DEF Renew, Release, ReleaseError
      <4> QED BY <3>1, <4>1
    <3>3. CASE q = r
      <4>1. ~(Release(r) \/ ReleaseError(r))  BY <3>3 DEF Release, ReleaseError
      <4>2. grant'[r] = TTL  BY <1>5, <3>3, <4>1 DEF Renew
      <4> QED BY <3>3, <4>2
    <3> QED BY <3>2, <3>3
  <2> QED BY <1>0, <2>1, <2>2
<1>6. ASSUME Pass PROVE FireInv'
  <2>1. \A r \in Replicas : Leading(r) => grant[r] > 1
    <3>1. ~AboutToOutlive  BY <1>6 DEF Pass
    <3> QED BY <1>0, <3>1 DEF AboutToOutlive
  <2>2. LeadersGranted'  BY <1>6, <2>1 DEF Pass, Less
  <2>3. UNCHANGED <<next, fires, role>> /\ clock <= clock' /\ clock' \in Nat  BY <1>6 DEF Pass
  <2>4. PastFiredOnce'
    <3> SUFFICES ASSUME NEW s \in Schedules, NEW d \in Boundary
                 PROVE  fires[s][d] <= IF d > clock' THEN 0 ELSE 1
      BY <2>3
    <3>1. fires[s][d] \in Nat /\ fires[s][d] <= IF d > clock THEN 0 ELSE 1  BY <1>0
    <3>2. d \in Nat /\ clock \in Nat  BY DEF Boundary
    <3>3. d > clock' => d > clock  BY <2>3, <3>2
    <3> QED BY <3>1, <3>3
  <2>5. FutureUnfired'  BY <1>0, <2>3
  <2> QED BY <2>2, <2>4, <2>5
<1>7. ASSUME UNCHANGED <<clock, role, grant, next, fires, outlived>> PROVE FireInv'
  BY <1>0, <1>7
<1> QED
  BY <1>1, <1>2, <1>3, <1>4, <1>5, <1>6, <1>7
  DEF Next, Loop, vars, Register, AcquireError, RenewError

\* Over any sequence of crashes, handovers and failed calls no boundary is
\* enqueued twice, as long as no leader outlives its grant.
THEOREM FiresOnce == Spec => []NoDoubleFire
<1>1. Init => TodoInv /\ FireInv
  BY DEF Init, TodoInv, FireInv, LeadersGranted, PastFiredOnce, FutureUnfired, Leading
<1>2. TypeOK /\ FireInv => NoDoubleFire
  BY TTLAssumption DEF TypeOK, FireInv, PastFiredOnce, NoDoubleFire, Boundary
<1> QED BY <1>1, <1>2, TypeCorrect, GrantProtects, TodoStep, FireStep, PTL DEF Spec
=============================================================================
