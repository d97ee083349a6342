---------------------------- MODULE InstancePool ----------------------------
(***************************************************************************)
(* packages/go/plugins/runtime/pool: the bounded pool of instantiated      *)
(* wazero modules of one plugin.  Callers run Checkout .. Lease.Return,    *)
(* one goroutine each; a reaper evicts and refills; Start pre-warms; Close *)
(* tears down.  A step is what the code does under one hold of p.mu, or    *)
(* between two accesses to the atomics closed and outstanding.             *)
(*                                                                         *)
(* A closed instance nobody refers to is garbage and its identity is used  *)
(* again, where the code counts nextID up.  Idle time is a choice: any     *)
(* idle instances may be older than MaxIdleTime when the reaper looks.     *)
(* LoadModule fails at most MaxFaults times in a behaviour.                *)
(***************************************************************************)
EXTENDS Integers, Sequences, FiniteSets, SequencesExt

CONSTANTS
    Callers,       \* goroutines that check instances out
    Instances,     \* bound: identities of instances
    MinInstances, MaxInstances, MaxUses,
    WarmFirst,     \* whether Start finishes before the host serves and the reaper ticks
    MaxFaults      \* bound: failing LoadModule calls

ASSUME SizesAssumption ==
    /\ MinInstances \in Nat \ {0} /\ MaxInstances \in Nat
    /\ MinInstances <= MaxInstances
    /\ MaxUses \in Nat /\ MaxFaults \in Nat
    /\ WarmFirst \in BOOLEAN

None == "none"
ASSUME NamesAssumption == IsFiniteSet(Callers) /\ None \notin Instances

VARIABLES
    idle,          \* LIFO stack of available instances
    live,          \* the pool's own instance count
    outstanding,   \* leases not returned
    closed, done,  \* closed flag; whether doneCh is closed
    open,          \* instances whose module is open
    uses, trapped, \* per instance: useCount, the poisoned ones
    pc, lease,     \* per caller: where it is, the instance it works with
    reaper,        \* [at, evicted, need, made]: one pass of reapOnce
    starter,       \* [at, need, made]: the Start call
    closer,        \* where Close is
    faults,
    owed,          \* history: what a failed Start took off live without having counted it
    belated        \* history: instances poisoned after their Return had decided

poolVars == <<idle, live, outstanding, closed, done>>
instVars == <<open, uses, trapped, belated>>
callVars == <<pc, lease>>
vars == <<poolVars, instVars, callVars, reaper, starter, closer, faults, owed>>

CallerAt == {"out", "trying", "late", "asleep", "creating", "holding",
             "released", "recycling", "restacking", "leaving"}
Resting == [at |-> "resting", evicted |-> {}, need |-> 0, made |-> <<>>]

\* Types.  live is an integer: its decrements are not guarded.
TypeOK ==
    /\ idle \in Seq(Instances) /\ live \in Int /\ outstanding \in Nat
    /\ closed \in BOOLEAN /\ done \in BOOLEAN
    /\ open \subseteq Instances /\ trapped \subseteq Instances
    /\ uses \in [Instances -> Nat]
    /\ pc \in [Callers -> CallerAt]
    /\ lease \in [Callers -> Instances \cup {None}]
    /\ reaper \in [at : {"resting", "closing", "refilling", "gone"}, evicted : SUBSET Instances,
                   need : Nat, made : Seq(Instances)]
    /\ starter \in [at : {"new", "warming", "finished"}, need : Nat, made : Seq(Instances)]
    /\ closer \in {"open", "flagged", "checking", "arming", "waiting", "draining", "closed", "gave up"}
    /\ faults \in 0 .. MaxFaults /\ owed \in Nat /\ belated \subseteq Instances

Init ==
    /\ idle = <<>> /\ live = 0 /\ outstanding = 0
    /\ closed = FALSE /\ done = FALSE
    /\ open = {} /\ trapped = {} /\ uses = [i \in Instances |-> 0]
    /\ pc = [c \in Callers |-> "out"]
    /\ lease = [c \in Callers |-> None]
    /\ reaper = Resting
    /\ starter = [at |-> "new", need |-> 0, made |-> <<>>]
    /\ closer = "open" /\ faults = 0 /\ owed = 0 /\ belated = {}

-----------------------------------------------------------------------------
(* Instances and the condition variable.                                   *)

Leased == {lease[c] : c \in Callers} \ {None}
Referenced ==
    open \cup ToSet(idle) \cup Leased \cup reaper.evicted \cup ToSet(reaper.made) \cup ToSet(starter.made)
Fresh == CHOOSE i \in Instances : i \notin Referenced

\* createInstance: a new open module, or a LoadModule error.
CreateInstance == Referenced # Instances /\ open' = open \cup {Fresh}
LoadFails == faults < MaxFaults /\ faults' = faults + 1

\* instance.close, and what becomes of the bookkeeping of the garbage it leaves.
CloseInstances(S) ==
    /\ open' = open \ S
    /\ trapped' = trapped \ S /\ belated' = belated \ S
    /\ uses' = [i \in Instances |-> IF i \in S THEN 0 ELSE uses[i]]

\* cond.Broadcast: every sleeper tries again.
Broadcast(q) == [c \in Callers |-> IF q[c] = "asleep" THEN "trying" ELSE q[c]]
\* cond.Signal: one sleeper, if there is one, tries again.
SignalNobody(q) == {q}
Signal(q) ==
    LET sleepers == {c \in Callers : q[c] = "asleep"} IN
    IF sleepers = {} THEN {q} ELSE {[q EXCEPT ![c] = "trying"] : c \in sleepers}

\* checkDrainComplete: a closed pool without leases lets Close go on.
DrainComplete == closed /\ outstanding = 0

-----------------------------------------------------------------------------
(* Checkout.                                                               *)

Checkout(c) ==
    /\ pc[c] = "out" /\ ~closed
    /\ WarmFirst => starter.at = "finished"
    /\ pc' = [pc EXCEPT ![c] = "trying"]
    /\ UNCHANGED <<poolVars, instVars, lease, reaper, starter, closer, faults, owed>>

\* In the wait loop; "late" once the context ended during the wait.
Trying(c) == pc[c] \in {"trying", "late"}

\* The loop found the pool closed, or nothing to take and its context over.
TryGivesUp(c) ==
    /\ Trying(c)
    /\ closed \/ (idle = <<>> /\ live >= MaxInstances)
    /\ pc' = [pc EXCEPT ![c] = "out"]
    /\ UNCHANGED <<poolVars, instVars, lease, reaper, starter, closer, faults, owed>>

TryPops(c) ==
    /\ Trying(c) /\ ~closed /\ idle # <<>>
    /\ lease' = [lease EXCEPT ![c] = Last(idle)]
    /\ idle' = Front(idle)
    /\ uses' = [uses EXCEPT ![Last(idle)] = @ + 1]
    /\ outstanding' = outstanding + 1
    /\ pc' = [pc EXCEPT ![c] = "holding"]
    /\ belated' = belated \ {Last(idle)}
    /\ UNCHANGED <<live, closed, done, open, trapped, reaper, starter, closer, faults, owed>>

\* Headroom: the slot is reserved before the lock is given up.
TryReserves(c) ==
    /\ Trying(c) /\ ~closed /\ idle = <<>> /\ live < MaxInstances
    /\ live' = live + 1
    /\ pc' = [pc EXCEPT ![c] = "creating"]
    /\ UNCHANGED <<idle, outstanding, closed, done, instVars, lease, reaper, starter, closer, faults, owed>>

TrySleeps(c) ==
    /\ pc[c] = "trying" /\ ~closed /\ idle = <<>> /\ live >= MaxInstances
    /\ pc' = [pc EXCEPT ![c] = "asleep"]
    /\ UNCHANGED <<poolVars, instVars, lease, reaper, starter, closer, faults, owed>>

\* The lazily created instance is leased, whatever happened to the pool meanwhile.
CreateSucceeds(c) ==
    /\ pc[c] = "creating" /\ CreateInstance
    /\ lease' = [lease EXCEPT ![c] = Fresh]
    /\ uses' = [uses EXCEPT ![Fresh] = 1]
    /\ outstanding' = outstanding + 1
    /\ pc' = [pc EXCEPT ![c] = "holding"]
    /\ UNCHANGED <<idle, live, closed, done, trapped, belated, reaper, starter, closer, faults, owed>>

\* The reservation is given back; nobody is woken.
CreateFailsKeepsSlot(c) ==
    /\ pc[c] = "creating" /\ LoadFails
    /\ pc' = [pc EXCEPT ![c] = "out"]
    /\ UNCHANGED <<poolVars, instVars, lease, reaper, starter, closer, owed>>
CreateFails(c) ==
    /\ pc[c] = "creating" /\ LoadFails
    /\ live' = live - 1
    /\ pc' = [pc EXCEPT ![c] = "out"]
    /\ UNCHANGED <<idle, outstanding, closed, done, instVars, lease, reaper, starter, closer, owed>>

\* The context of a sleeper ends and its watcher broadcasts.
CtxExpires(c) ==
    /\ pc[c] = "asleep"
    /\ pc' = Broadcast([pc EXCEPT ![c] = "late"])
    /\ UNCHANGED <<poolVars, instVars, lease, reaper, starter, closer, faults, owed>>

-----------------------------------------------------------------------------
(* Lease.MarkUnusable, Lease.Return.                                       *)

\* Whoever has, or once had, a lease of i may poison it: a Lease that was returned still
\* refers to its instance, which may be idle, with the reaper or leased again by then.
MarkUnusable(i) ==
    /\ i \in open /\ uses[i] > 0
    /\ trapped' = trapped \cup {i}
    /\ belated' = IF \E c \in Callers : lease[c] = i /\ pc[c] \in {"holding", "released"}
                  THEN belated ELSE belated \cup {i}
    /\ UNCHANGED <<poolVars, open, uses, callVars, reaper, starter, closer, faults, owed>>

ReturnTwice(c) ==
    /\ pc[c] \in {"holding", "released"}
    /\ outstanding' = outstanding - 1
    /\ pc' = [pc EXCEPT ![c] = "released"]
    /\ UNCHANGED <<idle, live, closed, done, instVars, lease, reaper, starter, closer, faults, owed>>
Return(c) ==
    /\ pc[c] = "holding"
    /\ outstanding' = outstanding - 1
    /\ pc' = [pc EXCEPT ![c] = "released"]
    /\ UNCHANGED <<idle, live, closed, done, instVars, lease, reaper, starter, closer, faults, owed>>

\* returnLease decides, reading closed; an instance to recycle is closed at once.
MustRecycleUncounted(i) == i \in trapped \/ closed
MustRecycle(i) == i \in trapped \/ (MaxUses > 0 /\ uses[i] >= MaxUses) \/ closed

ReturnDecides(c) ==
    /\ pc[c] = "released"
    /\ IF MustRecycle(lease[c])
       THEN /\ CloseInstances({lease[c]})
            /\ lease' = [lease EXCEPT ![c] = None]
            /\ pc' = [pc EXCEPT ![c] = "recycling"]
       ELSE /\ pc' = [pc EXCEPT ![c] = "restacking"]
            /\ UNCHANGED <<instVars, lease>>
    /\ UNCHANGED <<poolVars, reaper, starter, closer, faults, owed>>

ReturnRecycles(c) ==
    /\ pc[c] = "recycling"
    /\ live' = live - 1
    /\ pc' = Broadcast([pc EXCEPT ![c] = "leaving"])
    /\ UNCHANGED <<idle, outstanding, closed, done, instVars, lease, reaper, starter, closer, faults, owed>>

ReturnRestacks(c) ==
    /\ pc[c] = "restacking"
    /\ idle' = Append(idle, lease[c])
    /\ lease' = [lease EXCEPT ![c] = None]
    /\ pc' \in Signal([pc EXCEPT ![c] = "leaving"])
    /\ UNCHANGED <<live, outstanding, closed, done, instVars, reaper, starter, closer, faults, owed>>

ReturnEndsSilently(c) ==
    /\ pc[c] = "leaving"
    /\ pc' = [pc EXCEPT ![c] = "out"]
    /\ UNCHANGED <<poolVars, instVars, lease, reaper, starter, closer, faults, owed>>
ReturnEnds(c) ==
    /\ pc[c] = "leaving"
    /\ done' = (done \/ DrainComplete)
    /\ pc' = [pc EXCEPT ![c] = "out"]
    /\ UNCHANGED <<idle, live, outstanding, closed, instVars, lease, reaper, starter, closer, faults, owed>>

-----------------------------------------------------------------------------
(* reapOnce.                                                               *)

\* The elements of s that are not in gone, in their order.
Without(s, gone) ==
    LET kept  == {k \in DOMAIN s : s[k] \notin gone}
        at(n) == CHOOSE k \in kept : Cardinality({j \in kept : j <= k}) = n
    IN  [n \in 1 .. Cardinality(kept) |-> s[at(n)]]

\* Under the lock: idle instances that are too old go, the first-stacked ones first and
\* as many as MinInstances allows (any idle ones, age being a choice); missing ones are
\* reserved.
ReapEvicts ==
    /\ reaper.at = "resting" /\ ~closed
    /\ WarmFirst => starter.at = "finished"
    /\ \E evicted \in SUBSET ToSet(idle) :
        LET left == live - Cardinality(evicted)
            need == IF left < MinInstances THEN MinInstances - left ELSE 0
        IN  /\ evicted # {} => left >= MinInstances
            /\ evicted # {} \/ need > 0
            /\ idle' = Without(idle, evicted)
            /\ live' = left + need
            /\ reaper' = [at |-> "closing", evicted |-> evicted, need |-> need, made |-> <<>>]
    /\ UNCHANGED <<outstanding, closed, done, instVars, callVars, starter, closer, faults, owed>>

ReapCloses ==
    /\ reaper.at = "closing"
    /\ CloseInstances(reaper.evicted)
    /\ reaper' = [at |-> "refilling", evicted |-> {}, need |-> reaper.need, made |-> reaper.made]
    /\ UNCHANGED <<poolVars, callVars, starter, closer, faults, owed>>

RefillCreates ==
    /\ reaper.at = "refilling" /\ reaper.need > 0 /\ ~closed /\ CreateInstance
    /\ reaper' = [at |-> "refilling", evicted |-> {}, need |-> reaper.need - 1,
                  made |-> Append(reaper.made, Fresh)]
    /\ UNCHANGED <<poolVars, uses, trapped, belated, callVars, starter, closer, faults, owed>>

\* The error path gives back what is left of the reservation.
RefillFails ==
    /\ reaper.at = "refilling" /\ reaper.need > 0 /\ ~closed /\ LoadFails
    /\ live' = live - reaper.need
    /\ reaper' = [at |-> "refilling", evicted |-> {}, need |-> 0, made |-> reaper.made]
    /\ UNCHANGED <<idle, outstanding, closed, done, instVars, callVars, starter, closer, owed>>

\* Done, or stopped by Close with part of the reservation unused.
RefillEnds ==
    /\ reaper.at = "refilling" /\ (reaper.need = 0 \/ closed)
    /\ idle' = idle \o reaper.made
    /\ pc' = IF reaper.made = <<>> THEN pc ELSE Broadcast(pc)
    /\ reaper' = Resting
    /\ UNCHANGED <<live, outstanding, closed, done, instVars, lease, starter, closer, faults, owed>>

-----------------------------------------------------------------------------
(* Start.                                                                  *)

\* Start counts what is missing, then creates without the lock.
StartBegins ==
    /\ starter.at = "new" /\ ~closed
    /\ starter' = IF MinInstances > live
                  THEN [at |-> "warming", need |-> MinInstances - live, made |-> <<>>]
                  ELSE [at |-> "finished", need |-> 0, made |-> <<>>]
    /\ UNCHANGED <<poolVars, instVars, callVars, reaper, closer, faults, owed>>

StartCreates ==
    /\ starter.at = "warming" /\ Len(starter.made) < starter.need /\ CreateInstance
    /\ starter' = [at |-> "warming", need |-> starter.need, made |-> Append(starter.made, Fresh)]
    /\ UNCHANGED <<poolVars, uses, trapped, belated, callVars, reaper, closer, faults, owed>>

\* The roll-back takes the created instances off live, which never counted them.
StartFails ==
    /\ starter.at = "warming" /\ Len(starter.made) < starter.need /\ LoadFails
    /\ CloseInstances(ToSet(starter.made))
    /\ live' = live - Len(starter.made) /\ owed' = owed + Len(starter.made)
    /\ starter' = [at |-> "finished", need |-> 0, made |-> <<>>]
    /\ UNCHANGED <<idle, outstanding, closed, done, callVars, reaper, closer>>

StartEnds ==
    /\ starter.at = "warming" /\ Len(starter.made) = starter.need
    /\ idle' = idle \o starter.made
    /\ live' = live + Len(starter.made)
    /\ starter' = [at |-> "finished", need |-> 0, made |-> <<>>]
    /\ UNCHANGED <<outstanding, closed, done, instVars, callVars, reaper, closer, faults, owed>>

-----------------------------------------------------------------------------
(* Close.                                                                  *)

CloseBegins ==
    /\ closer = "open"
    /\ closed' = TRUE /\ closer' = "flagged"
    /\ UNCHANGED <<idle, live, outstanding, done, instVars, callVars, reaper, starter, faults, owed>>

\* The reaper is between passes and exits; then every sleeper is woken.
CloseStopsReaper ==
    /\ closer = "flagged" /\ reaper.at = "resting"
    /\ reaper' = [at |-> "gone", evicted |-> {}, need |-> 0, made |-> <<>>]
    /\ pc' = Broadcast(pc)
    /\ closer' = "checking"
    /\ UNCHANGED <<poolVars, instVars, lease, starter, faults, owed>>

CloseChecks ==
    /\ closer = "checking"
    /\ closer' = IF outstanding > 0 THEN "arming" ELSE "draining"
    /\ UNCHANGED <<poolVars, instVars, callVars, reaper, starter, faults, owed>>

\* Close itself looks once more; from then on it relies on the returning callers.
CloseArms ==
    /\ closer = "arming"
    /\ done' = (done \/ DrainComplete)
    /\ closer' = "waiting"
    /\ UNCHANGED <<idle, live, outstanding, closed, instVars, callVars, reaper, starter, faults, owed>>

\* doneCh, or the end of Close's own context.
CloseDrained ==
    /\ closer = "waiting" /\ done
    /\ closer' = "draining"
    /\ UNCHANGED <<poolVars, instVars, callVars, reaper, starter, faults, owed>>

CloseGivesUp ==
    /\ closer = "waiting"
    /\ closer' = "gave up"
    /\ UNCHANGED <<poolVars, instVars, callVars, reaper, starter, faults, owed>>

CloseDrainsKeepsStack ==
    /\ closer = "draining"
    /\ CloseInstances(ToSet(idle))
    /\ live' = 0
    /\ closer' = "closed"
    /\ UNCHANGED <<idle, outstanding, closed, done, callVars, reaper, starter, faults, owed>>
CloseDrains ==
    /\ closer = "draining"
    /\ CloseInstances(ToSet(idle))
    /\ idle' = <<>> /\ live' = 0
    /\ closer' = "closed"
    /\ UNCHANGED <<outstanding, closed, done, callVars, reaper, starter, faults, owed>>

-----------------------------------------------------------------------------
\* What a caller in the middle of Checkout or Return does next.
Goes(c) ==
    \/ TryGivesUp(c) \/ TryPops(c) \/ TryReserves(c) \/ TrySleeps(c)
    \/ CreateSucceeds(c) \/ CreateFails(c)
    \/ Return(c) \/ ReturnDecides(c) \/ ReturnRecycles(c) \/ ReturnRestacks(c) \/ ReturnEnds(c)

Caller(c) == Checkout(c) \/ Goes(c) \/ CtxExpires(c)
Reaper == ReapEvicts \/ ReapCloses \/ RefillCreates \/ RefillFails \/ RefillEnds
Starter == StartBegins \/ StartCreates \/ StartFails \/ StartEnds
Closer ==
    \/ CloseBegins \/ CloseStopsReaper \/ CloseChecks \/ CloseArms
    \/ CloseDrained \/ CloseGivesUp \/ CloseDrains

Next ==
    \/ \E c \in Callers : Caller(c)
    \/ \E i \in Instances : MarkUnusable(i)
    \/ Reaper \/ Starter \/ Closer
Spec == Init /\ [][Next]_vars

\* Goroutines run: a call goes on, the holder of a lease returns it (the package
\* demands it of its callers), a reaper pass and a Close under way proceed, a
\* context that ended is noticed.  Nobody has to call Checkout or Close, no context
\* has to end, and Close's own context never has to.
Fairness ==
    /\ \A c \in Callers : WF_vars(Goes(c))
    /\ WF_vars(ReapCloses \/ RefillCreates \/ RefillFails \/ RefillEnds)
    /\ WF_vars(StartCreates \/ StartFails \/ StartEnds)
    /\ WF_vars(CloseStopsReaper \/ CloseChecks \/ CloseArms \/ CloseDrained \/ CloseDrains)
FairSpec == Spec /\ Fairness

-----------------------------------------------------------------------------
(* Properties.                                                             *)

Holding(c) == pc[c] \in {"holding", "released", "restacking"}

\* An instance is in one place: on the idle stack once, with one caller, with the
\* reaper or with Start; and wherever it can still be called its module is open, so
\* no Checkout hands out a module that a Return, the reaper or Close has shut.
OnePlace ==
    /\ IsInjective(idle) /\ IsInjective(reaper.made) /\ IsInjective(starter.made)
    /\ ToSet(idle) \cap ToSet(reaper.made) = {}
    /\ (ToSet(idle) \cup ToSet(reaper.made)) \cap ToSet(starter.made) = {}
    /\ \A c \in Callers : Holding(c) <=> lease[c] # None
    /\ \A c, d \in Callers : c # d /\ lease[c] # None => lease[c] # lease[d]
    /\ LET stacked == ToSet(idle) \cup ToSet(reaper.made) \cup ToSet(starter.made) IN
        /\ stacked \cap Leased = {} /\ (stacked \cup Leased) \cap reaper.evicted = {}
        /\ stacked \cup Leased \subseteq open

\* An instance poisoned before its Return decided, or at MaxUsesPerInstance, never
\* re-enters rotation, and no caller works with an instance past its cap.  A stacked
\* instance that is poisoned was so by a MarkUnusable after that Return, which
\* instance.go:157-159 says has no effect: it goes out once more, to a caller whose
\* Return then recycles it.
NoReuse ==
    /\ ToSet(idle) \cap trapped \subseteq belated
    /\ \A c \in Callers : pc[c] = "restacking" /\ lease[c] \in trapped => lease[c] \in belated
    /\ MaxUses > 0 => /\ \A i \in ToSet(idle) : uses[i] < MaxUses
                      /\ \A i \in Leased : uses[i] <= MaxUses

\* The slots live stands for: what is stacked, leased or being given back, created
\* or reserved.  Start's instances are not counted before it ends.
Slots ==
    Len(idle) + Cardinality({c \in Callers : Holding(c) \/ pc[c] \in {"creating", "recycling"}})
    + Len(reaper.made) + reaper.need

\* "MaxInstances is the upper bound on live instances": no more modules are open than
\* that, but for those the reaper evicted and is about to close, those Start made and has
\* not handed over, and those a failed Start took off live although they never counted.
AtMostMaxOpen ==
    Cardinality(open) <= MaxInstances + owed + Cardinality(reaper.evicted) + Len(starter.made)

\* Until Close drains the pool, live is the number of slots (no fewer, once Close cut a
\* refill short) and within MaxInstances, and so are the open modules, although slots
\* are reserved, filled, given back and evicted by goroutines outside the lock: all of it
\* but for what a failed Start still owes.  (After Close reset live, a late Return still
\* decrements it.)
CapRespected ==
    closer # "closed" =>
        /\ live + owed = Slots \/ (closed /\ live + owed >= Slots)
        /\ live <= MaxInstances
        /\ AtMostMaxOpen

\* A Close under way ends once the leases come back: the last Return, or Close
\* itself, sees outstanding at zero, whatever the order of their reads.
CloseEnds == closed ~> closer \in {"closed", "gave up"}

\* No Checkout is stranded: while one sleeps, another goroutine is at work on the
\* pool and will wake it when it ends, or the pool is below MinInstances, so that the
\* reaper's next pass refills it and wakes every sleeper.  The failed creation that
\* gives its slot back without waking anybody is safe only through this.
NoStranding ==
    (\E c \in Callers : pc[c] = "asleep") /\ ~closed =>
        \/ \E c \in Callers : pc[c] \notin {"out", "asleep", "leaving"}
        \/ reaper.at \in {"closing", "refilling"} \/ starter.at = "warming"
        \/ live < MinInstances
=============================================================================
