-------------------------- MODULE PluginLifecycle --------------------------
(***************************************************************************)
(* packages/go/plugins/lifecycle: the Manager that moves the row of one    *)
(* plugin through its states (manager.go), the circuit breaker that shuts  *)
(* a crashing plugin off (breaker.go), and the conditional UPDATE that     *)
(* orders concurrent callers (postgres.go).  The Manager holds no lock:    *)
(* every storage call, every runtime call and every breaker call is one    *)
(* step, and calls of other goroutines run in between.                     *)
(*                                                                         *)
(* One slug, one process.  The WASM runtime is external: Load adds the     *)
(* module of the row it is given, Unload drops whatever the slug has.  A   *)
(* call that fails (in storage, its effect may have happened or not) and a *)
(* crash of the process spend one unit of MaxMishaps.                      *)
(***************************************************************************)
EXTENDS Integers, FiniteSets

CONSTANTS
    Callers,      \* goroutines that call the Manager
    MaxTrips,     \* BreakerConfig.MaxTrips
    MaxInstalls,  \* bound: rows ever inserted for the slug
    MaxMishaps    \* bound: failures in a behaviour

ASSUME BreakerAssumption == MaxTrips \in Nat \ {0}
ASSUME BoundsAssumption == MaxInstalls \in Nat /\ MaxMishaps \in Nat

VARIABLES
    state,        \* Plugin.State, or "absent" without a row
    version,      \* which install the row (or the last row) stems from
    lastError,    \* whether the row carries a LastError
    loaded,       \* installs whose module is in the runtime
    trips,        \* trips in the breaker's window, counted up to MaxTrips
    open,         \* bucket.open
    call,         \* call[c]: where c is in the Manager, and the row it read
    leaked,       \* whether an Unload ever failed
    mishaps

rowVars == <<state, version, lastError>>
breakerVars == <<trips, open>>
vars == <<rowVars, loaded, breakerVars, call, leaked, mishaps>>

State == {"installed", "active", "inactive", "pending_uninstall", "errored"}
At == {"idle", "migrate", "gate", "load", "activate", "undo", "unload", "deactivate",
       "running", "tripped", "pend", "teardown", "delete", "reset", "rearm", "park"}
Call == [at : At, seen : State \cup {"absent"}, ver : 0 .. MaxInstalls]
Idle == [at |-> "idle", seen |-> "absent", ver |-> 0]

\* Row, runtime, breaker and calls have their types.
TypeOK ==
    /\ state \in State \cup {"absent"}
    /\ version \in 0 .. MaxInstalls
    /\ lastError \in BOOLEAN
    /\ loaded \in SUBSET (0 .. MaxInstalls)
    /\ trips \in 0 .. MaxTrips /\ open \in BOOLEAN
    /\ call \in [Callers -> Call]
    /\ leaked \in BOOLEAN
    /\ mishaps \in 0 .. MaxMishaps
    /\ (version = 0) => (state = "absent")

Init ==
    /\ state = "absent" /\ version = 0 /\ lastError = FALSE
    /\ loaded = {}
    /\ trips = 0 /\ open = FALSE
    /\ call = [c \in Callers |-> Idle]
    /\ leaked = FALSE
    /\ mishaps = 0

Mishap == mishaps < MaxMishaps /\ mishaps' = mishaps + 1
NoMishap == UNCHANGED mishaps

-----------------------------------------------------------------------------
(* Steps of a call.                                                        *)

IsAt(c, where) == call[c].at = where
Goto(c, where) == call' = [call EXCEPT ![c].at = where]
Return(c) == call' = [call EXCEPT ![c] = Idle]

\* Storage.Get: the call goes on with a snapshot of the row.
Read(c, states, where) ==
    /\ state \in states
    /\ call' = [call EXCEPT ![c] = [at |-> where, seen |-> state, ver |-> version]]

\* Storage.UpdateState: applied only to a row that is still in the state the
\* caller expects.  The new row keeps or replaces LastError.
CasBlind(c, to, err) ==
    /\ state # "absent"
    /\ state' = to /\ lastError' = err
    /\ UNCHANGED version
Cas(c, to, err) ==
    /\ state = call[c].seen
    /\ state' = to /\ lastError' = err
    /\ UNCHANGED version
CasLost(c) == state # call[c].seen /\ UNCHANGED rowVars

\* A storage error: nobody knows whether the update happened.
CasFailed(c, to, err) ==
    /\ Mishap
    /\ Cas(c, to, err) \/ UNCHANGED rowVars

Unload == loaded' = {} /\ UNCHANGED leaked /\ NoMishap
UnloadFails == Mishap /\ leaked' = TRUE /\ (UNCHANGED loaded \/ loaded' = {})

\* Manager.parkErrored.  A lost CAS is logged.
Park(c) ==
    /\ IsAt(c, "park")
    /\ \/ (Cas(c, "errored", TRUE) \/ CasLost(c)) /\ NoMishap
       \/ CasFailed(c, "errored", TRUE)
    /\ Return(c)
    /\ UNCHANGED <<loaded, breakerVars, leaked>>

-----------------------------------------------------------------------------
(* Install.                                                                *)

InsertRowUnversioned ==
    /\ state = "absent" /\ version < MaxInstalls
    /\ state' = "installed" /\ lastError' = FALSE /\ UNCHANGED version
InsertRow ==
    /\ state = "absent" /\ version < MaxInstalls
    /\ state' = "installed" /\ version' = version + 1 /\ lastError' = FALSE

Install(c) ==
    /\ IsAt(c, "idle")
    /\ InsertRow
    /\ call' = [call EXCEPT ![c] =
                    [at |-> "migrate", seen |-> "installed", ver |-> version + 1]]
    /\ UNCHANGED <<loaded, breakerVars, leaked, mishaps>>

\* The row is inserted but the caller is told otherwise.
InstallError(c) ==
    /\ IsAt(c, "idle")
    /\ Mishap
    /\ InsertRow
    /\ UNCHANGED <<loaded, breakerVars, call, leaked>>

MigrateUp(c) ==
    /\ IsAt(c, "migrate")
    /\ \/ NoMishap /\ Return(c)
       \/ Mishap /\ Goto(c, "park")
    /\ UNCHANGED <<rowVars, loaded, breakerVars, leaked>>

-----------------------------------------------------------------------------
(* Activate.                                                               *)

ActivateRead(c) ==
    /\ IsAt(c, "idle")
    /\ Read(c, {"installed", "inactive"}, "gate")
    /\ UNCHANGED <<rowVars, loaded, breakerVars, leaked, mishaps>>

\* An open breaker refuses, and so may the dependency gate.
Gate(c) ==
    /\ IsAt(c, "gate")
    /\ \/ ~open /\ Goto(c, "load")
       \/ Return(c)
    /\ UNCHANGED <<rowVars, loaded, breakerVars, leaked, mishaps>>

Load(c) ==
    /\ IsAt(c, "load")
    /\ \/ loaded' = loaded \cup {call[c].ver} /\ Goto(c, "activate") /\ NoMishap
       \/ UNCHANGED loaded /\ Goto(c, "park") /\ Mishap
    /\ UNCHANGED <<rowVars, breakerVars, leaked>>

ActivateCommitKeepsModule(c) ==
    /\ IsAt(c, "activate")
    /\ \/ Cas(c, "active", FALSE) /\ NoMishap
       \/ CasLost(c) /\ NoMishap
       \/ CasFailed(c, "active", FALSE)
    /\ Return(c)
    /\ UNCHANGED <<loaded, breakerVars, leaked>>
ActivateCommit(c) ==
    /\ IsAt(c, "activate")
    /\ \/ Cas(c, "active", FALSE) /\ Return(c) /\ NoMishap
       \/ CasLost(c) /\ Goto(c, "undo") /\ NoMishap
       \/ CasFailed(c, "active", FALSE) /\ Goto(c, "undo")
    /\ UNCHANGED <<loaded, breakerVars, leaked>>

ActivateUndo(c) ==
    /\ IsAt(c, "undo")
    /\ Unload \/ UnloadFails
    /\ Return(c)
    /\ UNCHANGED <<rowVars, breakerVars>>

-----------------------------------------------------------------------------
(* Deactivate, and the breaker's Trip, which ends the same way.            *)

DeactivateRead(c) ==
    /\ IsAt(c, "idle")
    /\ Read(c, {"active"}, "unload")
    /\ UNCHANGED <<rowVars, loaded, breakerVars, leaked, mishaps>>

\* A hook or export of the Active plugin is invoked and is going to fail.
Invoke(c) ==
    /\ IsAt(c, "idle") /\ state = "active" /\ loaded # {}
    /\ Goto(c, "running")
    /\ UNCHANGED <<rowVars, loaded, breakerVars, leaked, mishaps>>

\* Breaker.Trip: some of the earlier trips have aged out of the window.  Only
\* the trip that opens the breaker goes on.
Trip(c) ==
    /\ IsAt(c, "running")
    /\ \E kept \in 0 .. trips :
        LET n == IF kept < MaxTrips THEN kept + 1 ELSE MaxTrips IN
        /\ trips' = n
        /\ open' = (open \/ n >= MaxTrips)
        /\ IF ~open /\ n >= MaxTrips THEN Goto(c, "tripped") ELSE Return(c)
    /\ UNCHANGED <<rowVars, loaded, leaked, mishaps>>

\* A failed read ends the call like a missing row does: the breaker stays open.
TripRead(c) ==
    /\ IsAt(c, "tripped")
    /\ \/ Read(c, {"active"}, "unload") /\ NoMishap
       \/ state # "active" /\ Return(c) /\ NoMishap
       \/ Mishap /\ Return(c)
    /\ UNCHANGED <<rowVars, loaded, breakerVars, leaked>>

DeactivateUnload(c) ==
    /\ IsAt(c, "unload")
    /\ \/ Unload /\ Goto(c, "deactivate")
       \/ UnloadFails /\ Goto(c, "park")
    /\ UNCHANGED <<rowVars, breakerVars>>

DeactivateCommit(c) ==
    /\ IsAt(c, "deactivate")
    /\ \/ (Cas(c, "inactive", lastError) \/ CasLost(c)) /\ NoMishap
       \/ CasFailed(c, "inactive", lastError)
    /\ Return(c)
    /\ UNCHANGED <<loaded, breakerVars, leaked>>

-----------------------------------------------------------------------------
(* Uninstall.                                                              *)

UninstallRead(c) ==
    /\ IsAt(c, "idle")
    /\ Read(c, {"inactive", "errored"}, "pend")
    /\ UNCHANGED <<rowVars, loaded, breakerVars, leaked, mishaps>>

UninstallPend(c) ==
    /\ IsAt(c, "pend")
    /\ \/ /\ Cas(c, "pending_uninstall", lastError)
          /\ Goto(c, "teardown") /\ NoMishap
       \/ CasLost(c) /\ Return(c) /\ NoMishap
       \/ CasFailed(c, "pending_uninstall", lastError) /\ Return(c)
    /\ UNCHANGED <<loaded, breakerVars, leaked>>

\* Unload, and the down-migrations when removeData is set: errors of both are
\* logged.
UninstallTeardown(c) ==
    /\ IsAt(c, "teardown")
    /\ Unload \/ UnloadFails
    /\ Goto(c, "delete")
    /\ UNCHANGED <<rowVars, breakerVars>>

\* Storage.Delete looks at the slug only.
DeleteRow == state' = "absent" /\ lastError' = FALSE /\ UNCHANGED version

UninstallDelete(c) ==
    /\ IsAt(c, "delete")
    /\ \/ DeleteRow /\ NoMishap
       \/ Mishap /\ (DeleteRow \/ UNCHANGED rowVars)
    /\ Return(c)
    /\ UNCHANGED <<loaded, breakerVars, leaked>>

-----------------------------------------------------------------------------
(* Reset.                                                                  *)

ResetRead(c) ==
    /\ IsAt(c, "idle")
    /\ Read(c, {"errored"}, "reset")
    /\ UNCHANGED <<rowVars, loaded, breakerVars, leaked, mishaps>>

ResetCommitKeepsError(c) ==
    /\ IsAt(c, "reset")
    /\ \/ Cas(c, "inactive", lastError) /\ Goto(c, "rearm") /\ NoMishap
       \/ CasLost(c) /\ Return(c) /\ NoMishap
       \/ CasFailed(c, "inactive", lastError) /\ Return(c)
    /\ UNCHANGED <<loaded, breakerVars, leaked>>
ResetCommit(c) ==
    /\ IsAt(c, "reset")
    /\ \/ Cas(c, "inactive", FALSE) /\ Goto(c, "rearm") /\ NoMishap
       \/ CasLost(c) /\ Return(c) /\ NoMishap
       \/ CasFailed(c, "inactive", FALSE) /\ Return(c)
    /\ UNCHANGED <<loaded, breakerVars, leaked>>

CloseBreaker == trips' = 0 /\ open' = FALSE

ResetRearm(c) ==
    /\ IsAt(c, "rearm")
    /\ CloseBreaker
    /\ Return(c)
    /\ UNCHANGED <<rowVars, loaded, leaked, mishaps>>

\* Manager.ResetBreaker: the operator's gesture.
ResetBreaker ==
    /\ trips > 0
    /\ CloseBreaker
    /\ UNCHANGED <<rowVars, loaded, call, leaked, mishaps>>

\* The process dies: calls, modules and breaker are gone, the row stays.
Crash ==
    /\ Mishap
    /\ call' = [c \in Callers |-> Idle]
    /\ loaded' = {}
    /\ CloseBreaker
    /\ UNCHANGED <<rowVars, leaked>>

-----------------------------------------------------------------------------

Manager(c) ==
    \/ Install(c) \/ InstallError(c) \/ MigrateUp(c)
    \/ ActivateRead(c) \/ Gate(c) \/ Load(c) \/ ActivateCommit(c) \/ ActivateUndo(c)
    \/ DeactivateRead(c) \/ DeactivateUnload(c) \/ DeactivateCommit(c)
    \/ Invoke(c) \/ Trip(c) \/ TripRead(c)
    \/ UninstallRead(c) \/ UninstallPend(c) \/ UninstallTeardown(c) \/ UninstallDelete(c)
    \/ ResetRead(c) \/ ResetCommit(c) \/ ResetRearm(c)
    \/ Park(c)

Next == (\E c \in Callers : Manager(c)) \/ ResetBreaker \/ Crash

Spec == Init /\ [][Next]_vars

-----------------------------------------------------------------------------
(* What the state machine promises.                                        *)

Quiet == \A c \in Callers : IsAt(c, "idle")

\* Uninstall tears down the row it moved to pending_uninstall and no other one:
\* from that move to the DELETE, which has no state guard, the row stays in
\* pending_uninstall and nobody else is tearing it down.
TearingDown(c) == call[c].at \in {"teardown", "delete"}
TeardownOwnsRow ==
    \A c \in Callers : TearingDown(c) =>
        /\ state = "pending_uninstall"
        /\ \A d \in Callers : TearingDown(d) => d = c

\* However calls interleave and fail, the row makes only the moves of the Manager's
\* methods, each from the state its method accepts although that was read earlier.  They
\* are not quite those of the documentation: Uninstall takes an Errored row as well, where
\* state.go:39-42 has Reset as "the only path out", and a row whose uninstall failed stays
\* in pending_uninstall, which no method accepts, where state.go:33-36 has it "left in
\* Errored for operator inspection" (doc.go:46 likewise).
RowMoves ==
    [][state' # state => <<state, state'>> \in
        {<<"absent", "installed">>, <<"installed", "active">>, <<"installed", "errored">>,
         <<"active", "inactive">>, <<"active", "errored">>, <<"inactive", "active">>,
         <<"inactive", "errored">>, <<"inactive", "pending_uninstall">>,
         <<"errored", "inactive">>, <<"errored", "pending_uninstall">>,
         <<"pending_uninstall", "absent">>}]_vars

\* A row has a LastError exactly while it is Errored (or torn down from there),
\* across resets, failed parks and reinstalls.
ErrorRecorded ==
    /\ state = "errored" => lastError
    /\ state \in {"installed", "active", "inactive"} => ~lastError

\* An uninstalled plugin leaves nothing behind: once all calls have returned and
\* the row is gone, no module of it is loaded, unless an Unload failed.  An
\* Activate that overlaps the teardown unloads what it loaded.
NothingOutlivesUninstall == Quiet /\ ~leaked /\ state = "absent" => loaded = {}

-----------------------------------------------------------------------------
(* What a comment of Activate says, see the violation run.                 *)

\* "The winning caller's row is now authoritative": when all calls have
\* returned and nothing failed, an Active plugin is loaded.
ActiveIsLoaded == Quiet /\ mishaps = 0 /\ state = "active" => loaded # {}
=============================================================================
