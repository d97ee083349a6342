---------------------------- MODULE PluginProofs ----------------------------
(***************************************************************************)
(* Proofs about PluginLifecycle for any number of concurrent callers,      *)
(* installs and failures.  Everything rests on SeenInv: the state a call   *)
(* has read, which its conditional UPDATE compares with, is one its        *)
(* operation accepts.                                                      *)
(***************************************************************************)
EXTENDS PluginLifecycle, TLAPS

\* What a call may have read, by where it is.
SeenInv ==
    \A c \in Callers :
        /\ call[c].at \in {"gate", "load", "activate"} => call[c].seen \in {"installed", "inactive"}
        /\ call[c].at \in {"unload", "deactivate"} => call[c].seen = "active"
        /\ call[c].at = "pend" => call[c].seen \in {"inactive", "errored"}
        /\ call[c].at = "reset" => call[c].seen = "errored"
        /\ call[c].at = "migrate" => call[c].seen = "installed"
        /\ call[c].at = "park" => call[c].seen \in {"installed", "inactive", "active"}

-----------------------------------------------------------------------------
(* Calls.                                                                  *)

\* The ways in which a step changes a call keep its type.
LEMMA CallType ==
    ASSUME TypeOK, NEW c \in Callers,
           \/ Return(c)
           \/ \E where \in At : Goto(c, where)
           \/ \E states \in SUBSET (State \cup {"absent"}), where \in At : Read(c, states, where)
    PROVE  call' \in [Callers -> Call]
<1>1. call \in [Callers -> Call] /\ call[c] \in Call  BY DEF TypeOK
<1>2. CASE Return(c)
  <2>1. Idle \in Call  BY BoundsAssumption DEF Idle, Call, At
  <2> QED BY <1>1, <1>2, <2>1 DEF Return
<1>3. ASSUME NEW where \in At, Goto(c, where) PROVE call' \in [Callers -> Call]
  <2>1. [call[c] EXCEPT !.at = where] \in Call  BY <1>1 DEF Call
  <2> QED BY <1>1, <1>3, <2>1 DEF Goto
<1>4. ASSUME NEW where \in At, NEW states, Read(c, states, where)
      PROVE  call' \in [Callers -> Call]
  <2>1. [at |-> where, seen |-> state, ver |-> version] \in Call  BY DEF TypeOK, Call
  <2> QED BY <1>1, <1>4, <2>1 DEF Read
<1> QED BY <1>2, <1>3, <1>4

\* Every step keeps the calls well-formed.
LEMMA CallStep == ASSUME TypeOK, [Next]_vars PROVE call' \in [Callers -> Call]
<1>0. call \in [Callers -> Call]  BY DEF TypeOK
<1>1. ASSUME NEW c \in Callers, Install(c) \/ InstallError(c) PROVE call' \in [Callers -> Call]
  <2>1. InsertRow => [at |-> "migrate", seen |-> "installed", ver |-> version + 1] \in Call
    BY BoundsAssumption DEF TypeOK, InsertRow, Call, At, State
  <2> QED BY <1>0, <1>1, <2>1 DEF Install, InstallError
<1>2. ASSUME NEW c \in Callers,
             \/ MigrateUp(c) \/ ActivateRead(c) \/ Gate(c) \/ DeactivateRead(c) \/ Invoke(c)
             \/ TripRead(c) \/ UninstallRead(c) \/ ResetRead(c) \/ Load(c) \/ ResetRearm(c)
      PROVE  call' \in [Callers -> Call]
  BY <1>2, CallType
  DEF MigrateUp, ActivateRead, Gate, DeactivateRead, Invoke, TripRead, UninstallRead,
      ResetRead, Load, ResetRearm, At, State
<1>3. ASSUME NEW c \in Callers,
             \/ ActivateCommit(c) \/ ActivateUndo(c) \/ DeactivateUnload(c) \/ DeactivateCommit(c)
             \/ UninstallPend(c) \/ UninstallTeardown(c) \/ UninstallDelete(c)
             \/ ResetCommit(c) \/ Park(c)
      PROVE  call' \in [Callers -> Call]
  BY <1>3, CallType
  DEF ActivateCommit, ActivateUndo, DeactivateUnload, DeactivateCommit, UninstallPend,
      UninstallTeardown, UninstallDelete, ResetCommit, Park, At
<1>4. ASSUME NEW c \in Callers, Trip(c) PROVE call' \in [Callers -> Call]
  <2>1. Goto(c, "tripped") \/ Return(c)  BY <1>4 DEF Trip
  <2> QED BY <2>1, CallType DEF At
<1>5. ASSUME Crash PROVE call' \in [Callers -> Call]
  <2>1. Idle \in Call  BY BoundsAssumption DEF Idle, Call, At
  <2> QED BY <1>5, <2>1 DEF Crash
<1>6. CASE ResetBreaker \/ UNCHANGED vars  BY <1>0, <1>6 DEF ResetBreaker, vars
<1> QED BY <1>1, <1>2, <1>3, <1>4, <1>5, <1>6 DEF Next, Manager

\* A call that is not the one stepping keeps its place and what it read.
LEMMA SeenStep == ASSUME TypeOK, SeenInv, [Next]_vars PROVE SeenInv'
<1> USE DEF TypeOK, SeenInv, IsAt, Goto, Return, Read, Idle, Call
<1>1. ASSUME NEW c \in Callers, Install(c) \/ InstallError(c) PROVE SeenInv'
  BY <1>1 DEF Install, InstallError
<1>2. ASSUME NEW c \in Callers, MigrateUp(c) \/ Gate(c) \/ Load(c) PROVE SeenInv'
  BY <1>2 DEF MigrateUp, Gate, Load
<1>3. ASSUME NEW c \in Callers,
             ActivateRead(c) \/ DeactivateRead(c) \/ UninstallRead(c) \/ ResetRead(c) \/ TripRead(c)
      PROVE SeenInv'
  <2>1. CASE ActivateRead(c)  BY <2>1 DEF ActivateRead
  <2>2. CASE DeactivateRead(c) \/ TripRead(c)  BY <2>2 DEF DeactivateRead, TripRead
  <2>3. CASE UninstallRead(c)  BY <2>3 DEF UninstallRead
  <2>4. CASE ResetRead(c)  BY <2>4 DEF ResetRead
  <2> QED BY <1>3, <2>1, <2>2, <2>3, <2>4
<1>4. ASSUME NEW c \in Callers, ActivateCommit(c) \/ ActivateUndo(c) PROVE SeenInv'
  <2>1. Goto(c, "undo") \/ Return(c)  BY <1>4 DEF ActivateCommit, ActivateUndo
  <2> QED BY <2>1
<1>5. ASSUME NEW c \in Callers, DeactivateUnload(c) \/ DeactivateCommit(c) PROVE SeenInv'
  BY <1>5 DEF DeactivateUnload, DeactivateCommit
<1>6. ASSUME NEW c \in Callers, Invoke(c) \/ Trip(c) PROVE SeenInv'
  <2>1. Goto(c, "running") \/ Goto(c, "tripped") \/ Return(c)  BY <1>6 DEF Invoke, Trip
  <2> QED BY <2>1
<1>7. ASSUME NEW c \in Callers, UninstallPend(c) \/ UninstallTeardown(c) \/ UninstallDelete(c)
      PROVE SeenInv'
  <2>1. Goto(c, "teardown") \/ Goto(c, "delete") \/ Return(c)
    BY <1>7 DEF UninstallPend, UninstallTeardown, UninstallDelete
  <2> QED BY <2>1
<1>8. ASSUME NEW c \in Callers, ResetCommit(c) \/ ResetRearm(c) \/ Park(c) PROVE SeenInv'
  <2>1. Goto(c, "rearm") \/ Return(c)  BY <1>8 DEF ResetCommit, ResetRearm, Park
  <2> QED BY <2>1
<1>9. ASSUME Crash PROVE SeenInv'  BY <1>9 DEF Crash
<1>10. CASE ResetBreaker \/ UNCHANGED vars  BY <1>10 DEF ResetBreaker, vars
<1> QED
  BY <1>1, <1>2, <1>3, <1>4, <1>5, <1>6, <1>7, <1>8, <1>9, <1>10 DEF Next, Manager

-----------------------------------------------------------------------------
(* The row.                                                                *)

\* All that a step ever does to the row.
Move ==
    \/ UNCHANGED rowVars
    \/ /\ state = "absent" /\ state' = "installed" /\ lastError' = FALSE
       /\ version < MaxInstalls /\ version' = version + 1
    \/ /\ UNCHANGED version
       /\ \/ state \in {"installed", "inactive"} /\ state' = "active" /\ lastError' = FALSE
          \/ state \in {"installed", "inactive", "active"} /\ state' = "errored" /\ lastError' = TRUE
          \/ state = "active" /\ state' = "inactive" /\ lastError' = lastError
          \/ state \in {"inactive", "errored"} /\ state' = "pending_uninstall" /\ lastError' = lastError
          \/ state = "errored" /\ state' = "inactive" /\ lastError' = FALSE
          \/ state = "pending_uninstall" /\ state' = "absent" /\ lastError' = FALSE

\* Every step of every operation is one of these moves.
LEMMA EachStepMoves ==
    ASSUME TypeOK, SeenInv, TeardownOwnsRow, [Next]_vars PROVE Move
<1> USE DEF Move, SeenInv, IsAt, Cas, CasLost, CasFailed, rowVars
<1>1. ASSUME NEW c \in Callers, Install(c) \/ InstallError(c) PROVE Move
  BY <1>1 DEF Install, InstallError, InsertRow
<1>2. ASSUME NEW c \in Callers, ActivateCommit(c) PROVE Move  BY <1>2 DEF ActivateCommit
<1>3. ASSUME NEW c \in Callers, DeactivateCommit(c) PROVE Move  BY <1>3 DEF DeactivateCommit
<1>4. ASSUME NEW c \in Callers, UninstallPend(c) PROVE Move  BY <1>4 DEF UninstallPend
<1>5. ASSUME NEW c \in Callers, UninstallDelete(c) PROVE Move
  BY <1>5 DEF UninstallDelete, DeleteRow, TeardownOwnsRow, TearingDown
<1>6. ASSUME NEW c \in Callers, ResetCommit(c) PROVE Move  BY <1>6 DEF ResetCommit
<1>7. ASSUME NEW c \in Callers, Park(c) PROVE Move  BY <1>7 DEF Park
<1>8. CASE UNCHANGED rowVars  BY <1>8
<1> QED
  BY <1>1, <1>2, <1>3, <1>4, <1>5, <1>6, <1>7, <1>8
  DEF Next, Manager, vars, MigrateUp, ActivateRead, Gate, Load, ActivateUndo, DeactivateRead,
      DeactivateUnload, Invoke, Trip, TripRead, UninstallRead, UninstallTeardown, ResetRead,
      ResetRearm, ResetBreaker, Crash

\* Every step keeps the types.
LEMMA TypeStep ==
    ASSUME TypeOK, SeenInv, TeardownOwnsRow, [Next]_vars PROVE TypeOK'
<1> USE BreakerAssumption, BoundsAssumption DEF rowVars, breakerVars
<1>1. call' \in [Callers -> Call]  BY CallStep
<1>2. /\ state' \in State \cup {"absent"} /\ version' \in 0 .. MaxInstalls
      /\ (version' = 0) => (state' = "absent")
  <2>1. \/ UNCHANGED <<state, version>>
        \/ state' = "installed" /\ version < MaxInstalls /\ version' = version + 1
        \/ /\ UNCHANGED version /\ state # "absent"
           /\ state' \in {"active", "errored", "inactive", "pending_uninstall", "absent"}
    <3>1. Move  BY EachStepMoves
    <3> QED BY <3>1 DEF Move
  <2>2. state \in State \cup {"absent"} /\ version \in 0 .. MaxInstalls
    BY DEF TypeOK
  <2>3. (version = 0) => (state = "absent")  BY DEF TypeOK
  <2> QED BY <2>1, <2>2, <2>3 DEF State
<1>3. lastError' \in BOOLEAN
  <2>1. lastError \in BOOLEAN  BY DEF TypeOK
  <2>2. lastError' \in {lastError, TRUE, FALSE}  BY EachStepMoves, Zenon DEF Move
  <2> QED BY <2>1, <2>2
<1>4. mishaps' = mishaps \/ Mishap
  BY DEF Next, Manager, vars, Install, InstallError, MigrateUp, ActivateRead, Gate, Load,
         ActivateCommit, ActivateUndo, DeactivateRead, DeactivateUnload, DeactivateCommit,
         Invoke, Trip, TripRead, UninstallRead, UninstallPend, UninstallTeardown,
         UninstallDelete, ResetRead, ResetCommit, ResetRearm, ResetBreaker, Crash, Park,
         CasFailed, Unload, UnloadFails, NoMishap
<1>5. mishaps' \in 0 .. MaxMishaps  BY <1>4 DEF TypeOK, Mishap
<1>6. \/ UNCHANGED loaded \/ loaded' = {}
      \/ \E c \in Callers : loaded' = loaded \cup {call[c].ver}
  BY DEF Next, Manager, vars, Install, InstallError, MigrateUp, ActivateRead, Gate, Load,
         ActivateCommit, ActivateUndo, DeactivateRead, DeactivateUnload, DeactivateCommit,
         Invoke, Trip, TripRead, UninstallRead, UninstallPend, UninstallTeardown,
         UninstallDelete, ResetRead, ResetCommit, ResetRearm, ResetBreaker, Crash, Park,
         Unload, UnloadFails
<1>7. loaded' \in SUBSET (0 .. MaxInstalls)
  <2>1. \A c \in Callers : call[c].ver \in 0 .. MaxInstalls  BY DEF TypeOK, Call
  <2>2. loaded \in SUBSET (0 .. MaxInstalls)  BY DEF TypeOK
  <2>3. ASSUME NEW c \in Callers, loaded' = loaded \cup {call[c].ver}
        PROVE  loaded' \in SUBSET (0 .. MaxInstalls)
    BY <2>1, <2>2, <2>3
  <2>4. CASE UNCHANGED loaded \/ loaded' = {}  BY <2>2, <2>4
  <2> QED BY <1>6, <2>3, <2>4
<1>8. leaked' \in {leaked, TRUE}
  BY Zenon DEF Next, Manager, vars, Install, InstallError, MigrateUp, ActivateRead, Gate, Load,
         ActivateCommit, ActivateUndo, DeactivateRead, DeactivateUnload, DeactivateCommit,
         Invoke, Trip, TripRead, UninstallRead, UninstallPend, UninstallTeardown,
         UninstallDelete, ResetRead, ResetCommit, ResetRearm, ResetBreaker, Crash, Park,
         Unload, UnloadFails
<1>9. leaked' \in BOOLEAN  BY <1>8 DEF TypeOK
<1>10. UNCHANGED breakerVars \/ CloseBreaker \/ \E c \in Callers : Trip(c)
  BY DEF Next, Manager, vars, Install, InstallError, MigrateUp, ActivateRead, Gate, Load,
         ActivateCommit, ActivateUndo, DeactivateRead, DeactivateUnload, DeactivateCommit,
         Invoke, TripRead, UninstallRead, UninstallPend, UninstallTeardown,
         UninstallDelete, ResetRead, ResetCommit, ResetRearm, ResetBreaker, Crash, Park
<1>11. trips' \in 0 .. MaxTrips  BY <1>10 DEF TypeOK, CloseBreaker, Trip
<1>12. open' \in BOOLEAN
  <2>1. CASE UNCHANGED breakerVars \/ CloseBreaker  BY <2>1 DEF TypeOK, CloseBreaker
  <2>2. ASSUME NEW c \in Callers, Trip(c) PROVE open' \in BOOLEAN  BY <2>2, Zenon DEF Trip
  <2> QED BY <1>10, <2>1, <2>2
<1> QED BY <1>1, <1>2, <1>3, <1>5, <1>7, <1>9, <1>11, <1>12 DEF TypeOK

\* Nobody but the caller tearing the row down moves it, and nobody joins in.
LEMMA TeardownStep ==
    ASSUME TypeOK, SeenInv, TeardownOwnsRow, [Next]_vars PROVE TeardownOwnsRow'
<1> USE DEF TypeOK, Call, IsAt, Goto, Return, Read, Idle, rowVars, TeardownOwnsRow, TearingDown
<1>1. ASSUME NEW c \in Callers, UninstallPend(c) PROVE TeardownOwnsRow'
  <2>1. call[c].at = "pend" /\ call[c].seen \in {"inactive", "errored"}
    BY <1>1 DEF UninstallPend, SeenInv
  <2>2. CASE Cas(c, "pending_uninstall", lastError) /\ Goto(c, "teardown")
    <3>1. \A d \in Callers : ~TearingDown(d)  BY <2>1, <2>2 DEF Cas
    <3> QED BY <2>2, <3>1 DEF Cas
  <2>3. CASE Return(c) /\ (UNCHANGED rowVars \/ Cas(c, "pending_uninstall", lastError))
    BY <2>1, <2>3 DEF Cas
  <2> QED BY <1>1, <2>2, <2>3 DEF UninstallPend, CasLost, CasFailed
<1>2. ASSUME NEW c \in Callers, UninstallTeardown(c) PROVE TeardownOwnsRow'
  BY <1>2 DEF UninstallTeardown
<1>3. ASSUME NEW c \in Callers, UninstallDelete(c) PROVE TeardownOwnsRow'
  <2>1. \A d \in Callers : ~TearingDown(d)'  BY <1>3 DEF UninstallDelete
  <2> QED BY <2>1
<1>4. ASSUME state' = state \/ state # "pending_uninstall",
             \A d \in Callers : TearingDown(d)' => TearingDown(d)
      PROVE  TeardownOwnsRow'
  BY <1>4
<1>5. ASSUME NEW c \in Callers,
             \/ ActivateCommit(c) \/ DeactivateCommit(c) \/ ResetCommit(c) \/ Park(c)
      PROVE  TeardownOwnsRow'
  <2>1. state' = state \/ state # "pending_uninstall"
    BY <1>5 DEF ActivateCommit, DeactivateCommit, ResetCommit, Park, Cas, CasLost, CasFailed, SeenInv
  <2>2. Goto(c, "undo") \/ Goto(c, "rearm") \/ Return(c)
    BY <1>5 DEF ActivateCommit, DeactivateCommit, ResetCommit, Park
  <2>3. \A d \in Callers : TearingDown(d)' => TearingDown(d)  BY <2>2
  <2> QED BY <1>4, <2>1, <2>3
<1>6. ASSUME NEW c \in Callers, Install(c) \/ InstallError(c) PROVE TeardownOwnsRow'
  <2>1. state = "absent"  BY <1>6 DEF Install, InstallError, InsertRow
  <2>2. \A d \in Callers : TearingDown(d)' => TearingDown(d)
    BY <1>6 DEF Install, InstallError
  <2> QED BY <1>4, <2>1, <2>2
<1>7. ASSUME NEW c \in Callers,
             \/ MigrateUp(c) \/ Gate(c) \/ Load(c) \/ ActivateUndo(c) \/ DeactivateUnload(c)
             \/ Invoke(c) \/ Trip(c) \/ TripRead(c) \/ ResetRearm(c)
             \/ ActivateRead(c) \/ DeactivateRead(c) \/ UninstallRead(c) \/ ResetRead(c)
      PROVE  TeardownOwnsRow'
  <2>1. UNCHANGED state
    BY <1>7 DEF MigrateUp, Gate, Load, ActivateUndo, DeactivateUnload, Invoke, Trip, TripRead,
                ResetRearm, ActivateRead, DeactivateRead, UninstallRead, ResetRead
  <2>2. \/ Return(c)
        \/ \E where \in At \ {"teardown", "delete"} :
                Goto(c, where) \/ \E states \in SUBSET State : Read(c, states, where)
    BY <1>7
    DEF MigrateUp, Gate, Load, ActivateUndo, DeactivateUnload, Invoke, Trip, TripRead,
        ResetRearm, ActivateRead, DeactivateRead, UninstallRead, ResetRead, At, State
  <2>3. \A d \in Callers : TearingDown(d)' => TearingDown(d)  BY <2>2
  <2> QED BY <1>4, <2>1, <2>3
<1>8. ASSUME Crash PROVE TeardownOwnsRow'
  BY <1>8 DEF Crash
<1>9. CASE ResetBreaker \/ UNCHANGED vars
  BY <1>9 DEF ResetBreaker, vars
<1> QED
  BY <1>1, <1>2, <1>3, <1>5, <1>6, <1>7, <1>8, <1>9 DEF Next, Manager

\* LastError is written in the same update as the state it belongs to.
LEMMA ErrorStep ==
    ASSUME TypeOK, SeenInv, TeardownOwnsRow, ErrorRecorded, [Next]_vars PROVE ErrorRecorded'
<1>1. Move  BY EachStepMoves
<1>2. lastError \in BOOLEAN  BY DEF TypeOK
<1> QED BY <1>1, <1>2 DEF Move, ErrorRecorded, rowVars

-----------------------------------------------------------------------------
(* Theorems.                                                               *)

IInv == TypeOK /\ SeenInv /\ TeardownOwnsRow /\ ErrorRecorded

\* The four parts hold together: each needs the others.
THEOREM Invariance == Spec => []IInv
<1>1. Init => IInv
  <2> SUFFICES ASSUME Init PROVE IInv  OBVIOUS
  <2>1. TypeOK
    <3>1. Idle \in Call  BY BoundsAssumption DEF Idle, Call, At
    <3>2. lastError \in BOOLEAN /\ open \in BOOLEAN /\ leaked \in BOOLEAN  BY DEF Init
    <3>3. trips \in 0 .. MaxTrips /\ version \in 0 .. MaxInstalls /\ mishaps \in 0 .. MaxMishaps
      BY BreakerAssumption, BoundsAssumption DEF Init
    <3> QED BY <3>1, <3>2, <3>3 DEF Init, TypeOK
  <2>2. SeenInv /\ TeardownOwnsRow  BY DEF Init, SeenInv, TeardownOwnsRow, TearingDown, Idle
  <2>3. ErrorRecorded  BY DEF Init, ErrorRecorded
  <2> QED BY <2>1, <2>2, <2>3 DEF IInv
<1>2. IInv /\ [Next]_vars => IInv'
  BY TypeStep, SeenStep, TeardownStep, ErrorStep DEF IInv
<1> QED BY <1>1, <1>2, PTL DEF Spec

\* Every step keeps the types; there is no row before the first install.
THEOREM TypeCorrect == Spec => []TypeOK
<1>1. IInv => TypeOK  BY DEF IInv
<1> QED BY <1>1, Invariance, PTL

\* An uninstall deletes the row it owns, although the DELETE has no guard.
THEOREM TeardownIsExclusive == Spec => []TeardownOwnsRow
<1>1. IInv => TeardownOwnsRow  BY DEF IInv
<1> QED BY <1>1, Invariance, PTL

\* LastError and the Errored state go together.
THEOREM ErrorsAreRecorded == Spec => []ErrorRecorded
<1>1. IInv => ErrorRecorded  BY DEF IInv
<1> QED BY <1>1, Invariance, PTL

\* Stale reads and failing calls notwithstanding, the row only makes the moves of the
\* Manager's methods, which depart from the documented diagram as RowMoves says.
THEOREM RowMakesTheMoves == Spec => RowMoves
<1> DEFINE Edge == state' # state => <<state, state'>> \in
        {<<"absent", "installed">>, <<"installed", "active">>, <<"installed", "errored">>,
         <<"active", "inactive">>, <<"active", "errored">>, <<"inactive", "active">>,
         <<"inactive", "errored">>, <<"inactive", "pending_uninstall">>,
         <<"errored", "inactive">>, <<"errored", "pending_uninstall">>,
         <<"pending_uninstall", "absent">>}
<1>1. IInv /\ [Next]_vars => [Edge]_vars
  <2> SUFFICES ASSUME IInv, [Next]_vars PROVE Edge  OBVIOUS
  <2>1. Move  BY EachStepMoves DEF IInv
  <2> QED BY <2>1 DEF Move, rowVars
<1> QED BY <1>1, Invariance, PTL DEF Spec, RowMoves

-----------------------------------------------------------------------------
(* Nothing outlives an uninstall.                                          *)

\* While the row is gone or about to be deleted, a loaded module has an owner:
\* an Activate that will find its CAS lost.
Loading(c) == call[c].at \in {"activate", "undo"}
Doomed == state = "absent" \/ \E c \in Callers : call[c].at = "delete"
LoadInv == Doomed /\ ~leaked => loaded = {} \/ \E c \in Callers : Loading(c)

\* Whoever loads into a doomed row still has its own unload ahead.
LEMMA LoadStep == ASSUME IInv, LoadInv, [Next]_vars PROVE LoadInv'
<1> SUFFICES ASSUME Doomed', ~leaked', loaded' # {}
             PROVE  (\E c \in Callers : Loading(c))'
  BY DEF LoadInv
<1> USE DEF IInv, TypeOK, Call, IsAt, Goto, Return, Read, Idle, rowVars, Loading
<1>1. ASSUME NEW c \in Callers, Load(c) PROVE (\E d \in Callers : Loading(d))'
  <2>1. CASE Goto(c, "activate")  BY <2>1
  <2>2. CASE Goto(c, "park") /\ UNCHANGED loaded
    <3>1. Doomed /\ ~leaked /\ c \in Callers
      BY <1>1, <2>2 DEF Load, Doomed
    <3>2. PICK d \in Callers : Loading(d)  BY <2>2, <3>1 DEF LoadInv
    <3> QED BY <1>1, <2>2, <3>2 DEF Load
  <2> QED BY <1>1, <2>1, <2>2 DEF Load
<1>2. ASSUME NEW c \in Callers, ActivateUndo(c) PROVE FALSE
  BY <1>2 DEF ActivateUndo, Unload, UnloadFails
<1>3. ASSUME NEW c \in Callers, UninstallTeardown(c) \/ DeactivateUnload(c) PROVE FALSE
  BY <1>3 DEF UninstallTeardown, DeactivateUnload, Unload, UnloadFails
<1>4. ASSUME Crash PROVE FALSE  BY <1>4 DEF Crash
<1>5. ASSUME NEW c \in Callers, ActivateCommit(c) PROVE (\E d \in Callers : Loading(d))'
  <2>1. call[c].at = "activate" /\ call[c].seen \in {"installed", "inactive"}
    BY <1>5 DEF ActivateCommit, SeenInv
  <2>2. ASSUME Cas(c, "active", FALSE), Return(c) PROVE FALSE
    <3>1. state = call[c].seen /\ state' = "active"  BY <2>2 DEF Cas
    <3>2. PICK d \in Callers : call'[d].at = "delete"  BY <3>1 DEF Doomed
    <3>3. call[d].at = "delete"  BY <2>2, <3>2
    <3> QED BY <2>1, <3>1, <3>3 DEF TeardownOwnsRow, TearingDown
  <2> QED BY <1>5, <2>2 DEF ActivateCommit
<1>6. ASSUME Doomed, UNCHANGED <<loaded, leaked>>,
             \A d \in Callers : Loading(d) => Loading(d)'
      PROVE  (\E d \in Callers : Loading(d))'
  BY <1>6 DEF LoadInv
<1>7. ASSUME NEW c \in Callers, UninstallDelete(c) PROVE (\E d \in Callers : Loading(d))'
  <2>1. Doomed  BY <1>7 DEF UninstallDelete, Doomed
  <2>2. \A d \in Callers : Loading(d) => Loading(d)'  BY <1>7 DEF UninstallDelete
  <2> QED BY <1>6, <1>7, <2>1, <2>2 DEF UninstallDelete
<1>8. ASSUME NEW c \in Callers,
             \/ DeactivateCommit(c) \/ UninstallPend(c) \/ ResetCommit(c) \/ Park(c)
             \/ Install(c) \/ InstallError(c)
             \/ MigrateUp(c) \/ Gate(c) \/ Invoke(c) \/ Trip(c) \/ TripRead(c) \/ ResetRearm(c)
             \/ ActivateRead(c) \/ DeactivateRead(c) \/ UninstallRead(c) \/ ResetRead(c)
      PROVE  (\E d \in Callers : Loading(d))'
  <2>1. /\ state' # "absent" \/ state = "absent"
        /\ UNCHANGED <<loaded, leaked>>
        /\ ~Loading(c)
    BY <1>8
    DEF DeactivateCommit, UninstallPend, ResetCommit, Park, Install, InstallError, MigrateUp,
        Gate, Invoke, Trip, TripRead, ResetRearm, ActivateRead, DeactivateRead, UninstallRead,
        ResetRead, Cas, CasLost, CasFailed, InsertRow
  <2>2. call'[c].at # "delete" /\ \A d \in Callers \ {c} : call'[d] = call[d]
    <3>1. CASE Install(c) \/ InstallError(c) \/ MigrateUp(c) \/ Gate(c) \/ Invoke(c) \/ Trip(c)
      BY <3>1 DEF Install, InstallError, MigrateUp, Gate, Invoke, Trip
    <3>2. CASE TripRead(c) \/ ActivateRead(c) \/ DeactivateRead(c) \/ UninstallRead(c) \/ ResetRead(c)
      BY <3>2 DEF TripRead, ActivateRead, DeactivateRead, UninstallRead, ResetRead
    <3>3. CASE DeactivateCommit(c) \/ UninstallPend(c) \/ ResetCommit(c) \/ Park(c) \/ ResetRearm(c)
      <4>1. Goto(c, "teardown") \/ Goto(c, "rearm") \/ Return(c)
        BY <3>3 DEF DeactivateCommit, UninstallPend, ResetCommit, Park, ResetRearm
      <4> QED BY <4>1
    <3> QED BY <1>8, <3>1, <3>2, <3>3
  <2>3. \A d \in Callers : /\ Loading(d) => Loading(d)'
                           /\ (call[d].at = "delete")' => call[d].at = "delete"
    BY <2>1, <2>2
  <2>4. Doomed  BY <2>1, <2>3 DEF Doomed
  <2> QED BY <1>6, <2>1, <2>3, <2>4
<1>9. CASE ResetBreaker \/ UNCHANGED vars
  <2>1. UNCHANGED <<state, call, loaded, leaked>>  BY <1>9 DEF ResetBreaker, vars
  <2> QED BY <2>1 DEF LoadInv, Doomed
<1> QED
  BY <1>1, <1>2, <1>3, <1>4, <1>5, <1>7, <1>8, <1>9 DEF Next, Manager

\* An uninstalled plugin leaves no module loaded, whatever Activate calls
\* overlapped the teardown.
THEOREM UninstallIsComplete == Spec => []NothingOutlivesUninstall
<1>1. Init => LoadInv  BY DEF Init, LoadInv
<1>2. LoadInv => NothingOutlivesUninstall
  BY DEF LoadInv, Doomed, Loading, NothingOutlivesUninstall, Quiet, IsAt
<1> QED BY <1>1, <1>2, Invariance, LoadStep, PTL DEF Spec
=============================================================================
