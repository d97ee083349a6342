---------------------------- MODULE SessionStore ----------------------------
(***************************************************************************)
(* packages/go/session: the sessions of one user in Redis.  A session is a *)
(* key with a time to live (idle window) and an absolute expiry inside its *)
(* blob; the user_sessions set indexes the tokens and has a time to live   *)
(* of its own.  Get, Regenerate, Delete, DeleteAllForUser and List each    *)
(* read first and act in a second round trip (a Lua script or a MULTI,     *)
(* atomic in Redis); other clients run, and time passes, between the two.  *)
(* Get's EXPIRE NX and EXPIRE GT of the set go in a plain pipeline, which  *)
(* is not atomic: every set gets a time to live together with its first    *)
(* member, so NX does nothing there and GT alone has an effect.            *)
(* apps/api/internal/auth/sessions revokes one session or all others from  *)
(* a List.                                                                 *)
(*                                                                         *)
(* Times to live count down with the clock, which ends at MaxTime.  A      *)
(* session key has them in milliseconds (PX) and the set in whole seconds  *)
(* (EXPIRE): a second is Second ticks of the clock.                        *)
(***************************************************************************)
EXTENDS Integers, FiniteSets

CONSTANTS
    Clients,     \* requests that use the manager
    Tokens,      \* bound: tokens minted in a behaviour
    AbsTTL,      \* ttl of Create
    IdleTTL,
    Second,      \* ticks of the clock in a second
    MaxTime      \* bound

ASSUME TTLAssumption ==
    /\ IdleTTL \in Nat \ {0} /\ AbsTTL \in Nat /\ IdleTTL <= AbsTTL
    /\ Second \in Nat \ {0} /\ MaxTime \in Nat

VARIABLES
    clock,
    ttl,         \* ttl[t]: remaining life of session:{t}, 0 when there is no key
    expiry,      \* expiry[t]: AbsoluteExpiry in the blob
    login,       \* login[t]: the token that the session of t was created with, or None
    index,       \* members of user_sessions
    indexTTL,    \* remaining life of that set
    call,        \* call[c]: the operation c is in the middle of
    stray        \* history: sessions that a mishap took out of the set's care, see Indexed

redisVars == <<ttl, expiry, login, index, indexTTL, stray>>
vars == <<clock, redisVars, call>>

None == "none"
ASSUME TokensAssumption == None \notin Tokens

Op(at, t, left, seen, found) ==
    [at |-> at, token |-> t, left |-> left, seen |-> seen, found |-> found]
Idle == Op("idle", None, 0, {}, {})
Minted == {t \in Tokens : login[t] # None}
Live == {t \in Tokens : ttl[t] > 0}
Least(a, b) == IF a < b THEN a ELSE b
Greatest(a, b) == IF a > b THEN a ELSE b

\* Types; an empty Redis set does not exist and has no time to live.
TypeOK ==
    /\ clock \in 0 .. MaxTime
    /\ ttl \in [Tokens -> 0 .. IdleTTL]
    /\ expiry \in [Tokens -> Nat]
    /\ login \in [Tokens -> Tokens \cup {None}]
    /\ index \subseteq Minted /\ indexTTL \in 0 .. Greatest(AbsTTL, Second)
    /\ index = {} <=> indexTTL = 0
    /\ call \in [Clients -> [at : {"idle", "refresh", "extend", "rotate", "delete", "purge", "revoke",
                                   "fetch", "prune", "next"},
                             token : Tokens \cup {None}, left : 0 .. AbsTTL,
                             seen : SUBSET Tokens, found : SUBSET Tokens]]
    /\ stray \subseteq Tokens

Init ==
    /\ clock = 0
    /\ ttl = [t \in Tokens |-> 0]
    /\ expiry = [t \in Tokens |-> 0]
    /\ login = [t \in Tokens |-> None]
    /\ index = {} /\ indexTTL = 0
    /\ call = [c \in Clients |-> Idle]
    /\ stray = {}

\* The sessions whose Get still has to extend the set.
Extending == {t \in Live : \E c \in Clients : call[c].at = "extend" /\ call[c].token = t}

\* A set that times out under a pending extension leaves that session without an entry.
Tick ==
    /\ clock < MaxTime
    /\ clock' = clock + 1
    /\ ttl' = [t \in Tokens |-> IF ttl[t] > 0 THEN ttl[t] - 1 ELSE 0]
    /\ indexTTL' = IF indexTTL > 0 THEN indexTTL - 1 ELSE 0
    /\ index' = IF indexTTL' = 0 THEN {} ELSE index
    /\ stray' = IF indexTTL = 1 THEN stray \cup Extending ELSE stray
    /\ UNCHANGED <<expiry, login, call>>

Free(c) == call[c] = Idle
Go(c, step) == call' = [call EXCEPT ![c] = step]
Leave(c) == Go(c, Idle)
AtToken(at, t, left) == Op(at, t, left, {}, {})
AtSets(at, seen, found) == Op(at, None, 0, seen, found)

\* The argument of EXPIRE: go-redis and Regenerate truncate to seconds, with one second
\* as the least.
WholeSecondsOrNone(d) == (d \div Second) * Second
WholeSeconds(d) == IF d < Second THEN Second ELSE (d \div Second) * Second

\* EXPIRE NX, then EXPIRE GT, of a set whose remaining life is left (0: it was new).
ExtendOnlyNX(left, window) == IF left = 0 THEN WholeSeconds(window) ELSE left
Extend(left, window) == Greatest(left, WholeSeconds(window))

\* SREM: the set disappears, and its time to live with it, when it loses its last member.
WithoutTTL(S) == IF S = {} THEN 0 ELSE indexTTL

-----------------------------------------------------------------------------
(* Create.                                                                 *)

Create(c) ==
    /\ Free(c)
    /\ \E t \in Tokens \ Minted :
        /\ ttl' = [ttl EXCEPT ![t] = IdleTTL]
        /\ expiry' = [expiry EXCEPT ![t] = clock + AbsTTL]
        /\ login' = [login EXCEPT ![t] = t]
        /\ index' = index \cup {t}
        /\ indexTTL' = Extend(indexTTL, AbsTTL)
    /\ UNCHANGED <<clock, call, stray>>

-----------------------------------------------------------------------------
(* Get.                                                                    *)

\* The key is there.  Past the absolute expiry the session is deleted instead.
Get(c) ==
    /\ Free(c)
    /\ \E t \in Live :
        IF clock >= expiry[t]
        THEN Go(c, AtToken("purge", t, 0))
        ELSE Go(c, AtToken("refresh", t, expiry[t] - clock))
    /\ UNCHANGED <<clock, redisVars>>

\* refreshIfExistsScript, with the remaining life computed when the blob was read.  A
\* session that has outlived its set gets a new window and no new entry.
GetRefreshAnyway(c) ==
    /\ call[c].at = "refresh"
    /\ ttl' = [ttl EXCEPT ![call[c].token] = Least(IdleTTL, call[c].left)]
    /\ Go(c, AtToken("extend", call[c].token, call[c].left))
    /\ UNCHANGED <<clock, expiry, login, index, indexTTL, stray>>
GetRefresh(c) ==
    /\ call[c].at = "refresh"
    /\ LET t == call[c].token IN
        /\ ttl' = IF t \in Live THEN [ttl EXCEPT ![t] = Least(IdleTTL, call[c].left)] ELSE ttl
        /\ stray' = stray \cup ((Live \cap {t}) \ index)
    /\ Go(c, AtToken("extend", call[c].token, call[c].left))
    /\ UNCHANGED <<clock, expiry, login, index, indexTTL>>

\* The set's own time to live follows in a separate pipeline.
GetExtend(c) ==
    /\ call[c].at = "extend"
    /\ indexTTL' = IF index = {} THEN 0 ELSE Extend(indexTTL, call[c].left)
    /\ Leave(c)
    /\ UNCHANGED <<clock, ttl, expiry, login, index, stray>>

-----------------------------------------------------------------------------
(* Regenerate.                                                             *)

Regenerate(c) ==
    /\ Free(c)
    /\ \E t \in Live :
        IF clock >= expiry[t]
        THEN Go(c, AtToken("purge", t, 0))
        ELSE Go(c, AtToken("rotate", t, Least(IdleTTL, expiry[t] - clock)))
    /\ UNCHANGED <<clock, redisVars>>

\* regenerateScript: a new token takes the old one's place, which must still be there.
Rotate(old, window) ==
    \E new \in Tokens \ Minted :
        /\ ttl' = [ttl EXCEPT ![old] = 0, ![new] = window]
        /\ expiry' = [expiry EXCEPT ![new] = expiry[old]]
        /\ login' = [login EXCEPT ![new] = login[old]]
        /\ index' = (index \ {old}) \cup {new}
        /\ indexTTL' = Extend(WithoutTTL(index \ {old}), window)

RegenerateRotateBlind(c) ==
    /\ call[c].at = "rotate"
    /\ Rotate(call[c].token, call[c].left)
    /\ Leave(c)
    /\ UNCHANGED <<clock, stray>>
RegenerateRotate(c) ==
    /\ call[c].at = "rotate"
    /\ IF call[c].token \in Live
       THEN Rotate(call[c].token, call[c].left)
       ELSE UNCHANGED <<ttl, expiry, login, index, indexTTL>>
    /\ Leave(c)
    /\ UNCHANGED <<clock, stray>>

-----------------------------------------------------------------------------
(* Delete, DeleteAllForUser, List.                                         *)

\* Delete reads the blob to learn which set to clean: none when the read fails.
Deletes(c, t, rest) ==
    \E entries \in {{}, {t}} :
        Go(c, Op("delete", t, 0, entries, rest))

\* A missing key has nothing to delete.
Delete(c) ==
    /\ Free(c)
    /\ \E t \in Live : Deletes(c, t, {})
    /\ UNCHANGED <<clock, redisVars>>

\* Get and Regenerate delete an expired session through Delete, which reads again.
PurgeReads(c) ==
    /\ call[c].at = "purge"
    /\ IF call[c].token \in Live THEN Deletes(c, call[c].token, {}) ELSE Leave(c)
    /\ UNCHANGED <<clock, redisVars>>

\* A handler that still has sessions to revoke goes on to the next one.
Continue(c, rest) == Go(c, IF rest = {} THEN Idle ELSE AtSets("next", {}, rest))

\* deleteScript.
DeleteRuns(c) ==
    /\ call[c].at = "delete"
    /\ LET t == call[c].token IN
        IF t \in Live
        THEN /\ ttl' = [ttl EXCEPT ![t] = 0]
             /\ index' = index \ call[c].seen
             /\ indexTTL' = WithoutTTL(index \ call[c].seen)
        ELSE UNCHANGED <<ttl, index, indexTTL>>
    /\ Continue(c, call[c].found)
    /\ UNCHANGED <<clock, expiry, login, stray>>

\* DeleteAllForUser: SMEMBERS, then one MULTI that deletes those sessions and the set.
DeleteAllForUser(c) ==
    /\ Free(c)
    /\ Go(c, AtSets("revoke", index, {}))
    /\ UNCHANGED <<clock, redisVars>>

DeleteAllRuns(c) ==
    /\ call[c].at = "revoke"
    /\ ttl' = [t \in Tokens |-> IF t \in call[c].seen THEN 0 ELSE ttl[t]]
    /\ index' = {} /\ indexTTL' = 0
    /\ stray' = stray \cup (index \ call[c].seen)
    /\ Leave(c)
    /\ UNCHANGED <<clock, expiry, login>>

\* List: SMEMBERS, MGET of the sessions, SREM of the tokens without one.
List(c) ==
    /\ Free(c) /\ index # {}
    /\ Go(c, AtSets("fetch", index, {}))
    /\ UNCHANGED <<clock, redisVars>>

\* The handlers then revoke none of the listed sessions (List), one (DeleteOne), or
\* all, or all but the request's own (DeleteAll).
ToRevoke(listed) == {{}, listed} \cup {{t} : t \in listed} \cup {listed \ {t} : t \in listed}

ListFetches(c) ==
    /\ call[c].at = "fetch"
    /\ LET listed == call[c].seen \cap Live
           stale == call[c].seen \ Live
       IN \E rest \in ToRevoke(listed) :
            IF stale = {} THEN Continue(c, rest)
            ELSE Go(c, AtSets("prune", stale, rest))
    /\ UNCHANGED <<clock, redisVars>>

ListPrunes(c) ==
    /\ call[c].at = "prune"
    /\ index' = index \ call[c].seen
    /\ indexTTL' = WithoutTTL(index \ call[c].seen)
    /\ Continue(c, call[c].found)
    /\ UNCHANGED <<clock, ttl, expiry, login, stray>>

\* One Delete after the other.
DeleteNext(c) ==
    /\ call[c].at = "next"
    /\ \E t \in call[c].found :
        IF t \in Live
        THEN Deletes(c, t, call[c].found \ {t})
        ELSE Continue(c, call[c].found \ {t})
    /\ UNCHANGED <<clock, redisVars>>

\* Redis does not answer.  Get goes on after a failed refresh and List after a failed
\* prune; every other call ends, a bulk revocation with it.
Fails(c) ==
    /\ ~Free(c)
    /\ CASE call[c].at = "refresh" -> Go(c, AtToken("extend", call[c].token, call[c].left))
         [] call[c].at = "prune" -> Continue(c, call[c].found)
         [] OTHER -> Leave(c)
    /\ stray' = IF call[c].at = "extend" THEN stray \cup (Live \cap {call[c].token}) ELSE stray
    /\ UNCHANGED <<clock, ttl, expiry, login, index, indexTTL>>

Step(c) ==
    \/ GetRefresh(c) \/ GetExtend(c) \/ RegenerateRotate(c) \/ PurgeReads(c) \/ DeleteRuns(c)
    \/ DeleteAllRuns(c) \/ ListFetches(c) \/ ListPrunes(c) \/ DeleteNext(c)
    \/ Fails(c)
Request(c) ==
    Create(c) \/ Get(c) \/ Regenerate(c) \/ Delete(c) \/ DeleteAllForUser(c) \/ List(c)

Next == Tick \/ \E c \in Clients : Request(c) \/ Step(c)
Spec == Init /\ [][Next]_vars

-----------------------------------------------------------------------------
(* Properties.                                                             *)

\* A session that is gone (deleted, revoked, rotated away or timed out) never comes
\* back: a Get or a Regenerate that had read it before writes nothing.
NoResurrection == [][\A t \in Minted : ttl[t] = 0 => ttl'[t] = 0]_vars

\* Rotation leaves one usable token per login, also when two requests rotate the
\* same session at once.
OneTokenPerLogin == \A t, u \in Live : login[t] = login[u] => t = u

\* List and DeleteAllForUser reach a session until its last second: its token is in the
\* set, whatever prunes, rotations, truncated lifetimes and other sessions did to the set
\* meanwhile.  The last second is lost to EXPIRE's truncation, where manager.go:513-515
\* has the set bracket every lifetime.  Excused are the sessions of three mishaps: the
\* token was added between the SMEMBERS and the MULTI of a DeleteAllForUser; the set died
\* before its Get had extended it, or that extension failed; a Get refreshed it in the
\* second in which it had already outlived the set.
Indexed == \A t \in Live \ stray : t \in index \/ ttl[t] < Second
=============================================================================
