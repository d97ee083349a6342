---------------------------- MODULE SessionProofs ----------------------------
(***************************************************************************)
(* Proofs about SessionStore for any number of clients and tokens, any     *)
(* windows and any horizon.                                                *)
(***************************************************************************)
EXTENDS SessionStore, TLAPS

-----------------------------------------------------------------------------
(* The records of operations in progress.                                  *)

Phases == {"idle", "refresh", "extend", "rotate", "delete", "purge", "revoke",
           "fetch", "prune", "next"}
Calls == [at : Phases, token : Tokens \cup {None}, left : 0 .. AbsTTL,
          seen : SUBSET Tokens, found : SUBSET Tokens]

\* A record of the right fields is a call.
LEMMA OpType ==
    ASSUME NEW a \in Phases, NEW t \in Tokens \cup {None}, NEW l \in 0 .. AbsTTL,
           NEW S \in SUBSET Tokens, NEW F \in SUBSET Tokens
    PROVE  Op(a, t, l, S, F) \in Calls
BY DEF Op, Calls

\* The record of a client that is free.
LEMMA IdleType == Idle \in Calls /\ Idle.at = "idle"
BY TTLAssumption DEF Idle, Op, Calls, Phases

\* A rotation has a window within the idle time; List saw tokens that were minted and prunes the ones
\* without a session; Delete removes no entry but its token's.
StepOK(s) ==
    /\ s.at = "rotate" => s.left > 0 /\ s.left <= IdleTTL
    /\ s.at \in {"fetch", "prune"} => s.seen \subseteq Minted
    /\ s.at = "prune" => s.seen \cap Live = {}
    /\ s.at = "delete" => s.seen \subseteq {s.token}
CallInv == \A c \in Clients : StepOK(call[c])

\* Sessions belong to minted tokens and end within AbsTTL.
LifeInv ==
    /\ Live \subseteq Minted
    /\ \A t \in Tokens : expiry[t] <= clock + AbsTTL

\* A login is named by a token that was minted.
LoginInv == \A t \in Minted : login[t] \in Minted

\* A session in the set ends less than a second after it, or its Get is about to extend
\* the set; one that has outlived the set is in its last second.
Pending(t) ==
    \E c \in Clients : call[c].at = "extend" /\ call[c].token = t /\ ttl[t] <= call[c].left
Kept(t) ==
    \/ t \in index /\ (ttl[t] < indexTTL + Second \/ Pending(t))
    \/ t \notin index /\ ttl[t] < Second
IndexInv == \A t \in Live \ stray : Kept(t)

IInv == TypeOK /\ CallInv /\ LifeInv /\ LoginInv /\ OneTokenPerLogin /\ IndexInv

\* What a step does to sessions as a whole: tokens stay minted and nothing comes back.
Forward ==
    /\ \A t \in Tokens : login[t] # None => login'[t] = login[t]
    /\ \A t \in Tokens : login[t] # None /\ ttl[t] = 0 => ttl'[t] = 0

\* What truncation to seconds leaves of a lifetime: all but less than a second, and at
\* least one second.
LEMMA WholeSecondsBounds ==
    ASSUME NEW d \in Nat
    PROVE  /\ WholeSeconds(d) \in Nat /\ WholeSeconds(d) > 0
           /\ d < WholeSeconds(d) + Second /\ WholeSeconds(d) <= Greatest(d, Second)
<1> USE TTLAssumption
<1> DEFINE w == (d \div Second) * Second
<1>1. w \in Nat /\ w <= d /\ d < w + Second  OBVIOUS
<1>2. d >= Second => w >= Second  OBVIOUS
<1> HIDE DEF w
<1>3. WholeSeconds(d) = IF d < Second THEN Second ELSE w  BY DEF WholeSeconds, w
<1> QED BY <1>1, <1>2, <1>3 DEF Greatest

\* Bounds chain.
LEMMA Within ==
    ASSUME NEW a \in Nat, NEW b \in Nat, NEW m \in Nat, NEW n \in Nat, a <= b, b < m + n
    PROVE  a < m + n
OBVIOUS

\* Extending the set by a window within AbsTTL.
LEMMA ExtendBounds ==
    ASSUME NEW l \in 0 .. Greatest(AbsTTL, Second), NEW d \in 0 .. AbsTTL
    PROVE  /\ Extend(l, d) \in 1 .. Greatest(AbsTTL, Second)
           /\ Extend(l, d) >= l /\ d < Extend(l, d) + Second
<1> USE TTLAssumption
<1> DEFINE w == WholeSeconds(d)
<1>1. d \in Nat /\ l \in Nat  BY DEF Greatest
<1>2. w \in Nat /\ w > 0 /\ d < w + Second /\ w <= Greatest(d, Second)
  BY <1>1, WholeSecondsBounds
<1> HIDE DEF w
<1>3. Extend(l, d) = Greatest(l, w)  BY DEF Extend, w
<1> QED BY <1>1, <1>2, <1>3 DEF Greatest

\* A session keeps its place when the set keeps it and does not get shorter.
LEMMA KeptOn ==
    ASSUME TypeOK, TypeOK', NEW u \in Tokens, ttl'[u] = ttl[u], u \in index' <=> u \in index,
           u \in index => indexTTL' >= indexTTL, Pending(u) => Pending(u)', Kept(u)
    PROVE  Kept(u)'
<1>1. ttl[u] \in Nat /\ indexTTL \in Nat /\ indexTTL' \in Nat /\ Second \in Nat
  BY TTLAssumption DEF TypeOK, Greatest
<1>2. CASE u \notin index  BY <1>2 DEF Kept
<1>3. CASE u \in index /\ ttl[u] < indexTTL + Second
  BY <1>1, <1>3 DEF Kept
<1>4. CASE u \in index /\ Pending(u)
  BY <1>4 DEF Kept
<1> QED BY <1>2, <1>3, <1>4 DEF Kept

\* A client's step keeps the calls in order.
LEMMA CallKept ==
    ASSUME TypeOK, CallInv, Forward, NEW c \in Clients, NEW s \in Calls,
           StepOK(s), call' = [call EXCEPT ![c] = s],
           login' \in [Tokens -> Tokens \cup {None}], ttl' \in [Tokens -> 0 .. IdleTTL]
    PROVE  call' \in [Clients -> Calls] /\ CallInv'
<1>1. call \in [Clients -> Calls]  BY DEF TypeOK, Calls, Phases
<1>2. call' \in [Clients -> Calls]  BY <1>1
<1>3. Minted \subseteq Minted'  BY DEF Forward, Minted
<1>4. \A t \in Minted : t \notin Live => t \notin Live'
  BY TTLAssumption DEF Forward, Minted, Live, TypeOK
<1>5. ASSUME NEW d \in Clients PROVE StepOK(call[d])'
  <2>1. call'[d] \in {call[d], s} /\ StepOK(call[d])  BY <1>1 DEF CallInv
  <2> QED BY <1>3, <1>4, <2>1 DEF StepOK
<1> QED BY <1>2, <1>5 DEF CallInv

\* Between its two round trips a call changes nothing in Redis.
LEMMA OnlyCall ==
    ASSUME IInv, NEW c \in Clients, NEW s \in Calls, StepOK(s), call[c].at # "extend",
           Go(c, s), UNCHANGED <<clock, redisVars>>
    PROVE  IInv' /\ Forward
<1> USE DEF redisVars
<1>1. Forward  BY DEF Forward, IInv, TypeOK
<1>2. call' \in [Clients -> Calls] /\ CallInv'
  BY <1>1, CallKept DEF IInv, Go, TypeOK
<1>3. TypeOK'  BY <1>2 DEF IInv, TypeOK, Calls, Phases, Minted
<1>4. LifeInv' /\ LoginInv' /\ OneTokenPerLogin'
  BY DEF IInv, LifeInv, LoginInv, OneTokenPerLogin, Live, Minted
<1>5. ASSUME NEW t \in Live, Pending(t) PROVE Pending(t)'
  BY <1>5 DEF Pending, IInv, TypeOK, Go
<1>6. IndexInv'
  <2> SUFFICES ASSUME NEW t \in (Live \ stray)' PROVE Kept(t)'  BY DEF IndexInv
  <2>1. t \in Live /\ t \in Tokens /\ Kept(t)  BY DEF IInv, IndexInv, Live
  <2>2. indexTTL' >= indexTTL  BY TTLAssumption DEF IInv, TypeOK, Greatest
  <2> QED BY <1>3, <1>5, <2>1, <2>2, KeptOn DEF IInv
<1> QED BY <1>1, <1>2, <1>3, <1>4, <1>6 DEF IInv

-----------------------------------------------------------------------------
(* The first round trips, and the second ones that only read.              *)

\* A get or a rotation reads how much of the session is left.
LEMMA Reads ==
    ASSUME IInv, NEW t \in Live, clock < expiry[t]
    PROVE  expiry[t] - clock \in 1 .. AbsTTL /\ Least(IdleTTL, expiry[t] - clock) \in 1 .. IdleTTL
BY TTLAssumption DEF IInv, TypeOK, LifeInv, Live, Least

\* A client in the middle of nothing.
LEMMA FreeIsIdle == ASSUME IInv, NEW c \in Clients, Free(c) PROVE call[c].at = "idle"
BY IdleType DEF Free

\* Get and Regenerate read.
LEMMA GetStep ==
    ASSUME IInv, NEW c \in Clients, Get(c) \/ Regenerate(c) PROVE IInv' /\ Forward
<1>1. call[c].at = "idle"  BY FreeIsIdle DEF Get, Regenerate
<1>2. PICK t \in Live :
        \/ Go(c, AtToken("purge", t, 0))
        \/ clock < expiry[t] /\ Go(c, AtToken("refresh", t, expiry[t] - clock))
        \/ clock < expiry[t] /\ Go(c, AtToken("rotate", t, Least(IdleTTL, expiry[t] - clock)))
  BY DEF Get, Regenerate, Live, IInv, TypeOK
<1>3. t \in Tokens  BY DEF Live
<1>4. UNCHANGED <<clock, redisVars>>  BY DEF Get, Regenerate
<1>5. CASE Go(c, AtToken("purge", t, 0))
  <2>1. AtToken("purge", t, 0) \in Calls
    BY <1>3, OpType, TTLAssumption DEF AtToken, Phases
  <2>2. StepOK(AtToken("purge", t, 0))  BY DEF StepOK, AtToken, Op
  <2> QED BY <1>1, <1>4, <1>5, <2>1, <2>2, OnlyCall
<1>6. CASE clock < expiry[t] /\ Go(c, AtToken("refresh", t, expiry[t] - clock))
  <2> DEFINE l == expiry[t] - clock
  <2>1. l \in 1 .. AbsTTL  BY <1>6, Reads
  <2> HIDE DEF l
  <2>2. AtToken("refresh", t, l) \in Calls
    BY <1>3, <2>1, OpType, TTLAssumption DEF AtToken, Phases
  <2>3. StepOK(AtToken("refresh", t, l))  BY DEF StepOK, AtToken, Op
  <2> QED BY <1>1, <1>4, <1>6, <2>2, <2>3, OnlyCall DEF l
<1>7. CASE clock < expiry[t] /\ Go(c, AtToken("rotate", t, Least(IdleTTL, expiry[t] - clock)))
  <2> DEFINE l == Least(IdleTTL, expiry[t] - clock)
  <2>1. l \in 1 .. IdleTTL  BY <1>7, Reads
  <2> HIDE DEF l
  <2>2. AtToken("rotate", t, l) \in Calls
    BY <1>3, <2>1, OpType, TTLAssumption DEF AtToken, Phases
  <2>3. StepOK(AtToken("rotate", t, l))  BY <2>1, TTLAssumption DEF StepOK, AtToken, Op
  <2> QED BY <1>1, <1>4, <1>7, <2>2, <2>3, OnlyCall DEF l
<1> QED BY <1>2, <1>5, <1>6, <1>7

\* Delete has read the blob, or failed to.
LEMMA DeletesStep ==
    ASSUME IInv, NEW c \in Clients, call[c].at # "extend", UNCHANGED <<clock, redisVars>>,
           NEW t \in Tokens, NEW F \in SUBSET Tokens, Deletes(c, t, F)
    PROVE  IInv' /\ Forward
<1>1. PICK S \in {{}, {t}} : Go(c, Op("delete", t, 0, S, F))  BY DEF Deletes
<1>2. Op("delete", t, 0, S, F) \in Calls  BY <1>1, OpType, TTLAssumption DEF Phases
<1>3. StepOK(Op("delete", t, 0, S, F))  BY <1>1 DEF StepOK, Op
<1> QED BY <1>1, <1>2, <1>3, OnlyCall

\* The record a handler goes on with, or ends with.
LEMMA ContinueStep ==
    ASSUME NEW c \in Clients, NEW F \in SUBSET Tokens, Continue(c, F)
    PROVE  \E s \in Calls : Go(c, s) /\ s.at \in {"idle", "next"}
<1>1. AtSets("next", {}, F) \in Calls /\ AtSets("next", {}, F).at = "next"
  <2>1. AtSets("next", {}, F) \in Calls  BY OpType, TTLAssumption DEF AtSets, Phases
  <2> QED BY <2>1 DEF AtSets, Op
<1> QED BY <1>1, IdleType DEF Continue

\* A call that ends or goes on keeps its record in order.
LEMMA EndOK == ASSUME NEW s, s.at \in {"idle", "next", "revoke", "extend"} PROVE StepOK(s)
BY DEF StepOK

\* Delete, DeleteAllForUser and List begin.
LEMMA BeginStep ==
    ASSUME IInv, NEW c \in Clients, Delete(c) \/ DeleteAllForUser(c) \/ List(c)
    PROVE  IInv' /\ Forward
<1>1. CASE Delete(c)
  BY <1>1, FreeIsIdle, DeletesStep DEF Delete, Live
<1>2. index \in SUBSET Tokens /\ index \subseteq Minted  BY DEF IInv, TypeOK, Minted
<1>3. CASE DeleteAllForUser(c)
  <2>1. AtSets("revoke", index, {}) \in Calls
    BY <1>2, OpType, TTLAssumption DEF AtSets, Phases
  <2>2. StepOK(AtSets("revoke", index, {}))  BY DEF StepOK, AtSets, Op
  <2> QED BY <1>3, <2>1, <2>2, FreeIsIdle, OnlyCall DEF DeleteAllForUser
<1>4. CASE List(c)
  <2>1. AtSets("fetch", index, {}) \in Calls
    BY <1>2, OpType, TTLAssumption DEF AtSets, Phases
  <2>2. StepOK(AtSets("fetch", index, {}))  BY <1>2 DEF StepOK, AtSets, Op
  <2> QED BY <1>4, <2>1, <2>2, FreeIsIdle, OnlyCall DEF List
<1> QED BY <1>1, <1>3, <1>4

\* The fields of a call in progress.
LEMMA CallFields ==
    ASSUME IInv, NEW c \in Clients
    PROVE  /\ call[c] \in Calls /\ StepOK(call[c])
           /\ call[c].left \in 0 .. AbsTTL
           /\ call[c].seen \in SUBSET Tokens /\ call[c].found \in SUBSET Tokens
BY DEF IInv, TypeOK, CallInv, Calls, Phases

\* The reads behind a purge, a bulk revocation and List.
LEMMA ReadStep ==
    ASSUME IInv, NEW c \in Clients, PurgeReads(c) \/ DeleteNext(c) \/ ListFetches(c)
    PROVE  IInv' /\ Forward
<1>1. CASE PurgeReads(c)
  <2>1. call[c].at # "extend" /\ UNCHANGED <<clock, redisVars>>  BY <1>1 DEF PurgeReads
  <2>2. CASE call[c].token \in Live
    BY <1>1, <2>1, <2>2, DeletesStep DEF PurgeReads, Live
  <2>3. CASE call[c].token \notin Live
    BY <1>1, <2>1, <2>3, OnlyCall, IdleType, EndOK DEF PurgeReads, Leave
  <2> QED BY <2>2, <2>3
<1>2. CASE DeleteNext(c)
  <2>1. call[c].at # "extend" /\ UNCHANGED <<clock, redisVars>>  BY <1>2 DEF DeleteNext
  <2>2. PICK t \in call[c].found :
          \/ t \in Live /\ Deletes(c, t, call[c].found \ {t})
          \/ Continue(c, call[c].found \ {t})
    BY <1>2 DEF DeleteNext
  <2>3. call[c].found \ {t} \in SUBSET Tokens  BY CallFields
  <2>4. CASE t \in Live /\ Deletes(c, t, call[c].found \ {t})
    BY <2>1, <2>3, <2>4, DeletesStep DEF Live
  <2>5. CASE Continue(c, call[c].found \ {t})
    BY <2>1, <2>3, <2>5, ContinueStep, OnlyCall, EndOK
  <2> QED BY <2>2, <2>4, <2>5
<1>3. CASE ListFetches(c)
  <2> DEFINE stale == call[c].seen \ Live
             listed == call[c].seen \cap Live
  <2>1. call[c].at = "fetch" /\ UNCHANGED <<clock, redisVars>>  BY <1>3 DEF ListFetches
  <2>2. call[c].seen \subseteq Minted  BY <2>1, CallFields DEF StepOK
  <2>3. stale \in SUBSET Tokens /\ stale \subseteq Minted /\ stale \cap Live = {}
        /\ listed \in SUBSET Tokens
    BY <2>2, CallFields
  <2>4. PICK rest \in ToRevoke(listed) :
          Continue(c, rest) \/ Go(c, AtSets("prune", stale, rest))
    BY <1>3 DEF ListFetches
  <2>5. rest \in SUBSET Tokens  BY <2>3, <2>4 DEF ToRevoke
  <2> HIDE DEF stale, listed
  <2>6. CASE Continue(c, rest)
    BY <2>1, <2>5, <2>6, ContinueStep, OnlyCall, EndOK
  <2>7. CASE Go(c, AtSets("prune", stale, rest))
    <3>1. AtSets("prune", stale, rest) \in Calls
      BY <2>3, <2>5, OpType, TTLAssumption DEF AtSets, Phases
    <3>2. StepOK(AtSets("prune", stale, rest))  BY <2>3 DEF StepOK, AtSets, Op
    <3> QED BY <2>1, <2>7, <3>1, <3>2, OnlyCall
  <2> QED BY <2>4, <2>6, <2>7
<1> QED BY <1>1, <1>2, <1>3

-----------------------------------------------------------------------------
(* The steps that write.                                                   *)

\* Time passes: set and sessions age together.
LEMMA TickStep == ASSUME IInv, Tick PROVE IInv' /\ Forward
<1> USE TTLAssumption
<1>1. /\ ttl' \in [Tokens -> 0 .. IdleTTL]
      /\ \A t \in Tokens : ttl'[t] = IF ttl[t] > 0 THEN ttl[t] - 1 ELSE 0
  BY DEF Tick, IInv, TypeOK
<1>2. /\ indexTTL' \in 0 .. Greatest(AbsTTL, Second)
      /\ index' \subseteq index /\ (index' = {} <=> indexTTL' = 0)
  BY DEF Tick, IInv, TypeOK, Greatest
<1>3. UNCHANGED <<expiry, login, call>> /\ clock' = clock + 1 /\ clock' \in 0 .. MaxTime
  BY DEF Tick, IInv, TypeOK
<1>4. stray' \subseteq Tokens /\ stray \subseteq stray'
  BY DEF Tick, IInv, TypeOK, Extending, Live
<1>5. Live' \subseteq Live /\ Minted' = Minted
  BY <1>1, <1>3 DEF Live, Minted, IInv, TypeOK
<1>6. TypeOK'
  BY <1>1, <1>2, <1>3, <1>4, <1>5 DEF IInv, TypeOK
<1>7. Forward  BY <1>1, <1>3 DEF Forward
<1>8. CallInv'  BY <1>3, <1>5 DEF IInv, CallInv, StepOK
<1>9. LifeInv'
  <2>1. \A t \in Tokens : expiry'[t] <= clock' + AbsTTL
    BY <1>3 DEF IInv, LifeInv, TypeOK
  <2> QED BY <1>5, <2>1 DEF IInv, LifeInv
<1>10. LoginInv' /\ OneTokenPerLogin'
  BY <1>3, <1>5 DEF IInv, LoginInv, OneTokenPerLogin
<1>11. IndexInv'
  <2> SUFFICES ASSUME NEW t \in (Live \ stray)' PROVE Kept(t)'  BY DEF IndexInv
  <2>1. t \in Live /\ t \notin stray /\ t \in Tokens /\ Kept(t)
    BY <1>4, <1>5 DEF IInv, IndexInv, Live
  <2>2. ttl[t] \in Nat \ {0} /\ ttl'[t] = ttl[t] - 1 /\ indexTTL \in Nat /\ Second \in Nat
    BY <1>1, <2>1 DEF IInv, TypeOK, Live, Greatest
  <2>3. CASE t \notin index
    BY <1>2, <2>1, <2>2, <2>3 DEF Kept
  <2>4. CASE t \in index /\ indexTTL = 1
    <3>1. t \notin Extending  BY <2>4 DEF Tick
    <3>2. ~Pending(t)  BY <2>1, <3>1 DEF Pending, Extending
    <3>3. ttl'[t] < Second  BY <2>1, <2>2, <2>4, <3>2 DEF Kept
    <3>4. t \notin index'  BY <2>4 DEF Tick
    <3> QED BY <3>3, <3>4 DEF Kept
  <2>5. CASE t \in index /\ indexTTL # 1
    <3>1. indexTTL # 0  BY <2>5 DEF IInv, TypeOK
    <3>2. indexTTL' = indexTTL - 1 /\ index' = index  BY <2>2, <2>5, <3>1 DEF Tick
    <3>3. CASE ttl[t] < indexTTL + Second
      BY <2>2, <2>5, <3>2, <3>3 DEF Kept
    <3>4. CASE Pending(t)
      <4>1. PICK c \in Clients : call[c].at = "extend" /\ call[c].token = t /\ ttl[t] <= call[c].left
        BY <3>4 DEF Pending
      <4>2. call[c].left \in Nat  BY DEF IInv, TypeOK
      <4>3. ttl'[t] <= call'[c].left  BY <1>3, <2>2, <4>1, <4>2
      <4>4. Pending(t)'  BY <1>3, <4>1, <4>3 DEF Pending
      <4> QED BY <2>5, <3>2, <4>4 DEF Kept
    <3> QED BY <2>1, <2>5, <3>3, <3>4 DEF Kept
  <2> QED BY <2>3, <2>4, <2>5
<1> QED BY <1>6, <1>7, <1>8, <1>9, <1>10, <1>11 DEF IInv

\* A new session under a new token.
LEMMA CreateStep ==
    ASSUME IInv, NEW c \in Clients, Create(c) PROVE IInv' /\ Forward
<1> USE TTLAssumption
<1>1. PICK t \in Tokens \ Minted :
        /\ ttl' = [ttl EXCEPT ![t] = IdleTTL]
        /\ expiry' = [expiry EXCEPT ![t] = clock + AbsTTL]
        /\ login' = [login EXCEPT ![t] = t]
        /\ index' = index \cup {t}
        /\ indexTTL' = Extend(indexTTL, AbsTTL)
  BY DEF Create
<1>2. UNCHANGED <<clock, call, stray>>  BY DEF Create
<1>3. /\ ttl' \in [Tokens -> 0 .. IdleTTL] /\ expiry' \in [Tokens -> Nat]
      /\ login' \in [Tokens -> Tokens \cup {None}]
  BY <1>1 DEF IInv, TypeOK
<1>4. /\ indexTTL' \in 1 .. Greatest(AbsTTL, Second) /\ indexTTL' >= indexTTL
      /\ AbsTTL < indexTTL' + Second
  BY <1>1, ExtendBounds DEF IInv, TypeOK
<1>5. Minted' = Minted \cup {t} /\ Live' = Live \cup {t}
  BY <1>1, TokensAssumption DEF Minted, Live, IInv, TypeOK
<1>6. TypeOK'
  <2>1. index' # {} /\ index' \subseteq Minted'  BY <1>1, <1>5 DEF IInv, TypeOK
  <2>2. indexTTL' \in 0 .. Greatest(AbsTTL, Second) /\ indexTTL' # 0  BY <1>4 DEF Greatest
  <2> QED BY <1>2, <1>3, <2>1, <2>2 DEF IInv, TypeOK
<1>7. t \notin Live /\ Live \subseteq Minted /\ Minted \subseteq Tokens
  BY <1>1 DEF IInv, LifeInv, Minted
<1>8. Forward  BY <1>1 DEF Forward, Minted, IInv, TypeOK
<1>9. CallInv'
  BY <1>2, <1>5, <1>7 DEF IInv, CallInv, StepOK
<1>10. LifeInv'
  <2>1. \A u \in Tokens : expiry'[u] <= clock' + AbsTTL
    BY <1>1, <1>2 DEF IInv, LifeInv, TypeOK
  <2> QED BY <1>5, <1>7, <2>1 DEF LifeInv
<1>11. LoginInv'
  BY <1>1, <1>5 DEF IInv, LoginInv, TypeOK, Minted
<1>12. OneTokenPerLogin'
  <2>1. \A u \in Live : login'[u] = login[u] /\ login[u] # t
    BY <1>1, <1>7 DEF IInv, LoginInv, TypeOK
  <2>2. login'[t] = t  BY <1>1 DEF IInv, TypeOK
  <2> QED BY <1>5, <2>1, <2>2 DEF IInv, OneTokenPerLogin
<1>13. IndexInv'
  <2> SUFFICES ASSUME NEW u \in (Live \ stray)' PROVE Kept(u)'  BY DEF IndexInv
  <2>1. CASE u = t
    <3>1. ttl'[t] = IdleTTL  BY <1>1 DEF IInv, TypeOK
    <3>2. indexTTL' \in Nat  BY <1>4 DEF Greatest
    <3>3. AbsTTL < indexTTL' + Second  BY <1>4
    <3>4. ttl'[t] < indexTTL' + Second
      <4>1. IdleTTL < indexTTL' + Second  BY <3>2, <3>3, Within
      <4> QED BY <3>1, <4>1
    <3> QED BY <1>1, <2>1, <3>4 DEF Kept
  <2>2. CASE u # t
    <3>1. u \in Live /\ u \in Tokens /\ Kept(u)
      BY <1>2, <1>5, <2>2 DEF IInv, IndexInv, Live
    <3>2. ttl'[u] = ttl[u] /\ (u \in index' <=> u \in index)
      BY <1>1, <2>2, <3>1 DEF IInv, TypeOK
    <3>3. Pending(u) => Pending(u)'  BY <1>2, <3>2 DEF Pending
    <3> QED BY <1>4, <1>6, <3>1, <3>2, <3>3, KeptOn DEF IInv
  <2> QED BY <2>1, <2>2
<1> QED BY <1>6, <1>8, <1>9, <1>10, <1>11, <1>12, <1>13 DEF IInv

\* The second half of Get: a refresh of what is still there.
LEMMA RefreshStep ==
    ASSUME IInv, NEW c \in Clients, GetRefresh(c) PROVE IInv' /\ Forward
<1> USE TTLAssumption
<1> DEFINE t == call[c].token
           l == call[c].left
           s == AtToken("extend", t, l)
<1>1. l \in 0 .. AbsTTL /\ t \in Tokens \cup {None}  BY CallFields DEF Calls
<1>2. s \in Calls /\ s.at = "extend" /\ s.left = l /\ s.token = t
  <2>1. s \in Calls  BY <1>1, OpType DEF AtToken, Phases
  <2> QED BY <2>1 DEF AtToken, Op
<1>3. /\ call[c].at = "refresh" /\ call' = [call EXCEPT ![c] = s]
      /\ ttl' = IF t \in Live THEN [ttl EXCEPT ![t] = Least(IdleTTL, l)] ELSE ttl
      /\ stray' = stray \cup ((Live \cap {t}) \ index)
      /\ UNCHANGED <<clock, expiry, login, index, indexTTL>>
  BY DEF GetRefresh, Go
<1> HIDE DEF t, l, s
<1>4. Least(IdleTTL, l) \in 0 .. IdleTTL /\ Least(IdleTTL, l) <= l  BY <1>1 DEF Least
<1>5. ttl' \in [Tokens -> 0 .. IdleTTL]  BY <1>3, <1>4 DEF IInv, TypeOK
<1>6. /\ \A u \in Tokens : u # t => ttl'[u] = ttl[u]
      /\ t \in Live => ttl'[t] <= l
  BY <1>3, <1>4 DEF IInv, TypeOK, Live
<1>7. Live' \subseteq Live /\ Minted' = Minted
  BY <1>3, <1>6 DEF Live, Minted
<1>8. Forward
  <2>1. \A u \in Tokens : ttl[u] = 0 => ttl'[u] = 0
    BY <1>3, <1>6 DEF Live, IInv, TypeOK
  <2> QED BY <1>3, <2>1 DEF Forward
<1>9. StepOK(s)  BY <1>2, EndOK
<1>10. call' \in [Clients -> Calls] /\ CallInv'
  BY <1>2, <1>3, <1>5, <1>8, <1>9, CallKept DEF IInv, TypeOK
<1>11. TypeOK'
  <2>1. stray' \subseteq Tokens  BY <1>3 DEF IInv, TypeOK, Live
  <2> QED BY <1>3, <1>5, <1>7, <1>10, <2>1 DEF IInv, TypeOK, Calls, Phases
<1>12. LifeInv' /\ LoginInv' /\ OneTokenPerLogin'
  BY <1>3, <1>7 DEF IInv, LifeInv, LoginInv, OneTokenPerLogin
<1>13. IndexInv'
  <2> SUFFICES ASSUME NEW u \in (Live \ stray)' PROVE Kept(u)'  BY DEF IndexInv
  <2>1. u \in Live /\ u \in Tokens /\ Kept(u)
    BY <1>3, <1>7 DEF IInv, IndexInv, Live
  <2>2. call'[c] = s  BY <1>3 DEF IInv, TypeOK
  <2>3. CASE u = t
    <3>1. u \in index'  BY <1>3, <2>1, <2>3
    <3>2. Pending(u)'  BY <1>2, <1>6, <2>1, <2>2, <2>3 DEF Pending
    <3> QED BY <3>1, <3>2 DEF Kept
  <2>4. CASE u # t
    <3>1. ttl'[u] = ttl[u]  BY <1>6, <2>1, <2>4
    <3>2. Pending(u) => Pending(u)'
      BY <1>3, <3>1 DEF Pending, IInv, TypeOK
    <3>3. indexTTL' >= indexTTL  BY <1>3 DEF IInv, TypeOK, Greatest
    <3> QED BY <1>3, <1>11, <2>1, <3>1, <3>2, <3>3, KeptOn DEF IInv
  <2> QED BY <2>3, <2>4
<1> QED BY <1>8, <1>10, <1>11, <1>12, <1>13 DEF IInv

\* The third: the set's own time to live.
LEMMA ExtendStep ==
    ASSUME IInv, NEW c \in Clients, GetExtend(c) PROVE IInv' /\ Forward
<1> USE TTLAssumption
<1> DEFINE l == call[c].left
<1>1. l \in 0 .. AbsTTL  BY CallFields
<1>2. /\ call[c].at = "extend" /\ call' = [call EXCEPT ![c] = Idle]
      /\ indexTTL' = IF index = {} THEN 0 ELSE Extend(indexTTL, l)
      /\ UNCHANGED <<clock, ttl, expiry, login, index, stray>>
  BY DEF GetExtend, Leave, Go
<1> HIDE DEF l
<1>3. indexTTL \in 0 .. Greatest(AbsTTL, Second)  BY DEF IInv, TypeOK
<1>4. /\ indexTTL' \in 0 .. Greatest(AbsTTL, Second) /\ (index' = {} <=> indexTTL' = 0)
      /\ index # {} => indexTTL' >= indexTTL /\ l < indexTTL' + Second
  <2>1. CASE index = {}  BY <1>2, <2>1 DEF Greatest
  <2>2. CASE index # {}
    <3>1. /\ indexTTL' \in 1 .. Greatest(AbsTTL, Second)
          /\ indexTTL' >= indexTTL /\ l < indexTTL' + Second
      BY <1>1, <1>2, <1>3, <2>2, ExtendBounds
    <3>2. indexTTL' \in 0 .. Greatest(AbsTTL, Second) /\ indexTTL' # 0  BY <3>1 DEF Greatest
    <3> QED BY <1>2, <2>2, <3>1, <3>2
  <2> QED BY <2>1, <2>2
<1>5. Live' = Live /\ Minted' = Minted  BY <1>2 DEF Live, Minted
<1>6. Forward  BY <1>2 DEF Forward
<1>7. call' \in [Clients -> Calls] /\ CallInv'
  <2>1. Idle \in Calls /\ StepOK(Idle)  BY IdleType, EndOK
  <2>2. login' \in [Tokens -> Tokens \cup {None}] /\ ttl' \in [Tokens -> 0 .. IdleTTL]
    BY <1>2 DEF IInv, TypeOK
  <2> QED BY <1>2, <1>6, <2>1, <2>2, CallKept DEF IInv
<1>8. TypeOK'  BY <1>2, <1>4, <1>5, <1>7 DEF IInv, TypeOK, Calls, Phases
<1>9. LifeInv' /\ LoginInv' /\ OneTokenPerLogin'
  BY <1>2, <1>5 DEF IInv, LifeInv, LoginInv, OneTokenPerLogin
<1>10. IndexInv'
  <2> SUFFICES ASSUME NEW u \in (Live \ stray)' PROVE Kept(u)'  BY DEF IndexInv
  <2>1. u \in Live /\ u \in Tokens /\ Kept(u)  BY <1>2, <1>5 DEF IInv, IndexInv, Live
  <2>2. ttl'[u] = ttl[u] /\ (u \in index' <=> u \in index)
        /\ (u \in index => indexTTL' >= indexTTL)
    BY <1>2, <1>4
  <2>3. CASE u \in index /\ ttl[u] <= l
    <3>1. ttl[u] \in Nat /\ indexTTL' \in Nat /\ l \in Nat
      BY <1>1, <1>4, <2>1 DEF IInv, TypeOK, Greatest
    <3>2. l < indexTTL' + Second  BY <1>4, <2>3
    <3>3. ttl'[u] = ttl[u] /\ ttl[u] <= l  BY <2>2, <2>3
    <3>4. ttl'[u] < indexTTL' + Second
      <4>1. ttl[u] < indexTTL' + Second  BY <3>1, <3>2, <3>3, Within
      <4> QED BY <3>3, <4>1
    <3> QED BY <2>2, <2>3, <3>4 DEF Kept
  <2>4. CASE u \notin index
    BY <1>2, <2>1, <2>4 DEF Kept
  <2>5. CASE ~(ttl[u] <= l)
    <3>1. ASSUME Pending(u) PROVE Pending(u)'
      <4>1. PICK d \in Clients : call[d].at = "extend" /\ call[d].token = u /\ ttl[u] <= call[d].left
        BY <3>1 DEF Pending
      <4>2. d # c  BY <2>5, <4>1 DEF l
      <4>3. call'[d] = call[d]  BY <1>2, <4>2 DEF IInv, TypeOK
      <4> QED BY <1>2, <4>1, <4>3 DEF Pending
    <3> QED BY <1>8, <2>1, <2>2, <3>1, KeptOn DEF IInv
  <2> QED BY <2>3, <2>4, <2>5
<1> QED BY <1>6, <1>7, <1>8, <1>9, <1>10 DEF IInv

\* A pending extension of another client stays pending.
LEMMA PendingKept ==
    ASSUME IInv, NEW c \in Clients, NEW s, Go(c, s),
           NEW u \in Tokens, call[c].at = "extend" => call[c].token # u,
           ttl'[u] = ttl[u], Pending(u)
    PROVE  Pending(u)'
BY DEF Pending, IInv, TypeOK, Go

\* A rotation of a session that is still there.
LEMMA RotateStep ==
    ASSUME IInv, NEW c \in Clients, RegenerateRotate(c) PROVE IInv' /\ Forward
<1> USE TTLAssumption
<1> DEFINE old == call[c].token
           w == call[c].left
<1>1. /\ call[c].at = "rotate" /\ Go(c, Idle) /\ UNCHANGED <<clock, stray>>
      /\ w \in 1 .. IdleTTL
  BY CallFields DEF RegenerateRotate, Leave, StepOK
<1>2. Idle \in Calls /\ StepOK(Idle)  BY IdleType, EndOK
<1>3. CASE old \notin Live
  <2>1. UNCHANGED <<ttl, expiry, login, index, indexTTL>>  BY <1>3 DEF RegenerateRotate
  <2> QED BY <1>1, <1>2, <2>1, OnlyCall DEF redisVars
<1>4. CASE old \in Live
  <2> HIDE DEF old, w
  <2>1. PICK new \in Tokens \ Minted :
          /\ ttl' = [ttl EXCEPT ![old] = 0, ![new] = w]
          /\ expiry' = [expiry EXCEPT ![new] = expiry[old]]
          /\ login' = [login EXCEPT ![new] = login[old]]
          /\ index' = (index \ {old}) \cup {new}
          /\ indexTTL' = Extend(WithoutTTL(index \ {old}), w)
    BY <1>4 DEF RegenerateRotate, Rotate, old, w
  <2>2. old \in Minted /\ old \in Tokens /\ old # new
    BY <1>4, <2>1 DEF IInv, LifeInv, Minted
  <2>3. /\ \A u \in Tokens : ttl'[u] = IF u = new THEN w ELSE IF u = old THEN 0 ELSE ttl[u]
        /\ ttl' \in [Tokens -> 0 .. IdleTTL]
    BY <1>1, <2>1, <2>2 DEF IInv, TypeOK
  <2>4. /\ \A u \in Tokens : login'[u] = IF u = new THEN login[old] ELSE login[u]
        /\ login' \in [Tokens -> Tokens \cup {None}]
    BY <2>1, <2>2 DEF IInv, TypeOK
  <2>5. Live' = (Live \ {old}) \cup {new} /\ Minted' = Minted \cup {new}
    BY <1>1, <2>1, <2>2, <2>3, <2>4 DEF Live, Minted
  <2>6. Live \subseteq Minted /\ new \notin Live  BY <2>1 DEF IInv, LifeInv
  <2>7. expiry' \in [Tokens -> Nat] /\ \A u \in Tokens : expiry'[u] <= clock' + AbsTTL
    BY <1>1, <2>1, <2>2 DEF IInv, LifeInv, TypeOK
  <2>8. /\ indexTTL' \in 1 .. Greatest(AbsTTL, Second) /\ w < indexTTL' + Second
        /\ index \ {old} # {} => indexTTL' >= indexTTL
    <3>1. /\ WithoutTTL(index \ {old}) \in 0 .. Greatest(AbsTTL, Second)
          /\ index \ {old} # {} => WithoutTTL(index \ {old}) = indexTTL
      BY DEF IInv, TypeOK, WithoutTTL, Greatest
    <3>2. w \in 0 .. AbsTTL  BY <1>1
    <3> QED BY <2>1, <3>1, <3>2, ExtendBounds
  <2>9. Forward
    BY <2>1, <2>3, <2>4 DEF Forward, Minted
  <2>10. call' \in [Clients -> Calls] /\ CallInv'
    BY <1>1, <1>2, <2>3, <2>4, <2>9, CallKept DEF IInv, Go
  <2>11. TypeOK'
    <3>1. index' # {} /\ index' \subseteq Minted'
      BY <2>1, <2>5 DEF IInv, TypeOK
    <3>2. indexTTL' \in 0 .. Greatest(AbsTTL, Second) /\ indexTTL' # 0
      BY <2>8 DEF Greatest
    <3> QED BY <1>1, <2>3, <2>4, <2>7, <2>10, <3>1, <3>2 DEF IInv, TypeOK, Calls, Phases
  <2>12. LifeInv'  BY <2>5, <2>6, <2>7 DEF LifeInv
  <2>13. LoginInv'
    BY <2>1, <2>2, <2>4, <2>5 DEF IInv, LoginInv, Minted
  <2>14. OneTokenPerLogin'
    <3>1. \A u \in Live \ {old} : login'[u] = login[u] /\ login[u] # login[old]
      BY <1>4, <2>4, <2>6 DEF IInv, OneTokenPerLogin, Live
    <3>2. login'[new] = login[old]  BY <2>4
    <3> QED BY <2>5, <3>1, <3>2 DEF IInv, OneTokenPerLogin
  <2>15. IndexInv'
    <3> SUFFICES ASSUME NEW u \in (Live \ stray)' PROVE Kept(u)'  BY DEF IndexInv
    <3>1. CASE u = new
      BY <2>1, <2>3, <2>8, <3>1 DEF Kept
    <3>2. CASE u # new
      <4>1. u \in Live /\ u # old /\ u \in Tokens  BY <2>5, <3>2 DEF Live
      <4>2. Kept(u)  BY <1>1, <4>1 DEF IInv, IndexInv
      <4>3. ttl'[u] = ttl[u] /\ (u \in index' <=> u \in index)
        BY <2>1, <2>3, <3>2, <4>1
      <4>4. Pending(u) => Pending(u)'  BY <1>1, <4>1, <4>3, PendingKept
      <4>5. u \in index => indexTTL' >= indexTTL  BY <2>8, <4>1
      <4> QED BY <2>11, <4>1, <4>2, <4>3, <4>4, <4>5, KeptOn DEF IInv
    <3> QED BY <3>1, <3>2
  <2> QED BY <2>9, <2>10, <2>11, <2>12, <2>13, <2>14, <2>15 DEF IInv
<1> QED BY <1>3, <1>4

\* What a removal must respect: a session that lives on keeps its entry and its pending
\* extension, or is recorded as stray.
LEMMA RemoveStep ==
    ASSUME IInv, NEW c \in Clients, NEW s \in Calls, StepOK(s), Go(c, s),
           call[c].at = "extend" => Live \cap {call[c].token} \subseteq stray',
           ttl' \in [Tokens -> 0 .. IdleTTL], \A u \in Tokens : ttl'[u] \in {0, ttl[u]},
           index' \subseteq index, indexTTL' = WithoutTTL(index'),
           UNCHANGED <<clock, expiry, login>>, stray \subseteq stray', stray' \subseteq Tokens,
           (Live' \cap index) \ stray' \subseteq index'
    PROVE  IInv' /\ Forward
<1> USE TTLAssumption
<1>1. Live' \subseteq Live /\ Minted' = Minted
  BY DEF Live, Minted
<1>2. Forward  BY DEF Forward
<1>3. call' \in [Clients -> Calls] /\ CallInv'
  <2>1. login' \in [Tokens -> Tokens \cup {None}]  BY DEF IInv, TypeOK
  <2> QED BY <1>2, <2>1, CallKept DEF IInv, Go
<1>4. TypeOK'
  <2>1. indexTTL' \in 0 .. Greatest(AbsTTL, Second) /\ (index' = {} <=> indexTTL' = 0)
    BY DEF IInv, TypeOK, WithoutTTL, Greatest
  <2>2. index' \subseteq Minted'  BY <1>1 DEF IInv, TypeOK
  <2> QED BY <1>3, <2>1, <2>2 DEF IInv, TypeOK, Calls, Phases
<1>5. LifeInv' /\ LoginInv' /\ OneTokenPerLogin'
  BY <1>1 DEF IInv, LifeInv, LoginInv, OneTokenPerLogin
<1>6. IndexInv'
  <2> SUFFICES ASSUME NEW u \in (Live \ stray)' PROVE Kept(u)'  BY DEF IndexInv
  <2>1. u \in Live /\ u \in Tokens /\ ttl'[u] = ttl[u]  BY <1>1 DEF Live
  <2>2. u \notin stray /\ Kept(u)  BY <2>1 DEF IInv, IndexInv
  <2>3. u \in index' <=> u \in index  OBVIOUS
  <2>4. u \in index => indexTTL' >= indexTTL
    BY <2>3 DEF WithoutTTL, IInv, TypeOK, Greatest
  <2>5. call[c].at = "extend" => call[c].token # u  BY <2>1
  <2>6. Pending(u) => Pending(u)'  BY <2>1, <2>5, PendingKept
  <2> QED BY <1>4, <2>1, <2>2, <2>3, <2>4, <2>6, KeptOn DEF IInv
<1> QED BY <1>2, <1>3, <1>4, <1>5, <1>6 DEF IInv

\* deleteScript: only the deleted session loses its entry.
LEMMA DeleteStep ==
    ASSUME IInv, NEW c \in Clients, DeleteRuns(c) PROVE IInv' /\ Forward
<1> USE TTLAssumption
<1> DEFINE t == call[c].token
<1>1. call[c].at = "delete" /\ UNCHANGED <<clock, expiry, login, stray>>  BY DEF DeleteRuns
<1>2. PICK s \in Calls : Go(c, s) /\ StepOK(s)
  BY CallFields, ContinueStep, EndOK DEF DeleteRuns
<1>3. CASE t \notin Live
  <2>1. UNCHANGED <<ttl, index, indexTTL>>  BY <1>3 DEF DeleteRuns
  <2> QED BY <1>1, <1>2, <2>1, OnlyCall DEF redisVars
<1>4. CASE t \in Live
  <2>1. /\ ttl' = [ttl EXCEPT ![t] = 0] /\ index' = index \ call[c].seen
        /\ indexTTL' = WithoutTTL(index \ call[c].seen)
    BY <1>4 DEF DeleteRuns
  <2>2. call[c].seen \subseteq {t}  BY <1>1, CallFields DEF StepOK
  <2> HIDE DEF t
  <2>3. ttl' \in [Tokens -> 0 .. IdleTTL] /\ \A u \in Tokens : ttl'[u] \in {0, ttl[u]}
    <3>1. ttl \in [Tokens -> 0 .. IdleTTL] /\ 0 \in 0 .. IdleTTL  BY DEF IInv, TypeOK
    <3>2. \A u \in Tokens : ttl'[u] = IF u = t THEN 0 ELSE ttl[u]  BY <2>1, <3>1
    <3>3. ttl' \in [Tokens -> 0 .. IdleTTL]  BY <2>1, <3>1
    <3> QED BY <3>2, <3>3
  <2>4. t \notin Live'  BY <2>1 DEF Live, IInv, TypeOK
  <2>5. (Live' \cap index) \subseteq index'  BY <2>1, <2>2, <2>4
  <2>6. stray' \subseteq Tokens /\ stray \subseteq stray'  BY <1>1 DEF IInv, TypeOK
  <2> QED BY <1>1, <1>2, <2>1, <2>3, <2>5, <2>6, RemoveStep
<1> QED BY <1>3, <1>4

\* DeleteAllForUser drops the set; tokens it had not seen become stray.
LEMMA RevokeStep ==
    ASSUME IInv, NEW c \in Clients, DeleteAllRuns(c) PROVE IInv' /\ Forward
<1> USE TTLAssumption
<1>1. /\ call[c].at = "revoke" /\ UNCHANGED <<clock, expiry, login>>
      /\ index' = {} /\ indexTTL' = 0 /\ Go(c, Idle)
      /\ stray' = stray \cup (index \ call[c].seen)
      /\ ttl' = [t \in Tokens |-> IF t \in call[c].seen THEN 0 ELSE ttl[t]]
  BY DEF DeleteAllRuns, Leave
<1>2. Idle \in Calls /\ StepOK(Idle)  BY IdleType, EndOK
<1>3. ttl' \in [Tokens -> 0 .. IdleTTL] /\ \A u \in Tokens : ttl'[u] \in {0, ttl[u]}
  BY <1>1 DEF IInv, TypeOK
<1>4. indexTTL' = WithoutTTL(index')  BY <1>1 DEF WithoutTTL
<1>5. Live' \cap call[c].seen = {}  BY <1>1 DEF Live
<1>6. stray \subseteq stray' /\ stray' \subseteq Tokens
  BY <1>1 DEF IInv, TypeOK, Minted
<1>7. (Live' \cap index) \ stray' \subseteq index'  BY <1>1, <1>5
<1> QED BY <1>1, <1>2, <1>3, <1>4, <1>6, <1>7, RemoveStep

\* List prunes entries whose sessions were gone, and still are.
LEMMA PruneStep ==
    ASSUME IInv, NEW c \in Clients, ListPrunes(c) PROVE IInv' /\ Forward
<1>1. /\ call[c].at = "prune" /\ UNCHANGED <<clock, ttl, expiry, login, stray>>
      /\ index' = index \ call[c].seen /\ indexTTL' = WithoutTTL(index \ call[c].seen)
  BY DEF ListPrunes
<1>2. PICK s \in Calls : Go(c, s) /\ StepOK(s)
  BY CallFields, ContinueStep, EndOK DEF ListPrunes
<1>3. call[c].seen \cap Live = {} /\ Live' = Live
  BY <1>1, CallFields DEF StepOK, Live
<1>4. ttl' \in [Tokens -> 0 .. IdleTTL] /\ stray' \subseteq Tokens /\ stray \subseteq stray'
  BY <1>1 DEF IInv, TypeOK
<1>5. (Live' \cap index) \subseteq index'  BY <1>1, <1>3
<1> QED BY <1>1, <1>2, <1>4, <1>5, RemoveStep

\* Redis does not answer: nothing is written, and a session whose extension is missed is stray.
LEMMA FailStep ==
    ASSUME IInv, NEW c \in Clients, Fails(c) PROVE IInv' /\ Forward
<1>1. /\ UNCHANGED <<clock, ttl, expiry, login, index, indexTTL>>
      /\ stray' = IF call[c].at = "extend" THEN stray \cup (Live \cap {call[c].token}) ELSE stray
  BY DEF Fails
<1>2. PICK s \in Calls : Go(c, s) /\ StepOK(s)
  <2>1. CASE call[c].at = "refresh"
    <3> DEFINE s == AtToken("extend", call[c].token, call[c].left)
    <3>1. s \in Calls
      <4>1. call[c].token \in Tokens \cup {None} /\ call[c].left \in 0 .. AbsTTL
        BY CallFields DEF Calls
      <4> QED BY <4>1, OpType DEF AtToken, Phases
    <3>2. s.at = "extend"  BY DEF AtToken, Op
    <3>3. Go(c, s)  BY <2>1 DEF Fails
    <3> HIDE DEF s
    <3> QED BY <3>1, <3>2, <3>3, EndOK
  <2>2. CASE call[c].at = "prune"
    <3>1. Continue(c, call[c].found)  BY <2>2 DEF Fails
    <3> QED BY <3>1, CallFields, ContinueStep, EndOK
  <2>3. CASE call[c].at \notin {"refresh", "prune"}
    <3>1. Go(c, Idle)  BY <2>3 DEF Fails, Leave
    <3> QED BY <3>1, IdleType, EndOK
  <2> QED BY <2>1, <2>2, <2>3
<1>3. /\ stray \subseteq stray' /\ stray' \subseteq Tokens
      /\ call[c].at = "extend" => Live \cap {call[c].token} \subseteq stray'
  BY <1>1 DEF IInv, TypeOK, Live
<1>4. indexTTL' = WithoutTTL(index')  BY <1>1 DEF WithoutTTL, IInv, TypeOK
<1>5. ttl' \in [Tokens -> 0 .. IdleTTL]  BY <1>1 DEF IInv, TypeOK
<1> QED BY <1>1, <1>2, <1>3, <1>4, <1>5, RemoveStep

-----------------------------------------------------------------------------
(* The theorems.                                                           *)

\* Initial states satisfy the invariant.
LEMMA InvInit == Init => IInv
<1> SUFFICES ASSUME Init PROVE IInv  OBVIOUS
<1> USE TTLAssumption
<1>1. Live = {} /\ Minted = {}  BY DEF Init, Live, Minted
<1>2. call \in [Clients -> Calls]  BY IdleType DEF Init
<1>3. TypeOK
  <2>1. clock \in 0 .. MaxTime /\ indexTTL \in 0 .. Greatest(AbsTTL, Second)
    BY DEF Init, Greatest
  <2>2. ttl \in [Tokens -> 0 .. IdleTTL] /\ expiry \in [Tokens -> Nat]  BY DEF Init
  <2>3. login \in [Tokens -> Tokens \cup {None}]  BY DEF Init
  <2>4. index \subseteq Minted /\ (index = {} <=> indexTTL = 0)  BY DEF Init
  <2>5. stray \subseteq Tokens  BY DEF Init
  <2> QED BY <1>2, <2>1, <2>2, <2>3, <2>4, <2>5 DEF TypeOK, Calls, Phases
<1>4. CallInv
  <2>1. StepOK(Idle)  BY IdleType, EndOK
  <2> QED BY <2>1 DEF Init, CallInv
<1>5. LifeInv /\ LoginInv /\ OneTokenPerLogin /\ IndexInv
  BY <1>1 DEF Init, LifeInv, LoginInv, OneTokenPerLogin, IndexInv
<1> QED BY <1>3, <1>4, <1>5 DEF IInv

\* Every step keeps it and brings nothing back.
LEMMA InvStep == ASSUME IInv, [Next]_vars PROVE IInv' /\ Forward
<1>1. CASE Tick  BY <1>1, TickStep
<1>2. ASSUME NEW c \in Clients, Request(c) PROVE IInv' /\ Forward
  BY <1>2, CreateStep, GetStep, BeginStep DEF Request
<1>3. ASSUME NEW c \in Clients, Step(c) PROVE IInv' /\ Forward
  BY <1>3, RefreshStep, ExtendStep, RotateStep, ReadStep, DeleteStep, RevokeStep,
     PruneStep, FailStep DEF Step
<1>4. CASE UNCHANGED vars
  <2>1. Forward  BY <1>4 DEF vars, redisVars, Forward
  <2>2. IInv'
    BY <1>4 DEF vars, redisVars, IInv, TypeOK, CallInv, StepOK, LifeInv, LoginInv,
       OneTokenPerLogin, IndexInv, Kept, Pending, Live, Minted
  <2> QED BY <2>1, <2>2
<1> QED BY <1>1, <1>2, <1>3, <1>4 DEF Next

\* The invariant holds throughout.
LEMMA Invariant == Spec => []IInv
BY InvInit, InvStep, PTL DEF Spec

\* The set's life and its members agree, and every window stays within its bound.
THEOREM TypeCorrect == Spec => []TypeOK
<1>1. IInv => TypeOK  BY DEF IInv
<1> QED BY <1>1, Invariant, PTL

\* Rotation leaves at most one usable token of each login, for any number of requests
\* that rotate, delete and revoke it at once.
THEOREM SingleToken == Spec => []OneTokenPerLogin
<1>1. IInv => OneTokenPerLogin  BY DEF IInv
<1> QED BY <1>1, Invariant, PTL

\* Every live session can be listed and revoked until its last second, but for the ones
\* that a recorded mishap took out of the set's care.
THEOREM SessionsAreIndexed == Spec => []Indexed
<1>1. IInv => Indexed  BY DEF IInv, IndexInv, Kept, Indexed
<1> QED BY <1>1, Invariant, PTL

\* No call brings back a session that has ended, however long ago the call read it.
THEOREM GoneStaysGone == Spec => NoResurrection
<1>1. IInv /\ [Next]_vars => [\A t \in Minted : ttl[t] = 0 => ttl'[t] = 0]_vars
  BY InvStep DEF Forward, Minted
<1> QED BY <1>1, Invariant, PTL DEF Spec, NoResurrection
=============================================================================
