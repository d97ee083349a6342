-------------------------- MODULE RevisionsProofs --------------------------
(***************************************************************************)
(* Proofs about Revisions for any number of writers and sweepers, any      *)
(* policy and any length of the history.                                   *)
(***************************************************************************)
EXTENDS Revisions, FiniteSetTheorems, WellFoundedInduction, TLAPS

-----------------------------------------------------------------------------
(* The operators.                                                          *)

\* A non-empty set of numbers has a least member.
LEMMA LeastExists ==
    ASSUME NEW S \in SUBSET Nat, S # {}
    PROVE  \E m \in S : \A q \in S : m <= q
<1>1. PICK m \in S : \A y \in S : ~ (<<y, m>> \in OpToRel(<, Nat))
  BY NatLessThanWellFounded, WFMin
<1>2. ASSUME NEW q \in S, q < m PROVE <<q, m>> \in OpToRel(<, Nat)
  BY <1>2 DEF OpToRel
<1>3. ASSUME NEW q \in S PROVE m <= q
  <2>1. ~ (q < m)  BY <1>1, <1>2
  <2> QED BY <2>1
<1> QED BY <1>3

\* A non-empty set of ids has an oldest member.
LEMMA OldestExists ==
    ASSUME NEW S \in SUBSET Ids, S # {}
    PROVE  Oldest(S) \in S /\ \A q \in S : Oldest(S) <= q
<1>1. S \subseteq Nat  BY BoundAssumption DEF Ids
<1>2. \E m \in S : \A q \in S : m <= q  BY <1>1, LeastExists
<1> QED BY <1>2 DEF Oldest

\* And a latest one.
LEMMA LatestExists ==
    ASSUME NEW S \in SUBSET Ids, S # {}
    PROVE  Latest(S) \in S /\ \A q \in S : q <= Latest(S)
<1> DEFINE T == {n \in Nat : MaxTime - n \in S}
<1>0. S \subseteq Nat /\ \A x \in S : x <= MaxTime  BY BoundAssumption DEF Ids
<1>1. T \subseteq Nat /\ T # {}
  <2>1. PICK x \in S : TRUE  OBVIOUS
  <2>2. MaxTime - x \in Nat /\ MaxTime - (MaxTime - x) = x  BY <1>0, BoundAssumption
  <2>3. MaxTime - x \in T  BY <2>1, <2>2
  <2> QED BY <2>3
<1>2. PICK m \in T : \A n \in T : m <= n
  <2> HIDE DEF T
  <2> QED BY <1>1, LeastExists
<1>3. \A q \in S : q <= MaxTime - m
  <2> SUFFICES ASSUME NEW q \in S, MaxTime - m < q PROVE FALSE
    BY <1>0, <1>1, BoundAssumption
  <2>1. MaxTime - q \in Nat /\ MaxTime - (MaxTime - q) = q /\ MaxTime - q < m
    BY <1>0, <1>1, BoundAssumption
  <2>2. MaxTime - q \in T  BY <2>1
  <2> QED BY <1>1, <1>2, <2>1, <2>2
<1>4. MaxTime - m \in S  BY <1>2
<1> QED BY <1>3, <1>4 DEF Latest

\* What is reached from S has S and is closed under parents.
LEMMA ReachClosed ==
    ASSUME NEW S \in SUBSET Ids, \A r \in Stored : rev[r].from \in Ids \cup {0}
    PROVE  /\ S \subseteq Reach(S) /\ Reach(S) \subseteq Ids
           /\ Parents(Reach(S)) \subseteq Reach(S)
<1>1. S \subseteq Reach(S) /\ Reach(S) \subseteq Ids  BY DEF Reach
<1>2. ASSUME NEW x \in Parents(Reach(S)) PROVE x \in Reach(S)
  <2>1. PICK r \in Reach(S) \cap Stored : x = rev[r].from /\ x # 0  BY <1>2 DEF Parents
  <2>2. x \in Ids  BY <2>1
  <2>3. ASSUME NEW T \in SUBSET Ids, S \subseteq T, Parents(T) \subseteq T PROVE x \in T
    <3>1. r \in T  BY <2>1, <2>3 DEF Reach
    <3>2. x \in Parents(T)  BY <2>1, <3>1 DEF Parents
    <3> QED BY <2>3, <3>2
  <2> QED BY <2>2, <2>3 DEF Reach
<1> QED BY <1>1, <1>2

\* And it is the least such set.
LEMMA ReachLeast ==
    ASSUME NEW S, NEW T \in SUBSET Ids, S \subseteq T, Parents(T) \subseteq T
    PROVE  Reach(S) \subseteq T
BY DEF Reach

-----------------------------------------------------------------------------
(* Types.                                                                  *)

\* A row is not the absent row.
LEMMA RowFacts == NoRow \notin Row
BY DEF NoRow, Row, Kinds

\* The ids are natural numbers; 0 is none of them.
LEMMA IdFacts == Ids \subseteq Nat /\ 0 \notin Ids /\ \A r \in Ids : r <= MaxTime
BY BoundAssumption DEF Ids

\* A call that is on its way to the INSERT knows its row.
Busy(w) == save[w].at \in {"count", "age", "parent", "walk", "insert"}
BusyInv == \A w \in Writers : Busy(w) => save[w].id \in Ids /\ save[w].kind \in Kinds

\* The fields of a call.
LEMMA CallFields ==
    ASSUME TypeOK, NEW w \in Writers
    PROVE  /\ save[w].at \in Step /\ save[w].id \in Ids \cup {0}
           /\ save[w].kind \in Kinds \cup {"none"} /\ save[w].pinned \in BOOLEAN
           /\ save[w].parent \in Ids \cup {0} /\ save[w].walk \in Ids \cup {0}
BY DEF TypeOK, Call

\* A call that moves on is a call, and keeps its id and kind.
LEMMA MovedType ==
    ASSUME TypeOK, NEW w \in Writers, NEW at \in Step,
           NEW parent \in Ids \cup {0}, NEW walk \in Ids \cup {0}
    PROVE  /\ Moved(w, at, parent, walk) \in Call
           /\ Moved(w, at, parent, walk).at = at
           /\ Moved(w, at, parent, walk).id = save[w].id
           /\ Moved(w, at, parent, walk).kind = save[w].kind
BY CallFields DEF Moved, Call

\* So is a call that starts.
LEMMA StartedType ==
    ASSUME TypeOK, clock <= MaxTime, NEW at \in Step, NEW kind \in Kinds, NEW pinned \in BOOLEAN
    PROVE  /\ Started(at, kind, pinned) \in Call
           /\ Started(at, kind, pinned).at = at
           /\ Started(at, kind, pinned).id = clock /\ clock \in Ids
           /\ Started(at, kind, pinned).kind = kind
<1>1. clock \in Ids  BY BoundAssumption DEF TypeOK, Ids
<1> QED BY <1>1 DEF Started, Call

\* And one that is over.
LEMMA IdleType == Idle \in Call /\ Idle.at = "idle" /\ Idle.id = 0 /\ Idle.kind = "none"
BY DEF Idle, Call, Step

\* A stored row has the type of one.
LEMMA StoredType ==
    ASSUME TypeOK, NEW r \in Stored
    PROVE  /\ r \in Ids /\ rev[r] \in Row
           /\ rev[r].kind \in Kinds /\ rev[r].from \in Ids \cup {0}
BY RowFacts DEF TypeOK, Stored, Row

\* What a writer's step does to its call: it ends, moves on with its id and kind, starts
\* with the id of now, or begins to read for a restore.
CallStep(w) ==
    \E c \in Call :
        /\ save' = [save EXCEPT ![w] = c]
        /\ \/ c = Idle /\ clock' = clock
           \/ /\ c.id = save[w].id /\ c.kind = save[w].kind /\ clock' = clock
              /\ c.at \in {"count", "age", "parent", "walk", "insert"} => Busy(w)
           \/ /\ clock <= MaxTime /\ clock' = clock + 1 /\ clock \in Ids
              /\ c.id = clock /\ c.kind \in Kinds
           \/ c.at = "restore" /\ c.id = 0 /\ clock' = clock

\* A walk of a chain leaves, moves on or is done.
LEMMA WalkCases ==
    ASSUME TypeOK, NEW w \in Writers, NEW then, Walk(w, then)
    PROVE  \/ Go(w, Idle) \/ Go(w, then)
           \/ \E f \in Ids \cup {0} : Go(w, Moved(w, save[w].at, save[w].parent, f))
<1> DEFINE r == save[w].walk
<1>1. CASE r \notin Stored  BY <1>1 DEF Walk, Leave
<1>2. CASE r \in Stored /\ IsSnapshot(r)  BY <1>2 DEF Walk
<1>3. CASE r \in Stored /\ ~ IsSnapshot(r)
  <2>1. rev[r].from \in Ids \cup {0}  BY <1>3, StoredType
  <2> QED BY <1>3, <2>1 DEF Walk
<1> QED BY <1>1, <1>2, <1>3

\* Every step of a writer is one of these; only the INSERT changes the history.
LEMMA WriterCases ==
    ASSUME TypeOK, NEW w \in Writers, WriterStep(w)
    PROVE  /\ CallStep(w) /\ UNCHANGED sweep
           /\ rev' = rev \/ SaveInsert(w)
<1>0. ASSUME NEW at \in Step, NEW p \in Ids \cup {0}, NEW x \in Ids \cup {0},
             Go(w, Moved(w, at, p, x)), clock' = clock, Busy(w)
      PROVE  CallStep(w)
  <2> DEFINE c == Moved(w, at, p, x)
  <2>1. c \in Call /\ c.id = save[w].id /\ c.kind = save[w].kind  BY MovedType
  <2> HIDE DEF c
  <2>2. save' = [save EXCEPT ![w] = c]  BY <1>0 DEF Go, c
  <2> QED BY <1>0, <2>1, <2>2 DEF CallStep
<1>l. ASSUME Go(w, Idle), clock' = clock PROVE CallStep(w)
  BY <1>l, IdleType DEF CallStep, Go
<1>1. ASSUME Save(w) PROVE CallStep(w)
  <2>1. PICK at \in {"count", "insert"}, q \in Requests : Go(w, Started(at, q[1], q[2]))
    BY <1>1 DEF Save
  <2>2. q[1] \in Kinds /\ q[2] \in BOOLEAN /\ at \in Step
    BY KnobsAssumption DEF Step
  <2>3. clock <= MaxTime /\ clock' = clock + 1  BY <1>1 DEF Save
  <2> DEFINE c == Started(at, q[1], q[2])
  <2>4. c \in Call /\ c.id = clock /\ clock \in Ids /\ c.kind \in Kinds
    BY <2>2, <2>3, StartedType
  <2> HIDE DEF c
  <2>5. save' = [save EXCEPT ![w] = c]  BY <2>1 DEF Go, c
  <2> QED BY <2>3, <2>4, <2>5 DEF CallStep
<1>2. ASSUME SaveCount(w) \/ SaveAge(w) PROVE CallStep(w)
  <2>1. PICK at \in {"insert", "age", "parent"} : GoTo(w, at)
    BY <1>2 DEF SaveCount, SaveAge
  <2>2. Busy(w) /\ clock' = clock /\ at \in Step  BY <1>2 DEF SaveCount, SaveAge, Busy, Step
  <2> QED BY <1>0, <2>1, <2>2, CallFields DEF GoTo
<1>3. ASSUME SaveParent(w) PROVE CallStep(w)
  <2>1. Busy(w) /\ clock' = clock /\ "insert" \in Step /\ "walk" \in Step
    BY <1>3 DEF SaveParent, Busy, Step
  <2>2. CASE GoTo(w, "insert")
    BY <1>0, <2>1, <2>2, CallFields DEF GoTo
  <2>3. CASE Stored # {} /\ Go(w, Moved(w, "walk", Latest(Stored), Latest(Stored)))
    <3>1. Latest(Stored) \in Ids  BY <2>3, LatestExists DEF Stored
    <3> QED BY <1>0, <2>1, <2>3, <3>1
  <2> QED BY <1>3, <2>2, <2>3 DEF SaveParent
<1>4. ASSUME SaveWalk(w) PROVE CallStep(w)
  <2>1. Busy(w) /\ clock' = clock /\ "insert" \in Step
        /\ Walk(w, Moved(w, "insert", save[w].parent, save[w].walk))
    BY <1>4 DEF SaveWalk, Busy, Step
  <2> QED BY <1>0, <1>l, <2>1, WalkCases, CallFields
<1>5. ASSUME SaveInsert(w) \/ SaveFails(w) PROVE CallStep(w)
  BY <1>5, <1>l DEF SaveInsert, SaveFails, Leave
<1>6. ASSUME Restore(w) PROVE CallStep(w)
  <2>1. PICK r \in Stored :
            Go(w, [at |-> "restore", id |-> 0, kind |-> "none", pinned |-> FALSE,
                   parent |-> 0, walk |-> r])
    BY <1>6 DEF Restore
  <2> DEFINE c == [at |-> "restore", id |-> 0, kind |-> "none", pinned |-> FALSE,
                   parent |-> 0, walk |-> r]
  <2>2. c \in Call /\ c.at = "restore" /\ c.id = 0  BY StoredType DEF Call, Step
  <2>3. clock' = clock  BY <1>6 DEF Restore
  <2> HIDE DEF c
  <2>4. save' = [save EXCEPT ![w] = c]  BY <2>1 DEF Go, c
  <2> QED BY <2>2, <2>3, <2>4 DEF CallStep
<1>7. ASSUME RestoreWalk(w) PROVE CallStep(w)
  <2> DEFINE new == Started("insert", "manual", FALSE)
  <2>1. /\ save[w].at = "restore" /\ clock <= MaxTime /\ Walk(w, new)
        /\ clock' = IF save'[w].at = "insert" THEN clock + 1 ELSE clock
    BY <1>7 DEF RestoreWalk
  <2>2. /\ new \in Call /\ new.at = "insert" /\ new.id = clock /\ clock \in Ids
        /\ new.kind \in Kinds
    BY <2>1, StartedType DEF Step, Kinds
  <2> HIDE DEF new
  <2>3. save \in [Writers -> Call]  BY DEF TypeOK
  <2>4. CASE Go(w, Idle)
    <3>1. clock' = clock  BY <2>1, <2>3, <2>4, IdleType DEF Go
    <3> QED BY <1>l, <2>4, <3>1
  <2>5. CASE Go(w, new)
    <3>1. clock' = clock + 1  BY <2>1, <2>2, <2>3, <2>5 DEF Go
    <3> QED BY <2>1, <2>2, <2>5, <3>1 DEF CallStep, Go
  <2>6. ASSUME NEW f \in Ids \cup {0}, Go(w, Moved(w, save[w].at, save[w].parent, f))
        PROVE  CallStep(w)
    <3> DEFINE c == Moved(w, save[w].at, save[w].parent, f)
    <3>0. save[w].at \in Step /\ save[w].parent \in Ids \cup {0}  BY CallFields
    <3>1. c \in Call /\ c.at = "restore" /\ c.id = save[w].id /\ c.kind = save[w].kind
      BY <2>1, <3>0, MovedType
    <3> HIDE DEF c
    <3>2. save' = [save EXCEPT ![w] = c]  BY <2>6 DEF Go, c
    <3>3. clock' = clock  BY <2>1, <2>3, <3>1, <3>2
    <3> QED BY <3>1, <3>2, <3>3 DEF CallStep
  <2> QED BY <2>1, <2>4, <2>5, <2>6, WalkCases
<1>8. UNCHANGED sweep /\ (rev' = rev \/ SaveInsert(w))
  BY DEF WriterStep, Save, SaveCount, SaveAge, SaveParent, SaveWalk, SaveInsert, SaveFails,
         Restore, RestoreWalk
<1> QED BY <1>1, <1>2, <1>3, <1>4, <1>5, <1>6, <1>7, <1>8 DEF WriterStep

\* What the INSERT of a Save does when it changes the history.
LEMMA InsertFacts ==
    ASSUME TypeOK, BusyInv, NEW w \in Writers, SaveInsert(w), rev' # rev
    PROVE  /\ save[w].at = "insert" /\ save[w].id \in Ids
           /\ save' = [save EXCEPT ![w] = Idle] /\ UNCHANGED <<clock, sweep>>
           /\ \E row \in Row : /\ rev' = [rev EXCEPT ![save[w].id] = row]
                               /\ row.from \in Stored \cup {0}
<1> DEFINE row == [kind |-> save[w].kind, author |-> w,
                   from |-> save[w].parent, pinned |-> save[w].pinned]
<1>1. save[w].at = "insert" /\ save[w].id \in Ids /\ save[w].kind \in Kinds
  BY DEF SaveInsert, BusyInv, Busy
<1>2. row \in Row /\ row.from = save[w].parent  BY <1>1, CallFields DEF Row
<1>3. save[w].parent \in Stored \cup {0} /\ rev' = [rev EXCEPT ![save[w].id] = row]
  BY DEF SaveInsert
<1> HIDE DEF row
<1>4. save' = [save EXCEPT ![w] = Idle] /\ UNCHANGED <<clock, sweep>>
  BY DEF SaveInsert, Leave, Go
<1> QED BY <1>1, <1>2, <1>3, <1>4

\* What a step of a Prune does: take a list, drop it, or delete its oldest row.
TakesList(s) == sweep' = [sweep EXCEPT ![s] = classifyForPrune] /\ rev' = rev
DropsList(s) == sweep' = [sweep EXCEPT ![s] = {}] /\ rev' = rev
Deletes(s, d) ==
    /\ d \in sweep[s] /\ ~ Referenced(d)
    /\ sweep' = [sweep EXCEPT ![s] = @ \ {d}]
    /\ rev' = [rev EXCEPT ![d] = NoRow]

\* Every step of a sweeper is one of these.
LEMMA SweeperCases ==
    ASSUME TypeOK, NEW s \in Sweepers, SweeperStep(s)
    PROVE  /\ UNCHANGED <<clock, save>>
           /\ TakesList(s) \/ DropsList(s) \/ \E d \in Ids : Deletes(s, d)
<1>1. UNCHANGED <<clock, save>>  BY DEF SweeperStep, Prune, PruneDelete, PruneFails
<1>2. ASSUME PruneDelete(s) PROVE DropsList(s) \/ \E d \in Ids : Deletes(s, d)
  <2> DEFINE d == Oldest(sweep[s])
  <2>1. d \in sweep[s] /\ d \in Ids  BY <1>2, OldestExists DEF PruneDelete, TypeOK
  <2>2. IF Referenced(d)
        THEN sweep' = [sweep EXCEPT ![s] = {}] /\ UNCHANGED rev
        ELSE /\ sweep' = [sweep EXCEPT ![s] = @ \ {d}]
             /\ rev' = [rev EXCEPT ![d] = NoRow]
    BY <1>2 DEF PruneDelete
  <2> HIDE DEF d
  <2> QED BY <2>1, <2>2 DEF DropsList, Deletes
<1>3. ASSUME Prune(s) PROVE TakesList(s)  BY <1>3 DEF Prune, TakesList
<1>4. ASSUME PruneFails(s) PROVE DropsList(s)  BY <1>4 DEF PruneFails, DropsList
<1> QED BY <1>1, <1>2, <1>3, <1>4 DEF SweeperStep

\* Every step keeps the types.
LEMMA TypeStep == ASSUME TypeOK, BusyInv, [Next]_vars PROVE TypeOK' /\ BusyInv'
<1>1. ASSUME Tick PROVE TypeOK' /\ BusyInv'
  BY <1>1, BoundAssumption DEF Tick, TypeOK, BusyInv, Busy
<1>2. ASSUME NEW w \in Writers, WriterStep(w) PROVE TypeOK' /\ BusyInv'
  <2>1. CallStep(w) /\ UNCHANGED sweep  BY <1>2, WriterCases
  <2>2. PICK c \in Call :
        /\ save' = [save EXCEPT ![w] = c]
        /\ \/ c = Idle /\ clock' = clock
           \/ /\ c.id = save[w].id /\ c.kind = save[w].kind /\ clock' = clock
              /\ c.at \in {"count", "age", "parent", "walk", "insert"} => Busy(w)
           \/ /\ clock <= MaxTime /\ clock' = clock + 1 /\ clock \in Ids
              /\ c.id = clock /\ c.kind \in Kinds
           \/ c.at = "restore" /\ c.id = 0 /\ clock' = clock
    BY <2>1 DEF CallStep
  <2>3. save' \in [Writers -> Call]  BY <2>2 DEF TypeOK
  <2>4. clock' \in 1 .. (MaxTime + 1)  BY <2>2, BoundAssumption DEF TypeOK
  <2>5. rev' \in [Ids -> Row \cup {NoRow}]
    <3>1. CASE rev' = rev  BY <3>1 DEF TypeOK
    <3>2. CASE rev' # rev
      <4>1. PICK row \in Row : rev' = [rev EXCEPT ![save[w].id] = row]
        BY <1>2, <3>2, WriterCases, InsertFacts
      <4> QED BY <4>1 DEF TypeOK
    <3> QED BY <3>1, <3>2
  <2>6. c.at \in {"count", "age", "parent", "walk", "insert"} => c.id \in Ids /\ c.kind \in Kinds
    BY <2>2, IdleType DEF BusyInv
  <2>7. \A v \in Writers : save'[v] = IF v = w THEN c ELSE save[v]  BY <2>2 DEF TypeOK
  <2>8. BusyInv'  BY <2>6, <2>7 DEF BusyInv, Busy
  <2> QED BY <2>1, <2>3, <2>4, <2>5, <2>8 DEF TypeOK
<1>3. ASSUME NEW s \in Sweepers, SweeperStep(s) PROVE TypeOK' /\ BusyInv'
  <2>0. UNCHANGED <<clock, save>>  BY <1>3, SweeperCases
  <2>1. classifyForPrune \subseteq Ids  BY DEF classifyForPrune, Dropped, Stored
  <2>2. CASE TakesList(s) \/ DropsList(s)
    BY <2>0, <2>1, <2>2 DEF TakesList, DropsList, TypeOK, BusyInv, Busy
  <2>3. ASSUME NEW d \in Ids, Deletes(s, d) PROVE TypeOK' /\ BusyInv'
    BY <2>0, <2>3 DEF Deletes, TypeOK, BusyInv, Busy
  <2> QED BY <1>3, <2>2, <2>3, SweeperCases
<1>4. CASE UNCHANGED vars
  BY <1>4 DEF vars, TypeOK, BusyInv, Busy
<1> QED BY <1>1, <1>2, <1>3, <1>4 DEF Next

\* Rows, calls and lists have their types, in every history.
THEOREM TypeCorrect == Spec => [](TypeOK /\ BusyInv)
<1>1. Init => TypeOK /\ BusyInv
  <2> SUFFICES ASSUME Init PROVE TypeOK /\ BusyInv
    OBVIOUS
  <2>1. save \in [Writers -> Call] /\ \A w \in Writers : save[w].at = "idle"
    BY IdleType DEF Init
  <2>2. clock \in 1 .. (MaxTime + 1)  BY BoundAssumption DEF Init
  <2>3. rev \in [Ids -> Row \cup {NoRow}] /\ sweep \in [Sweepers -> SUBSET Ids]  BY DEF Init
  <2> QED BY <2>1, <2>2, <2>3 DEF TypeOK, BusyInv, Busy
<1>2. ASSUME TypeOK /\ BusyInv, [Next]_vars PROVE (TypeOK /\ BusyInv)'
  BY <1>2, TypeStep
<1> QED BY <1>1, <1>2, PTL DEF Spec

-----------------------------------------------------------------------------
(* A revision is created once: the row of a pending Save is nowhere yet,   *)
(* neither in the history nor on the list of a Prune.                      *)

FreshInv ==
    /\ \A r \in Stored : r < clock
    /\ \A s \in Sweepers : \A r \in sweep[s] : r < clock
    /\ \A w \in Writers :
        /\ save[w].id < clock
        /\ save[w].id # 0 =>
            /\ save[w].id \notin Stored
            /\ \A s \in Sweepers : save[w].id \notin sweep[s]
            /\ \A v \in Writers \ {w} : save[v].id # save[w].id

\* The rows of the history after an INSERT.
LEMMA StoredInsert ==
    ASSUME TypeOK, NEW n \in Ids, NEW row \in Row, rev' = [rev EXCEPT ![n] = row]
    PROVE  Stored' = Stored \cup {n}
BY RowFacts DEF Stored, TypeOK

\* And after a DELETE.
LEMMA StoredDelete ==
    ASSUME TypeOK, NEW d \in Ids, rev' = [rev EXCEPT ![d] = NoRow]
    PROVE  Stored' = Stored \ {d}
BY DEF Stored, TypeOK

\* Every step keeps pending rows fresh.
LEMMA FreshStep == ASSUME TypeOK, BusyInv, FreshInv, [Next]_vars PROVE FreshInv'
<1>t. /\ clock \in Nat /\ 0 < clock /\ Ids \subseteq Nat /\ 0 \notin Ids
      /\ \A w \in Writers : save[w].id \in Ids \cup {0}
      /\ \A s \in Sweepers : sweep[s] \in SUBSET Ids
      /\ Stored \subseteq Ids
  <2>1. clock \in Nat /\ 0 < clock /\ Ids \subseteq Nat /\ 0 \notin Ids
    BY IdFacts, BoundAssumption DEF TypeOK
  <2>2. \A w \in Writers : save[w].id \in Ids \cup {0}  BY CallFields
  <2> QED BY <2>1, <2>2 DEF TypeOK, Stored
<1>i. ASSUME NEW w \in Writers PROVE save[w].id \in Nat /\ save[w].id < clock
  <2>1. save[w].id < clock  BY DEF FreshInv
  <2>2. save[w].id \in Ids \cup {0}  BY <1>t
  <2>3. save[w].id \in Nat  BY <2>2, BoundAssumption DEF Ids
  <2> QED BY <2>1, <2>3
<1>1. ASSUME Tick PROVE FreshInv'
  <2>1. Stored' = Stored /\ clock' = clock + 1 /\ UNCHANGED <<save, sweep>>
    BY <1>1 DEF Tick, Stored
  <2>2. \A n \in Nat : n < clock => n < clock'  BY <1>t, <2>1
  <2> QED BY <1>t, <2>1, <2>2 DEF FreshInv
<1>2. ASSUME NEW w \in Writers, WriterStep(w) PROVE FreshInv'
  <2>1. PICK c \in Call :
        /\ save' = [save EXCEPT ![w] = c]
        /\ \/ c.id = 0 /\ clock' = clock
           \/ c.id = save[w].id /\ clock' = clock
           \/ c.id = clock /\ clock' = clock + 1
    BY <1>2, WriterCases, IdleType DEF CallStep
  <2>2. \A v \in Writers : save'[v].id = IF v = w THEN c.id ELSE save[v].id
    BY <2>1 DEF TypeOK
  <2>3. UNCHANGED sweep  BY <1>2, WriterCases
  <2>4. CASE rev' = rev
    <3>1. Stored' = Stored  BY <2>4 DEF Stored
    <3>2. \A n \in Nat : n < clock => n < clock'  BY <1>t, <2>1
    <3>3. \A r \in Stored' : r < clock'  BY <1>t, <3>1, <3>2 DEF FreshInv
    <3>4. \A s \in Sweepers : \A r \in sweep'[s] : r < clock'
      BY <1>t, <2>3, <3>2 DEF FreshInv
    <3>5. ASSUME NEW v \in Writers PROVE save'[v].id < clock'
      <4>1. c.id < clock'
        <5>1. save[w].id \in Nat /\ save[w].id < clock  BY <1>i
        <5> QED BY <1>t, <2>1, <5>1
      <4>2. save[v].id \in Nat /\ save[v].id < clock  BY <1>i
      <4> QED BY <2>2, <3>2, <4>1, <4>2
    <3>6. c.id # 0 => c.id \notin Stored /\ (\A s \in Sweepers : c.id \notin sweep[s])
                      /\ \A v \in Writers \ {w} : save[v].id # c.id
      <4>1. CASE c.id = clock
        BY <1>t, <4>1 DEF FreshInv
      <4>2. CASE c.id # clock
        BY <2>1, <4>2 DEF FreshInv
      <4> QED BY <4>1, <4>2
    <3>7. ASSUME NEW v \in Writers, save'[v].id # 0
          PROVE  /\ save'[v].id \notin Stored /\ \A s \in Sweepers : save'[v].id \notin sweep[s]
                 /\ \A u \in Writers \ {v} : save'[u].id # save'[v].id
      BY <2>2, <3>6, <3>7 DEF FreshInv
    <3> QED BY <2>3, <3>1, <3>3, <3>4, <3>5, <3>7 DEF FreshInv
  <2>5. CASE rev' # rev
    <3>1. SaveInsert(w)  BY <1>2, <2>5, WriterCases
    <3>2. /\ save' = [save EXCEPT ![w] = Idle] /\ clock' = clock /\ save[w].id \in Ids
          /\ \E row \in Row : rev' = [rev EXCEPT ![save[w].id] = row]
      BY <2>5, <3>1, InsertFacts
    <3>3. Stored' = Stored \cup {save[w].id}  BY <3>2, StoredInsert
    <3>4. \A v \in Writers : save'[v].id = IF v = w THEN 0 ELSE save[v].id
      BY <3>2, IdleType DEF TypeOK
    <3>5. \A r \in Stored' : r < clock  BY <3>3 DEF FreshInv
    <3>6. \A v \in Writers : save'[v].id < clock  BY <1>t, <3>4 DEF FreshInv
    <3>7. ASSUME NEW v \in Writers, save'[v].id # 0
          PROVE  /\ save'[v].id \notin Stored' /\ \A s \in Sweepers : save'[v].id \notin sweep[s]
                 /\ \A u \in Writers \ {v} : save'[u].id # save'[v].id
      <4>1. v # w /\ save'[v].id = save[v].id /\ save[v].id # 0  BY <3>4, <3>7
      <4>2. save[w].id # save[v].id /\ save[v].id \notin Stored
        BY <4>1 DEF FreshInv
      <4> QED BY <3>3, <3>4, <4>1, <4>2 DEF FreshInv
    <3>8. \A s \in Sweepers : \A r \in sweep'[s] : r < clock  BY <2>3 DEF FreshInv
    <3> QED BY <2>3, <3>2, <3>5, <3>6, <3>7, <3>8 DEF FreshInv
  <2> QED BY <2>4, <2>5
<1>3. ASSUME NEW s \in Sweepers, SweeperStep(s) PROVE FreshInv'
  <2>0. UNCHANGED <<clock, save>>  BY <1>3, SweeperCases
  <2>1. classifyForPrune \subseteq Stored  BY DEF classifyForPrune, Dropped
  <2>2. CASE TakesList(s) \/ DropsList(s)
    <3>1. Stored' = Stored  BY <2>2 DEF TakesList, DropsList, Stored
    <3>2. \A x \in Sweepers : sweep'[x] \subseteq sweep[x] \cup Stored
      BY <2>1, <2>2 DEF TakesList, DropsList, TypeOK
    <3> QED BY <2>0, <3>1, <3>2 DEF FreshInv
  <2>3. ASSUME NEW d \in Ids, Deletes(s, d) PROVE FreshInv'
    <3>1. Stored' = Stored \ {d}  BY <2>3, StoredDelete DEF Deletes
    <3>2. \A x \in Sweepers : sweep'[x] \subseteq sweep[x]  BY <2>3 DEF Deletes, TypeOK
    <3> QED BY <2>0, <3>1, <3>2 DEF FreshInv
  <2> QED BY <1>3, <2>2, <2>3, SweeperCases
<1>4. CASE UNCHANGED vars
  BY <1>4 DEF vars, FreshInv, Stored
<1> QED BY <1>1, <1>2, <1>3, <1>4 DEF Next

-----------------------------------------------------------------------------
(* Chains.  Parents are stored, and a set of stored rows that has all its  *)
(* parents has a snapshot: no delta rests, in the end, on itself.          *)

Closed == Parents(Stored) \subseteq Stored
Grounded ==
    \A T \in SUBSET Stored : T # {} /\ Parents(T) \subseteq T => T \cap Snapshots # {}

\* An INSERT extends a chain by one link.
LEMMA InsertKeepsChains ==
    ASSUME TypeOK, Closed, Grounded, NEW n \in Ids, n \notin Stored, NEW row \in Row,
           row.from \in Stored \cup {0}, rev' = [rev EXCEPT ![n] = row]
    PROVE  Closed' /\ Grounded'
<1>1. Stored' = Stored \cup {n} /\ 0 \notin Stored
  BY StoredInsert, IdFacts DEF Stored
<1>2. rev'[n] = row /\ \A r \in Stored : rev'[r] = rev[r]
  BY DEF TypeOK, Stored
<1>3. Closed'
  BY <1>1, <1>2 DEF Closed, Parents
<1>4. ASSUME NEW T \in SUBSET Stored', T # {}, Parents(T)' \subseteq T
      PROVE  T \cap Snapshots' # {}
  <2> DEFINE U == T \ {n}
  <2>1. U \in SUBSET Stored  BY <1>1
  <2>2. Parents(U) \subseteq U
    <3> SUFFICES ASSUME NEW x \in U, rev[x].from # 0 PROVE rev[x].from \in U
      BY <2>1 DEF Parents
    <3>1. rev[x].from \in Stored  BY <2>1 DEF Closed, Parents
    <3>2. rev'[x].from \in T  BY <1>1, <1>2, <1>4, <2>1 DEF Parents
    <3> QED BY <1>2, <2>1, <3>1, <3>2
  <2>3. ASSUME U # {} PROVE T \cap Snapshots' # {}
    <3>1. PICK x \in U : x \in Snapshots  BY <2>1, <2>2, <2>3 DEF Grounded
    <3>2. x \in Snapshots'
      BY <1>1, <1>2, <2>1, <3>1 DEF Snapshots, IsSnapshot
    <3> QED BY <3>1, <3>2
  <2>4. CASE n \in T
    <3>1. CASE row.from = 0
      BY <1>1, <1>2, <2>4, <3>1 DEF Snapshots, IsSnapshot
    <3>2. CASE row.from # 0
      <4>1. row.from \in T  BY <1>1, <1>2, <1>4, <2>4, <3>2 DEF Parents
      <4>2. row.from \in U  BY <3>2, <4>1
      <4> QED BY <2>3, <4>2
    <3> QED BY <3>1, <3>2
  <2>5. CASE n \notin T
    BY <1>4, <2>3, <2>5
  <2> QED BY <2>4, <2>5
<1> QED BY <1>3, <1>4 DEF Grounded

\* A DELETE that the foreign key lets pass takes no link away.
LEMMA DeleteKeepsChains ==
    ASSUME TypeOK, Closed, Grounded, NEW d \in Ids, ~ Referenced(d),
           rev' = [rev EXCEPT ![d] = NoRow]
    PROVE  Closed' /\ Grounded'
<1>1. Stored' = Stored \ {d}  BY StoredDelete
<1>2. \A r \in Stored' : rev'[r] = rev[r]  BY <1>1 DEF TypeOK, Stored
<1>3. Closed'
  BY <1>1, <1>2 DEF Closed, Parents, Referenced
<1>4. ASSUME NEW T \in SUBSET Stored', T # {}, Parents(T)' \subseteq T
      PROVE  T \cap Snapshots' # {}
  <2>1. T \in SUBSET Stored  BY <1>1
  <2>2. Parents(T) \subseteq T  BY <1>1, <1>2, <1>4 DEF Parents
  <2>3. PICK x \in T : x \in Snapshots  BY <1>4, <2>1, <2>2 DEF Grounded
  <2>4. x \in Snapshots'  BY <1>1, <1>2, <2>3 DEF Snapshots, IsSnapshot
  <2> QED BY <2>3, <2>4
<1> QED BY <1>3, <1>4 DEF Grounded

\* Every step keeps the chains.
LEMMA ChainStep ==
    ASSUME TypeOK, BusyInv, FreshInv, Closed, Grounded, [Next]_vars PROVE Closed' /\ Grounded'
<1>1. CASE rev' = rev
  BY <1>1 DEF Closed, Grounded, Parents, Snapshots, IsSnapshot, Stored
<1>2. ASSUME NEW w \in Writers, WriterStep(w), rev' # rev PROVE Closed' /\ Grounded'
  <2>1. SaveInsert(w)  BY <1>2, WriterCases
  <2>2. save[w].id \in Ids /\ save[w].id # 0 /\ save[w].id \notin Stored
    BY <1>2, <2>1, InsertFacts, IdFacts DEF FreshInv
  <2>3. PICK row \in Row : rev' = [rev EXCEPT ![save[w].id] = row] /\ row.from \in Stored \cup {0}
    BY <1>2, <2>1, InsertFacts
  <2> QED BY <2>2, <2>3, InsertKeepsChains
<1>3. ASSUME NEW s \in Sweepers, SweeperStep(s), rev' # rev PROVE Closed' /\ Grounded'
  <2>1. PICK d \in Ids : Deletes(s, d)
    BY <1>3, SweeperCases DEF TakesList, DropsList
  <2> QED BY <2>1, DeleteKeepsChains DEF Deletes
<1> QED BY <1>1, <1>2, <1>3 DEF Next, vars, Tick

\* Chains and freshness together, in every history.
LEMMA ChainInvariant == Spec => [](FreshInv /\ Closed /\ Grounded)
<1>1. Init => FreshInv /\ Closed /\ Grounded
  <2> SUFFICES ASSUME Init PROVE FreshInv /\ Closed /\ Grounded
    OBVIOUS
  <2>1. Stored = {} /\ clock = 1 /\ \A s \in Sweepers : sweep[s] = {}  BY DEF Init, Stored
  <2>2. \A w \in Writers : save[w].id = 0  BY IdleType DEF Init
  <2>3. FreshInv  BY <2>1, <2>2 DEF FreshInv
  <2> QED BY <2>1, <2>3 DEF Closed, Grounded, Parents
<1>2. ASSUME TypeOK /\ BusyInv, FreshInv /\ Closed /\ Grounded, [Next]_vars
      PROVE  (FreshInv /\ Closed /\ Grounded)'
  BY <1>2, FreshStep, ChainStep
<1> QED BY <1>1, <1>2, TypeCorrect, PTL DEF Spec

\* Every stored revision can be materialized, whatever a Prune deletes beside the Saves.
THEOREM ChainsStayIntact == Spec => []ChainIntact
<1>1. ASSUME TypeOK, Closed, Grounded PROVE ChainIntact
  <2> SUFFICES ASSUME NEW r \in Stored
               PROVE  Reach({r}) \cap Snapshots # {} /\ Reach({r}) \subseteq Stored
    BY DEF ChainIntact
  <2>1. {r} \in SUBSET Ids /\ Stored \in SUBSET Ids  BY DEF Stored
  <2>2. \A q \in Stored : rev[q].from \in Ids \cup {0}  BY <1>1, StoredType
  <2>3. Reach({r}) \subseteq Stored  BY <1>1, <2>1, ReachLeast DEF Closed
  <2>4. r \in Reach({r}) /\ Parents(Reach({r})) \subseteq Reach({r})
    BY <2>1, <2>2, ReachClosed
  <2>5. Reach({r}) \cap Snapshots # {}  BY <1>1, <2>3, <2>4 DEF Grounded
  <2> QED BY <2>3, <2>5
<1> QED BY <1>1, TypeCorrect, ChainInvariant, PTL

-----------------------------------------------------------------------------
(* What a Prune may delete.  Its list grows stale, but a row on it stays   *)
(* prunable: rows that other Prunes delete above it were prunable          *)
(* themselves, and what spares them spares it.                             *)

Left(r) == {q \in Stored : q > r /\ SameCap(q, r)}
OldAutosave(r) == rev[r].kind = "autosave" /\ MaxAgeAutosave > 0 /\ clock - r >= MaxAgeAutosave
CapMet(r) ==
    /\ clock - r >= MinKeepAll /\ Keep[rev[r].kind] > 0
    /\ Cardinality(Left(r)) >= Keep[rev[r].kind]
Prunable(r) == ~rev[r].pinned /\ (OldAutosave(r) \/ CapMet(r))

SweepInv == \A s \in Sweepers : \A r \in sweep[s] \cap Stored : Prunable(r)

\* The revisions above a row are finitely many, before and after a step.
LEMMA LeftFinite ==
    ASSUME NEW r
    PROVE  /\ IsFiniteSet(Left(r)) /\ Cardinality(Left(r)) \in Nat
           /\ IsFiniteSet(Left(r)') /\ Cardinality(Left(r)') \in Nat
<1>1. IsFiniteSet(Ids)  BY FS_Interval, BoundAssumption DEF Ids
<1>2. Left(r) \subseteq Ids /\ Left(r)' \subseteq Ids  BY DEF Left, Stored
<1> QED BY <1>1, <1>2, FS_Subset, FS_CardinalityType

\* Ages and caps are numbers.
LEMMA Numbers ==
    ASSUME TypeOK, NEW r \in Stored
    PROVE  /\ clock \in Nat /\ r \in Nat /\ MinKeepAll \in Nat /\ MaxAgeAutosave \in Nat
           /\ Keep[rev[r].kind] \in Nat
<1>1. clock \in Nat  BY BoundAssumption DEF TypeOK
<1>2. r \in Nat  BY BoundAssumption DEF Stored, Ids
<1> QED BY <1>1, <1>2, StoredType, KnobsAssumption

\* A row that Prune puts on its list is prunable.
LEMMA DroppedPrunable == ASSUME TypeOK, NEW r \in Dropped PROVE Prunable(r)
<1>1. r \in Stored /\ (OverCap(r) \/ TooOld(r))  BY DEF Dropped
<1>2. CASE TooOld(r)
  BY <1>2 DEF TooOld, Prunable, OldAutosave
<1>3. CASE OverCap(r)
  <2>1. Newer(r) \subseteq Left(r)  BY DEF Newer, Left
  <2>2. Cardinality(Newer(r)) <= Cardinality(Left(r)) /\ Cardinality(Newer(r)) \in Nat
    BY <2>1, LeftFinite, FS_Subset, FS_CardinalityType
  <2>3. Keep[rev[r].kind] \in Nat  BY <1>1, StoredType, KnobsAssumption
  <2>4. Cardinality(Left(r)) >= Keep[rev[r].kind]
    BY <1>3, <2>2, <2>3, LeftFinite DEF OverCap
  <2>5. ~rev[r].pinned /\ clock - r >= MinKeepAll
    <3>1. ~rev[r].pinned /\ ~(clock - r < MinKeepAll)  BY <1>3 DEF OverCap, Exempt
    <3>2. clock - r \in Int /\ MinKeepAll \in Nat
      BY <1>1, Numbers
    <3> QED BY <3>1, <3>2
  <2> QED BY <1>3, <2>4, <2>5 DEF OverCap, Prunable, CapMet
<1> QED BY <1>1, <1>2, <1>3

\* A row does not get younger.
LEMMA AgeGrows ==
    ASSUME NEW now \in Nat, NEW later \in Nat, later >= now, NEW r \in Nat, NEW age \in Nat,
           now - r >= age
    PROVE  later - r >= age
OBVIOUS

\* A row stays prunable while time passes and no row above it goes.
LEMMA PrunableKept ==
    ASSUME TypeOK, NEW r \in Stored, clock' \in Nat, clock' >= clock, rev'[r] = rev[r],
           Prunable(r), CapMet(r) => Left(r) \subseteq Left(r)'
    PROVE  Prunable(r)'
<1>t. clock \in Nat /\ r \in Nat /\ MinKeepAll \in Nat /\ MaxAgeAutosave \in Nat
      /\ Keep[rev[r].kind] \in Nat
  BY Numbers
<1>1. ~rev'[r].pinned  BY DEF Prunable
<1>2. CASE OldAutosave(r)
  <2>0. rev'[r].kind = "autosave" /\ MaxAgeAutosave > 0  BY <1>2 DEF OldAutosave
  <2>1. clock - r >= MaxAgeAutosave  BY <1>2 DEF OldAutosave
  <2>2. clock' - r >= MaxAgeAutosave  BY <1>t, <2>1, AgeGrows
  <2>3. OldAutosave(r)'  BY <2>0, <2>2 DEF OldAutosave
  <2> QED BY <1>1, <2>3 DEF Prunable
<1>3. CASE CapMet(r)
  <2>1. Cardinality(Left(r)') >= Cardinality(Left(r))
    BY <1>3, LeftFinite, FS_Subset
  <2>2. /\ clock - r >= MinKeepAll /\ Keep[rev'[r].kind] > 0
        /\ Cardinality(Left(r)) >= Keep[rev'[r].kind]
    BY <1>3 DEF CapMet
  <2>3. clock' - r >= MinKeepAll  BY <1>t, <2>2, AgeGrows
  <2>4. Cardinality(Left(r)') >= Keep[rev'[r].kind]  BY <1>t, <2>1, <2>2, LeftFinite
  <2>5. CapMet(r)'  BY <2>2, <2>3, <2>4 DEF CapMet
  <2> QED BY <1>1, <2>5 DEF Prunable
<1> QED BY <1>2, <1>3 DEF Prunable

\* A row below a deleted prunable row of its cap is prunable without it.
LEMMA PrunableBelow ==
    ASSUME TypeOK, NEW r \in Stored, NEW d \in Stored, r # d,
           rev' = [rev EXCEPT ![d] = NoRow], clock' = clock,
           Prunable(r), Prunable(d)
    PROVE  Prunable(r)'
<1>t. clock \in Nat /\ r \in Nat /\ d \in Nat /\ MinKeepAll \in Nat /\ MaxAgeAutosave \in Nat
      /\ Keep[rev[r].kind] \in Nat
  BY Numbers
<1>1. Stored' = Stored \ {d} /\ d \in Ids  BY StoredDelete DEF Stored
<1>2. \A q \in Stored : q # d => rev'[q] = rev[q]  BY DEF TypeOK, Stored
<1>3. CASE d \notin Left(r)
  <2>1. Left(r) \subseteq Left(r)'
    BY <1>1, <1>2, <1>3 DEF Left, SameCap
  <2> QED BY <1>2, <1>t, <2>1, PrunableKept
<1>4. CASE d \in Left(r)
  <2>1. d > r /\ SameCap(d, r)  BY <1>4 DEF Left
  <2>2. rev[d].kind = rev[r].kind  BY <2>1 DEF SameCap
  <2>3. rev'[r] = rev[r]  BY <1>2
  <2>4. ~rev'[r].pinned  BY <2>3 DEF Prunable
  <2>5. CASE OldAutosave(d)
    <3>1. clock - r >= MaxAgeAutosave  BY <1>t, <2>1, <2>5 DEF OldAutosave
    <3>2. OldAutosave(r)'  BY <2>2, <2>3, <2>5, <3>1 DEF OldAutosave
    <3> QED BY <2>4, <3>2 DEF Prunable
  <2>6. CASE CapMet(d)
    <3>1. Left(d) \subseteq Left(r)'
      <4> SUFFICES ASSUME NEW q \in Left(d) PROVE q \in Left(r)'
        OBVIOUS
      <4>1. q \in Stored /\ q > d /\ SameCap(q, d)  BY DEF Left
      <4>2. q \in Nat  BY <4>1, StoredType, IdFacts
      <4>3. q # d /\ q > r  BY <1>t, <2>1, <4>1, <4>2
      <4>4. SameCap(q, r)  BY <2>1, <4>1 DEF SameCap
      <4>5. rev'[q] = rev[q] /\ q \in Stored'  BY <1>1, <1>2, <4>1, <4>3
      <4> QED BY <2>3, <4>3, <4>4, <4>5 DEF Left, SameCap
    <3>2. Cardinality(Left(r)') >= Cardinality(Left(d))
      BY <3>1, LeftFinite, FS_Subset
    <3>3. clock - r >= MinKeepAll  BY <1>t, <2>1, <2>6 DEF CapMet
    <3>4. CapMet(r)'
      BY <1>t, <2>2, <2>3, <2>6, <3>2, <3>3, LeftFinite DEF CapMet
    <3> QED BY <2>4, <3>4 DEF Prunable
  <2> QED BY <2>5, <2>6 DEF Prunable
<1> QED BY <1>3, <1>4

\* Every step keeps what is on a list prunable.
LEMMA SweepStep ==
    ASSUME TypeOK, TypeOK', BusyInv, FreshInv, SweepInv, [Next]_vars PROVE SweepInv'
<1>t. clock \in Nat /\ clock' \in Nat  BY BoundAssumption DEF TypeOK
<1>1. ASSUME rev' = rev, clock' >= clock, UNCHANGED sweep PROVE SweepInv'
  <2> SUFFICES ASSUME NEW s \in Sweepers, NEW r \in sweep[s] \cap Stored PROVE Prunable(r)'
    BY <1>1 DEF SweepInv, Stored
  <2>1. Left(r)' = Left(r)  BY <1>1 DEF Left, Stored, SameCap
  <2> QED BY <1>1, <1>t, <2>1, PrunableKept DEF SweepInv
<1>2. ASSUME NEW w \in Writers, WriterStep(w) PROVE SweepInv'
  <2>1. clock' >= clock /\ UNCHANGED sweep
    BY <1>2, <1>t, WriterCases DEF CallStep
  <2>2. CASE rev' = rev  BY <1>1, <2>1, <2>2
  <2>3. CASE rev' # rev
    <3>1. SaveInsert(w)  BY <1>2, <2>3, WriterCases
    <3> DEFINE n == save[w].id
    <3>2. n \in Ids /\ \E row \in Row : rev' = [rev EXCEPT ![n] = row]
      BY <2>3, <3>1, InsertFacts
    <3>3. n \notin Stored /\ \A s \in Sweepers : n \notin sweep[s]
      BY <3>2, IdFacts DEF FreshInv
    <3> HIDE DEF n
    <3>4. Stored' = Stored \cup {n}  BY <3>2, StoredInsert
    <3>5. \A q \in Stored : rev'[q] = rev[q]  BY <3>2, <3>3 DEF TypeOK, Stored
    <3> SUFFICES ASSUME NEW s \in Sweepers, NEW r \in sweep[s] \cap Stored PROVE Prunable(r)'
      BY <2>1, <3>3, <3>4 DEF SweepInv
    <3>6. Left(r) \subseteq Left(r)'
      BY <3>4, <3>5 DEF Left, SameCap
    <3> QED BY <1>t, <2>1, <3>5, <3>6, PrunableKept DEF SweepInv
  <2> QED BY <2>2, <2>3
<1>3. ASSUME NEW s \in Sweepers, SweeperStep(s) PROVE SweepInv'
  <2>0. clock' = clock  BY <1>3, SweeperCases
  <2>1. CASE TakesList(s) \/ DropsList(s)
    <3>1. rev' = rev /\ Stored' = Stored  BY <2>1 DEF TakesList, DropsList, Stored
    <3>2. \A r : Prunable(r) => Prunable(r)'
      BY <2>0, <3>1 DEF Prunable, OldAutosave, CapMet, Left, Stored, SameCap
    <3>3. \A x \in Sweepers : sweep'[x] \subseteq sweep[x] \cup Dropped
      BY <2>1 DEF TakesList, DropsList, TypeOK, classifyForPrune
    <3> QED BY <3>1, <3>2, <3>3, DroppedPrunable DEF SweepInv
  <2>2. ASSUME NEW d \in Ids, Deletes(s, d) PROVE SweepInv'
    <3>1. d \in sweep[s] /\ rev' = [rev EXCEPT ![d] = NoRow]  BY <2>2 DEF Deletes
    <3>2. Stored' = Stored \ {d}  BY <3>1, StoredDelete
    <3>3. \A x \in Sweepers : sweep'[x] \subseteq sweep[x]  BY <2>2 DEF Deletes, TypeOK
    <3> SUFFICES ASSUME NEW x \in Sweepers, NEW r \in sweep[x] \cap Stored, r # d
                 PROVE  Prunable(r)'
      BY <3>2, <3>3 DEF SweepInv
    <3>4. CASE d \in Stored
      BY <2>0, <3>1, <3>4, PrunableBelow DEF SweepInv
    <3>5. CASE d \notin Stored
      <4>1. \A q \in Stored : rev'[q] = rev[q]  BY <3>1, <3>5 DEF TypeOK, Stored
      <4>2. Left(r) \subseteq Left(r)'  BY <3>2, <3>5, <4>1 DEF Left, SameCap
      <4> QED BY <1>t, <2>0, <4>1, <4>2, PrunableKept DEF SweepInv
    <3> QED BY <3>4, <3>5
  <2> QED BY <1>3, <2>1, <2>2, SweeperCases
<1>4. CASE Tick \/ UNCHANGED vars
  <2>1. rev' = rev /\ clock' >= clock /\ UNCHANGED sweep  BY <1>4, <1>t DEF Tick, vars
  <2> QED BY <1>1, <2>1
<1> QED BY <1>2, <1>3, <1>4 DEF Next

\* Lists hold only what may be deleted.
LEMMA SweepInvariant == Spec => []SweepInv
<1>1. Init => SweepInv  BY DEF Init, SweepInv
<1>2. ASSUME TypeOK /\ BusyInv, (TypeOK /\ BusyInv)', FreshInv /\ Closed /\ Grounded, SweepInv,
             [Next]_vars
      PROVE  SweepInv'
  BY <1>2, SweepStep
<1> QED BY <1>1, <1>2, TypeCorrect, ChainInvariant, PTL DEF Spec

\* However stale its list, a Prune removes no pinned revision, and only an autosave past
\* its age or a revision with the newest Keep of its kind above it.
THEOREM PruneIsSparing == Spec => PruneSpares
<1> DEFINE Spares ==
        \A r \in Stored : rev'[r] = NoRow =>
            /\ ~rev[r].pinned
            /\ \/ /\ rev[r].kind = "autosave"
                  /\ MaxAgeAutosave > 0 /\ clock - r >= MaxAgeAutosave
               \/ /\ clock - r >= MinKeepAll /\ Keep[rev[r].kind] > 0
                  /\ LET left == {q \in Ids : q > r /\ rev'[q] # NoRow /\ SameCap(q, r)} IN
                        Cardinality(left) >= Keep[rev[r].kind]
<1>1. ASSUME TypeOK, BusyInv, FreshInv, SweepInv, [Next]_vars PROVE Spares
  <2> SUFFICES ASSUME NEW r \in Stored, rev'[r] = NoRow
               PROVE  /\ ~rev[r].pinned
                      /\ \/ /\ rev[r].kind = "autosave"
                            /\ MaxAgeAutosave > 0 /\ clock - r >= MaxAgeAutosave
                         \/ /\ clock - r >= MinKeepAll /\ Keep[rev[r].kind] > 0
                            /\ Cardinality({q \in Ids : q > r /\ rev'[q] # NoRow /\ SameCap(q, r)})
                                    >= Keep[rev[r].kind]
    OBVIOUS
  <2>1. rev' # rev  BY DEF Stored
  <2>2. ASSUME NEW w \in Writers, WriterStep(w) PROVE FALSE
    <3>1. SaveInsert(w)  BY <1>1, <2>1, <2>2, WriterCases
    <3>2. PICK row \in Row : rev' = [rev EXCEPT ![save[w].id] = row]
      BY <1>1, <2>1, <3>1, InsertFacts
    <3>3. save[w].id \in Ids  BY <1>1, <2>1, <3>1, InsertFacts
    <3> QED BY <1>1, <3>2, <3>3, StoredInsert DEF Stored
  <2>3. PICK s \in Sweepers : SweeperStep(s)
    BY <1>1, <2>1, <2>2 DEF Next, vars, Tick
  <2>4. PICK d \in Ids : Deletes(s, d)
    BY <1>1, <2>1, <2>3, SweeperCases DEF TakesList, DropsList
  <2>5. rev' = [rev EXCEPT ![d] = NoRow] /\ d \in sweep[s]  BY <2>4 DEF Deletes
  <2>6. r = d  BY <1>1, <2>5 DEF Stored, TypeOK
  <2>7. Prunable(r)  BY <1>1, <2>5, <2>6 DEF SweepInv
  <2>8. {q \in Ids : q > r /\ rev'[q] # NoRow /\ SameCap(q, r)} = Left(r)
    <3>1. \A q \in Ids : q > r => q # r
      BY StoredType, IdFacts DEF Stored
    <3>2. \A q \in Ids : q # d => rev'[q] = rev[q]  BY <1>1, <2>5 DEF TypeOK
    <3> QED BY <2>6, <3>1, <3>2 DEF Left, Stored
  <2> HIDE DEF Spares
  <2> QED BY <2>7, <2>8 DEF Prunable, OldAutosave, CapMet
<1>2. ASSUME TypeOK /\ BusyInv, FreshInv /\ Closed /\ Grounded, SweepInv, [Next]_vars
      PROVE  [Spares]_vars
  BY <1>1, <1>2
<1> QED BY <1>2, TypeCorrect, ChainInvariant, SweepInvariant, PTL DEF Spec, PruneSpares
=============================================================================
