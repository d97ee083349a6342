----------------------------- MODULE Revisions -----------------------------
(***************************************************************************)
(* packages/go/revisions over Postgres: the revision history of one post.  *)
(* Save stores a snapshot, or a delta against the latest revision, after   *)
(* up to three probes and a walk of the parent's chain, each a query of    *)
(* its own.  Prune reads the history once, decides, and deletes row by     *)
(* row.  The foreign key delta_from (migration 000012, no ON DELETE        *)
(* action) refuses a delta without parent and the deletion of a parent.    *)
(*                                                                         *)
(* A revision is named by its created_at, which Save takes when it starts: *)
(* rows may appear in another order.  Content is left out: a delta's       *)
(* parent never changes, so what matters is that the chain is there.  The  *)
(* chain cap of 1024 hops lies beyond MaxTime.                             *)
(***************************************************************************)
EXTENDS Integers, FiniteSets

CONSTANTS
    Writers,         \* callers of Save; each one is an author
    Sweepers,        \* callers of Prune
    Requests,        \* bound: the pairs of kind and is_permanent that are saved
    SnapshotEveryN,
    MaxSnapshotAge,  \* 0: no limit
    Keep,            \* Keep[k]: cap on revisions of kind k, 0 for none
    MaxAgeAutosave,  \* 0: no limit
    MinKeepAll,
    MaxTime          \* bound

Kinds == {"autosave", "manual", "publish"}
Ids == 1 .. MaxTime

ASSUME BoundAssumption == MaxTime \in Nat /\ 0 \notin Writers
ASSUME KnobsAssumption ==
    /\ Requests \subseteq Kinds \X BOOLEAN
    /\ SnapshotEveryN \in Nat \ {0} /\ MaxSnapshotAge \in Nat
    /\ Keep \in [Kinds -> Nat]
    /\ MaxAgeAutosave \in Nat /\ MinKeepAll \in Nat

VARIABLES
    clock,
    rev,        \* rev[r]: the row with created_at r, or NoRow
    save,       \* save[w]: the Save that w is in
    sweep       \* sweep[s]: the rows that the Prune of s has yet to delete

vars == <<clock, rev, save, sweep>>

NoRow == [kind |-> "none", author |-> 0, from |-> 0, pinned |-> FALSE]
Row == [kind : Kinds, author : Writers, from : Ids \cup {0}, pinned : BOOLEAN]
Step == {"idle", "count", "age", "parent", "walk", "insert", "restore"}
Call == [at : Step, id : Ids \cup {0}, kind : Kinds \cup {"none"}, pinned : BOOLEAN,
         parent : Ids \cup {0}, walk : Ids \cup {0}]
Idle == [at |-> "idle", id |-> 0, kind |-> "none", pinned |-> FALSE, parent |-> 0, walk |-> 0]

Stored == {r \in Ids : rev[r] # NoRow}
IsSnapshot(r) == rev[r].from = 0
Snapshots == {r \in Stored : IsSnapshot(r)}
Latest(S) == CHOOSE r \in S : \A q \in S : q <= r
Oldest(S) == CHOOSE r \in S : \A q \in S : r <= q

\* The clock, the rows, the calls of Save and the lists of Prune have their types.
TypeOK ==
    /\ clock \in 1 .. (MaxTime + 1)
    /\ rev \in [Ids -> Row \cup {NoRow}]
    /\ save \in [Writers -> Call]
    /\ sweep \in [Sweepers -> SUBSET Ids]

Init ==
    /\ clock = 1
    /\ rev = [r \in Ids |-> NoRow]
    /\ save = [w \in Writers |-> Idle]
    /\ sweep = [s \in Sweepers |-> {}]

Go(w, step) == save' = [save EXCEPT ![w] = step]
Moved(w, at, parent, walk) ==
    [at |-> at, id |-> save[w].id, kind |-> save[w].kind, pinned |-> save[w].pinned,
     parent |-> parent, walk |-> walk]
GoTo(w, at) == Go(w, Moved(w, at, save[w].parent, save[w].walk))
Leave(w) == Go(w, Idle)

\* Time passes without a Save.
Tick ==
    /\ clock <= MaxTime
    /\ clock' = clock + 1
    /\ UNCHANGED <<rev, save, sweep>>

-----------------------------------------------------------------------------
(* Save.                                                                   *)

\* A Save that starts now; a forced snapshot asks nothing.
Started(at, kind, pinned) ==
    [at |-> at, id |-> clock, kind |-> kind, pinned |-> pinned, parent |-> 0, walk |-> 0]

Save(w) ==
    /\ save[w] = Idle
    /\ clock <= MaxTime
    /\ \E at \in {"count", "insert"}, q \in Requests : Go(w, Started(at, q[1], q[2]))
    /\ clock' = clock + 1
    /\ UNCHANGED <<rev, sweep>>

\* countSinceSnapshotSQL
SinceSnapshot == IF Snapshots = {} THEN Stored ELSE {r \in Stored : r >= Latest(Snapshots)}

SaveCount(w) ==
    /\ save[w].at = "count"
    /\ LET n == Cardinality(SinceSnapshot) IN
        GoTo(w, IF n = 0 \/ n >= SnapshotEveryN THEN "insert" ELSE "age")
    /\ UNCHANGED <<clock, rev, sweep>>

\* latestSnapshotSQL
SaveAge(w) ==
    /\ save[w].at = "age"
    /\ LET due == Snapshots = {} \/ save[w].id - Latest(Snapshots) >= MaxSnapshotAge IN
        GoTo(w, IF MaxSnapshotAge > 0 /\ due THEN "insert" ELSE "parent")
    /\ UNCHANGED <<clock, rev, sweep>>

\* latestRevisionAnyKindSQL, by created_at; without an answer, a snapshot.
SaveParent(w) ==
    /\ save[w].at = "parent"
    /\ \/ GoTo(w, "insert")
       \/ /\ Stored # {}
          /\ LET p == Latest(Stored) IN Go(w, Moved(w, "walk", p, p))
    /\ UNCHANGED <<clock, rev, sweep>>

\* Materialize reads one row per step, down to a snapshot.  A row that is gone fails
\* the call: ErrNotFound for the first one, ErrCorruptChain further down.
Walk(w, then) ==
    LET r == save[w].walk IN
    IF r \notin Stored THEN Leave(w)
    ELSE IF IsSnapshot(r) THEN Go(w, then)
    ELSE Go(w, Moved(w, save[w].at, save[w].parent, rev[r].from))

SaveWalk(w) ==
    /\ save[w].at = "walk"
    /\ Walk(w, Moved(w, "insert", save[w].parent, save[w].walk))
    /\ UNCHANGED <<clock, rev, sweep>>

\* The INSERT; the foreign key refuses a parent that was pruned meanwhile.
SaveInsertUnchecked(w) ==
    /\ save[w].at = "insert"
    /\ rev' = [rev EXCEPT ![save[w].id] =
                [kind |-> save[w].kind, author |-> w,
                 from |-> save[w].parent, pinned |-> save[w].pinned]]
    /\ Leave(w)
    /\ UNCHANGED <<clock, sweep>>
SaveInsert(w) ==
    /\ save[w].at = "insert"
    /\ rev' = IF save[w].parent \in Stored \cup {0}
              THEN [rev EXCEPT ![save[w].id] =
                      [kind |-> save[w].kind, author |-> w,
                       from |-> save[w].parent, pinned |-> save[w].pinned]]
              ELSE rev
    /\ Leave(w)
    /\ UNCHANGED <<clock, sweep>>

\* A query fails, or the caller goes away.
SaveFails(w) ==
    /\ save[w] # Idle
    /\ Leave(w)
    /\ UNCHANGED <<clock, rev, sweep>>

-----------------------------------------------------------------------------
(* restoreRevision: Materialize a revision, then Save a forced snapshot.    *)

Restore(w) ==
    /\ save[w] = Idle
    /\ \E r \in Stored :
        Go(w, [at |-> "restore", id |-> 0, kind |-> "none", pinned |-> FALSE,
               parent |-> 0, walk |-> r])
    /\ UNCHANGED <<clock, rev, sweep>>

RestoreWalk(w) ==
    /\ save[w].at = "restore"
    /\ clock <= MaxTime
    /\ Walk(w, Started("insert", "manual", FALSE))
    /\ clock' = IF save'[w].at = "insert" THEN clock + 1 ELSE clock
    /\ UNCHANGED <<rev, sweep>>

-----------------------------------------------------------------------------
(* Prune.                                                                  *)

\* Rows that share one cap: autosaves of one author, all manual, all published.
SameCap(q, r) ==
    rev[q].kind = rev[r].kind /\ (rev[r].kind = "autosave" => rev[q].author = rev[r].author)

Exempt(r) == rev[r].pinned \/ clock - r < MinKeepAll

\* markOldestForDrop: all but the newest Keep of the rows that are not exempt.
Newer(r) == {q \in Stored : ~Exempt(q) /\ SameCap(q, r) /\ q > r}
OverCapByOne(r) ==
    ~Exempt(r) /\ Keep[rev[r].kind] > 0 /\ Cardinality(Newer(r)) >= Keep[rev[r].kind] - 1
OverCap(r) ==
    ~Exempt(r) /\ Keep[rev[r].kind] > 0 /\ Cardinality(Newer(r)) >= Keep[rev[r].kind]

TooOld(r) ==
    /\ MaxAgeAutosave > 0
    /\ rev[r].kind = "autosave" /\ ~rev[r].pinned /\ clock - r >= MaxAgeAutosave

Dropped == {r \in Stored : OverCap(r) \/ TooOld(r)}

\* The reachability sweep: S and all that its deltas rest on, the least set that has
\* S and the parents of its members.
Parents(S) == {rev[r].from : r \in S \cap Stored} \ {0}
Reach(S) ==
    {r \in Ids : \A T \in SUBSET Ids : S \subseteq T /\ Parents(T) \subseteq T => r \in T}

classifyForPrune == Dropped \ Reach(Stored \ Dropped)

Prune(s) ==
    /\ sweep[s] = {}
    /\ sweep' = [sweep EXCEPT ![s] = classifyForPrune]
    /\ UNCHANGED <<clock, rev, save>>

Referenced(r) == \E q \in Stored : rev[q].from = r

\* One DELETE per row, oldest first.  The foreign key refuses a row that a delta still
\* rests on, and the error ends the Prune.
PruneDelete(s) ==
    /\ sweep[s] # {}
    /\ LET r == Oldest(sweep[s]) IN
        IF Referenced(r)
        THEN sweep' = [sweep EXCEPT ![s] = {}] /\ UNCHANGED rev
        ELSE /\ sweep' = [sweep EXCEPT ![s] = @ \ {r}]
             /\ rev' = [rev EXCEPT ![r] = NoRow]
    /\ UNCHANGED <<clock, save>>

\* A failing DELETE, or a cancelled context.
PruneFails(s) ==
    /\ sweep[s] # {}
    /\ sweep' = [sweep EXCEPT ![s] = {}]
    /\ UNCHANGED <<clock, rev, save>>

WriterStep(w) ==
    \/ Save(w) \/ SaveCount(w) \/ SaveAge(w) \/ SaveParent(w) \/ SaveWalk(w)
    \/ SaveInsert(w) \/ SaveFails(w) \/ Restore(w) \/ RestoreWalk(w)
SweeperStep(s) == Prune(s) \/ PruneDelete(s) \/ PruneFails(s)

Next ==
    \/ Tick
    \/ \E w \in Writers : WriterStep(w)
    \/ \E s \in Sweepers : SweeperStep(s)

Spec == Init /\ [][Next]_vars

-----------------------------------------------------------------------------
(* Properties.                                                             *)

\* Every revision of the history can be materialized: its chain of deltas ends in a
\* snapshot, whatever a Prune deleted while a Save was between its probes and its
\* INSERT, and whatever order the rows appeared in.
ChainIntact == \A r \in Stored : Reach({r}) \cap Snapshots # {} /\ Reach({r}) \subseteq Stored

\* A Prune works on a list that is out of date, beside other Prunes and late INSERTs:
\* all the same no DELETE removes a pinned revision, and what it removes is an old
\* autosave or leaves the newest Keep of its kind in the history.  Pins are fixed at
\* INSERT, as in all code of the repository; a flip on a stored row, of which migration
\* 000012:24-27 speaks, could come between the list and its DELETE and is not modelled.
PruneSpares ==
    [][\A r \in Stored : rev'[r] = NoRow =>
            /\ ~rev[r].pinned
            /\ \/ /\ rev[r].kind = "autosave"
                  /\ MaxAgeAutosave > 0 /\ clock - r >= MaxAgeAutosave
               \/ /\ clock - r >= MinKeepAll /\ Keep[rev[r].kind] > 0
                  /\ LET left == {q \in Ids : q > r /\ rev'[q] # NoRow /\ SameCap(q, r)} IN
                        Cardinality(left) >= Keep[rev[r].kind]]_vars

\* The pruner never deletes a row that a delta still rests on, so that the foreign key
\* has nothing to refuse: among the rows a Prune chose, no delta outlives its parent.
DeletesInOrder ==
    \A s \in Sweepers :
        sweep[s] # {} => \A q \in sweep[s] \cap Stored : rev[q].from # Oldest(sweep[s])
=============================================================================
