---------------------------- MODULE AtLeastOnce ----------------------------
(***************************************************************************)
(* What packages/go/jobs/outbox promises its callers, without pollers,     *)
(* claims or time: a committed row is delivered at least once before it is *)
(* removed, and a row that was never committed is never delivered.  Late   *)
(* duplicates may arrive after the removal.                                *)
(***************************************************************************)
EXTENDS Naturals

CONSTANT Rows

VARIABLES status, delivered

vars == <<status, delivered>>

Init ==
    /\ status = [r \in Rows |-> "absent"]
    /\ delivered = [r \in Rows |-> 0]

Commit(r) ==
    /\ status[r] = "absent"
    /\ status' = [status EXCEPT ![r] = "pending"]
    /\ UNCHANGED delivered

Deliver(r) ==
    /\ status[r] # "absent"
    /\ delivered' = [delivered EXCEPT ![r] = @ + 1]
    /\ UNCHANGED status

Remove(r) ==
    /\ status[r] = "pending" /\ delivered[r] > 0
    /\ status' = [status EXCEPT ![r] = "removed"]
    /\ UNCHANGED delivered

Next == \E r \in Rows : Commit(r) \/ Deliver(r) \/ Remove(r)

Spec == Init /\ [][Next]_vars
=============================================================================
