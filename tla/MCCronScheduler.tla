-------------------------- MODULE MCCronScheduler --------------------------
(* Small instances of CronScheduler for TLC. *)
EXTENDS CronScheduler, TLC

\* Two schedules that share every second boundary.
TwoPeriods == [s \in Schedules |-> IF s = "minutely" THEN 1 ELSE 2]

ReplicaSymmetry == Permutations(Replicas)
=============================================================================
