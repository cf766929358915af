---------------------------- MODULE JobLifecycle ----------------------------
(***************************************************************************)
(* What Tako VM promises about the execution record of each job            *)
(* (docs/index.md: queued -> running -> succeeded/failed/timeout/oom/      *)
(* cancelled), without saying which component makes a step.  WorkerPool    *)
(* implements it: see Lifecycle there.                                     *)
(***************************************************************************)
EXTENDS ExecutionRecords

CONSTANT Jobs

VARIABLE rec

Init == rec = [j \in Jobs |-> "absent"]

\* A job is accepted for execution, or at least recorded.
Record(j) == rec[j] = "absent" /\ rec' = [rec EXCEPT ![j] = "queued"]

Start(j) == rec[j] = "queued" /\ rec' = [rec EXCEPT ![j] = "running"]

\* A job that is waiting or running reaches one final status.
Settle(j, s) == rec[j] \in InFlight /\ rec' = [rec EXCEPT ![j] = s]

\* A restart settles whatever the previous process left in flight.
Interrupt == rec' = [j \in Jobs |-> ReconcileStale(rec[j])]

Next ==
  \/ \E j \in Jobs : Record(j) \/ Start(j) \/ \E s \in Terminal : Settle(j, s)
  \/ Interrupt

Spec == Init /\ [][Next]_rec
=============================================================================
