---------------------------- MODULE MCScheduler ----------------------------
(* Two tasks, two workers: constants for the scheduler's runs. *)
EXTENDS Scheduler, TLC

Attempts2 == [t \in Tasks |-> 2]
Attempts12 == [t \in Tasks |-> t]

WorkerSymmetry == Permutations(Workers)

=============================================================================
