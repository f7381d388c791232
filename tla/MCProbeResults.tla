---------------------------- MODULE MCProbeResults ----------------------------
(* Instances of ProbeResults for TLC. *)
EXTENDS ProbeResults, TLC

CONSTANTS w1, w2

\* Results from before the derived tables existed: two buckets, both outcomes.
MCLegacy == {[at |-> 0, ok |-> FALSE], [at |-> 1, ok |-> TRUE], [at |-> 2, ok |-> FALSE]}
WorkerSymmetry == Permutations(Worker)
===============================================================================
