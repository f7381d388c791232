----------------------------- MODULE MCProbeLease -----------------------------
(* Instances of ProbeLease for TLC. *)
EXTENDS ProbeLease, TLC

CONSTANTS c1, c2, w1, w2

MCJitter == [c \in Config |-> IF c = c1 THEN 0 ELSE 1]
WorkerSymmetry == Permutations(Worker)
===============================================================================
