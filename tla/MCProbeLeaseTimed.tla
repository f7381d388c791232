-------------------------- MODULE MCProbeLeaseTimed --------------------------
(* Instances of ProbeLeaseTimed for TLC. *)
EXTENDS ProbeLeaseTimed, TLC

\* Every config first runs at the same time: the batch is as long as it gets.
MCNoJitter == [c \in Config |-> 0]

\* Configs that are told apart by nothing but their names.
ConfigSymmetry == Permutations(Config)
===============================================================================
