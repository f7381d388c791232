------------------------------ MODULE MCManageTui ------------------------------
(* Instances of ManageTui for TLC. *)
EXTENDS ManageTui, TLC

CONSTANTS q1, q2, d1, d2

\* Two names, each with its slug (numbers too, so that a search can be one of them).
MCSlugify == [n \in Name |-> 10 + n]
\* A search that finds only the second name and its slug.
MCMatches == [q \in Query |-> {2, 12}]
Sites == Permutations(Site)
===============================================================================
