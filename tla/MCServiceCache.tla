---------------------------- MODULE MCServiceCache ----------------------------
(* Instances of ServiceCache for TLC. *)
EXTENDS ServiceCache, TLC

CONSTANTS s1, s2, k1, k2, r1, j1, o1, o2

MCPublished == s1 :> k1
===============================================================================
